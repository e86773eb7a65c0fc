-------------------------- MODULE ConsoleInputProofs --------------------------
(***************************************************************************)
(* Proofs about ConsoleInput, for any tree of commands, keys and lines of  *)
(* any length: the types, that the screen shows what is edited and no star *)
(* of a password is left on it, that keys are read whole and lines run the *)
(* commands they name, that what was typed comes back from the history,    *)
(* and that the terminal is given back.                                    *)
(***************************************************************************)
EXTENDS ConsoleInput, SequenceTheorems, WellFoundedInduction, TLAPS

-----------------------------------------------------------------------------
(* Counting, for lines of any length *)

\* Any set of numbers has a least one.
LEMMA Least ==
  ASSUME NEW T, T \subseteq Nat, T # {}
  PROVE  \E n \in T : \A m \in T : n <= m
<1>1. PICK n \in T : \A m \in T : ~(<<m, n>> \in OpToRel(<, Nat))
  BY NatLessThanWellFounded, WFMin
<1>2. \A m \in T : ~(m < n)
  BY <1>1 DEF OpToRel
<1>3. \A m \in T : m \in Nat /\ n \in Nat
  OBVIOUS
<1> QED BY <1>2, <1>3

\* What holds of zero, and of n + 1 if of n, holds of every number.
LEMMA Counting ==
  ASSUME NEW T, 0 \in T, \A n \in Nat : n \in T => n + 1 \in T
  PROVE  \A n \in Nat : n \in T
<1> SUFFICES ASSUME Nat \ T # {} PROVE FALSE
  OBVIOUS
<1>1. PICK n \in Nat \ T : \A m \in Nat \ T : n <= m
  BY Least
<1>2. n # 0 /\ n - 1 \in Nat /\ ~(n <= n - 1)
  BY <1>1
<1>3. n - 1 \in T
  BY <1>1, <1>2
<1> QED BY <1>1, <1>2, <1>3

\* A set of numbers that stays below b has a greatest one.
LEMMA Greatest ==
  ASSUME NEW T, T \subseteq Nat, T # {}, NEW b \in Nat, \A n \in T : n <= b
  PROVE  \E n \in T : \A m \in T : m <= n
<1>1. PICK U : U = {b - n : n \in T}
  OBVIOUS
<1>2. U \subseteq Nat /\ U # {}
  <2>1. \A n \in T : n \in Nat /\ b - n \in Nat
    OBVIOUS
  <2> QED BY <1>1, <2>1
<1>3. PICK k \in U : \A j \in U : k <= j
  BY <1>2, Least
<1>4. PICK n \in T : k = b - n
  BY <1>1, <1>3
<1>5. \A m \in T : b - m \in U
  BY <1>1
<1>6. \A m \in T : m \in Nat /\ n \in Nat /\ b - n <= b - m
  BY <1>3, <1>4, <1>5
<1> QED BY <1>6

\* The ends of a set of places, as Max and Min choose them.
LEMMA EndsOf ==
  ASSUME NEW T, T \subseteq Nat, T # {}, NEW b \in Nat, \A n \in T : n <= b
  PROVE  Max(T) \in T /\ Min(T) \in T /\ \A n \in T : Min(T) <= n /\ n <= Max(T)
<1>1. \E n \in T : \A m \in T : n >= m
  <2>1. PICK n \in T : \A m \in T : m <= n
    BY Greatest
  <2> QED BY <2>1
<1>2. \E n \in T : \A m \in T : n =< m
  BY Least
<1>3. Max(T) \in T /\ \A m \in T : Max(T) >= m
  BY <1>1 DEF Max
<1>4. Min(T) \in T /\ \A m \in T : Min(T) =< m
  BY <1>2 DEF Min
<1> QED BY <1>3, <1>4

-----------------------------------------------------------------------------
(* Sequences put together *)

\* FlattenSeq puts the sequences behind each other, one by one.
LEMMA FlatSteps ==
  ASSUME NEW S, NEW s \in Seq(Seq(S))
  PROVE  \E f : /\ \A i \in 0..Len(s) : f[i] \in Seq(S)
                /\ f[0] = <<>> /\ \A i \in 1..Len(s) : f[i] = f[i - 1] \o s[i]
                /\ FlattenSeq(s) = f[Len(s)]
<1>1. PICK n \in Nat : n = Len(s)
  BY LenProperties
<1>2. ASSUME NEW i \in 1..n PROVE s[i] \in Seq(S)
  BY <1>1, ElementOfSeq
<1> DEFINE Steps(m, f) == /\ \A i \in 0..m : f[i] \in Seq(S)
                          /\ f[0] = <<>> /\ \A i \in 1..m : f[i] = f[i - 1] \o s[i]
<1>3. PICK T : T = {m \in Nat : m <= n => \E f : Steps(m, f)}
  OBVIOUS
<1>4. 0 \in T
  <2>1. PICK f : f = [i \in 0..0 |-> <<>>]
    OBVIOUS
  <2>2. Steps(0, f)
    BY <2>1, EmptySeq
  <2> QED BY <1>3, <2>2
<1>5. ASSUME NEW m \in Nat, m \in T PROVE m + 1 \in T
  <2>1. SUFFICES ASSUME m + 1 <= n PROVE \E g : Steps(m + 1, g)
    <3>1. m + 1 \in Nat
      OBVIOUS
    <3> HIDE DEF Steps
    <3> QED BY <1>3, <3>1
  <2>2. PICK f : Steps(m, f)
    <3>1. m <= n
      BY <2>1
    <3> HIDE DEF Steps
    <3> QED BY <1>3, <1>5, <3>1
  <2>3. m + 1 \in 1..n /\ m \in 0..m
    BY <2>1
  <2>4. PICK last : last = f[m] \o s[m + 1]
    OBVIOUS
  <2>5. last \in Seq(S)
    BY <1>2, <2>2, <2>3, <2>4, ConcatProperties
  <2>6. PICK g : g = [i \in 0..m + 1 |-> IF i = m + 1 THEN last ELSE f[i]]
    OBVIOUS
  <2>7. ASSUME NEW i \in 0..m + 1 PROVE g[i] \in Seq(S)
    <3>1. i # m + 1 => i \in 0..m
      OBVIOUS
    <3> QED BY <2>2, <2>5, <2>6, <3>1
  <2>8. g[0] = <<>>
    <3>1. 0 # m + 1 /\ 0 \in 0..m + 1
      OBVIOUS
    <3> QED BY <2>2, <2>6, <3>1
  <2>9. ASSUME NEW i \in 1..m + 1 PROVE g[i] = g[i - 1] \o s[i]
    <3>1. i - 1 \in 0..m + 1 /\ i - 1 # m + 1 /\ i \in 0..m + 1
      OBVIOUS
    <3>2. CASE i = m + 1
      <4>1. i - 1 = m
        BY <3>2
      <4> QED BY <2>4, <2>6, <3>1, <3>2, <4>1
    <3>3. CASE i # m + 1
      <4>1. i \in 1..m
        BY <3>3
      <4> QED BY <2>2, <2>6, <3>1, <3>3, <4>1
    <3> QED BY <3>2, <3>3
  <2> QED BY <2>7, <2>8, <2>9
<1>6. \A m \in Nat : m \in T
  <2> HIDE DEF Steps
  <2> QED BY <1>4, <1>5, Counting
<1>7. PICK f : Steps(n, f)
  <2>1. n \in T /\ n <= n
    BY <1>6
  <2> QED BY <1>3, <2>1
<1> DEFINE Flat(h) == h = [i \in 1..Len(s) |-> IF i = 1 THEN s[i] ELSE h[i - 1] \o s[i]]
<1>8. CASE n = 0
  <2>1. FlattenSeq(s) = s /\ s = <<>>
    BY <1>1, <1>8, EmptySeq DEF FlattenSeq
  <2> QED BY <1>1, <1>7, <1>8, <2>1
<1>9. CASE n # 0
  <2>1. PICK h : Flat(h) /\ FlattenSeq(s) = h[n]
    <3>1. PICK g : g = [i \in 1..n |-> f[i]]
      OBVIOUS
    <3>2. \A i \in 1..n : f[i] = IF i = 1 THEN s[i] ELSE g[i - 1] \o s[i]
      <4>1. ASSUME NEW i \in 1..n PROVE f[i] = IF i = 1 THEN s[i] ELSE g[i - 1] \o s[i]
        <5>1. CASE i = 1
          <6>1. i - 1 = 0
            BY <5>1
          <6>2. f[i] = f[i - 1] \o s[i] /\ f[0] = <<>> /\ s[i] \in Seq(S)
            BY <1>2, <1>7
          <6>3. f[i] = <<>> \o s[i]
            BY <6>1, <6>2
          <6> QED BY <5>1, <6>2, <6>3, ConcatEmptySeq
        <5>2. CASE i # 1
          <6>1. i - 1 \in 1..n
            BY <5>2
          <6> QED BY <1>7, <3>1, <5>2, <6>1
        <5> QED BY <5>1, <5>2
      <4> QED BY <4>1
    <3>3. Flat(g)
      BY <1>1, <3>1, <3>2
    <3>4. FlattenSeq(s) = (CHOOSE h : Flat(h))[n]
      BY <1>1, <1>9 DEF FlattenSeq
    <3> HIDE DEF Flat
    <3> QED BY <3>3, <3>4
  <2>2. PICK Z : Z = {m \in Nat : m + 1 \in 1..n => h[m + 1] = f[m + 1]}
    OBVIOUS
  <2>3. 0 \in Z
    <3>1. 1 \in 1..n /\ 0 + 1 = 1 /\ 1 - 1 = 0
      BY <1>9
    <3>2. h[1] = s[1]
      BY <1>1, <2>1, <3>1
    <3>3. f[1] = <<>> \o s[1]
      BY <1>7, <3>1
    <3>4. <<>> \o s[1] = s[1]
      BY <1>2, <3>1, ConcatEmptySeq
    <3> QED BY <2>2, <3>1, <3>2, <3>3, <3>4
  <2>4. ASSUME NEW m \in Nat, m \in Z PROVE m + 1 \in Z
    <3>1. SUFFICES ASSUME (m + 1) + 1 \in 1..n PROVE h[(m + 1) + 1] = f[(m + 1) + 1]
      BY <2>2
    <3>2. m + 1 \in 1..n /\ ((m + 1) + 1) - 1 = m + 1 /\ (m + 1) + 1 # 1
      BY <3>1
    <3>3. h[m + 1] = f[m + 1]
      BY <2>2, <2>4, <3>2
    <3>4. h[(m + 1) + 1] = h[m + 1] \o s[(m + 1) + 1]
      BY <1>1, <2>1, <3>1, <3>2
    <3>5. f[(m + 1) + 1] = f[m + 1] \o s[(m + 1) + 1]
      BY <1>7, <3>1, <3>2
    <3> QED BY <3>3, <3>4, <3>5
  <2>5. n - 1 \in Z
    <3>1. n - 1 \in Nat
      BY <1>9
    <3> HIDE DEF Flat, Steps
    <3> QED BY <2>3, <2>4, <3>1, Counting
  <2>6. h[n] = f[n]
    <3>1. (n - 1) + 1 = n /\ n \in 1..n
      BY <1>9
    <3> QED BY <2>2, <2>5, <3>1
  <2> QED BY <1>1, <1>7, <2>1, <2>6
<1> QED BY <1>8, <1>9

\* What is behind each other comes out behind each other.
LEMMA FlatConcat ==
  ASSUME NEW S, NEW s \in Seq(Seq(S)), NEW t \in Seq(Seq(S))
  PROVE  /\ FlattenSeq(s) \in Seq(S) /\ FlattenSeq(t) \in Seq(S)
         /\ FlattenSeq(s \o t) = FlattenSeq(s) \o FlattenSeq(t)
<1>1. PICK m \in Nat, n \in Nat : m = Len(s) /\ n = Len(t)
  BY LenProperties
<1>2. /\ s \o t \in Seq(Seq(S)) /\ Len(s \o t) = m + n
      /\ \A i \in 1..m + n : (s \o t)[i] = IF i <= m THEN s[i] ELSE t[i - m]
  BY <1>1, ConcatProperties
<1>3. PICK f : /\ \A i \in 0..m : f[i] \in Seq(S)
               /\ f[0] = <<>> /\ \A i \in 1..m : f[i] = f[i - 1] \o s[i]
               /\ FlattenSeq(s) = f[m]
  BY <1>1, FlatSteps
<1>4. PICK g : /\ \A i \in 0..n : g[i] \in Seq(S)
               /\ g[0] = <<>> /\ \A i \in 1..n : g[i] = g[i - 1] \o t[i]
               /\ FlattenSeq(t) = g[n]
  BY <1>1, FlatSteps
<1>5. PICK h : /\ \A i \in 0..m + n : h[i] \in Seq(S)
               /\ h[0] = <<>> /\ \A i \in 1..m + n : h[i] = h[i - 1] \o (s \o t)[i]
               /\ FlattenSeq(s \o t) = h[m + n]
  <2>1. \E h : /\ \A i \in 0..Len(s \o t) : h[i] \in Seq(S)
               /\ h[0] = <<>> /\ \A i \in 1..Len(s \o t) : h[i] = h[i - 1] \o (s \o t)[i]
               /\ FlattenSeq(s \o t) = h[Len(s \o t)]
    BY <1>2, FlatSteps
  <2> QED BY <1>2, <2>1
<1>6. h[m] = f[m]
  <2>1. PICK T : T = {i \in Nat : i <= m => h[i] = f[i]}
    OBVIOUS
  <2>2. 0 \in T
    BY <1>3, <1>5, <2>1
  <2>3. ASSUME NEW i \in Nat, i \in T PROVE i + 1 \in T
    <3>1. SUFFICES ASSUME i + 1 <= m PROVE h[i + 1] = f[i + 1]
      BY <2>1
    <3>2. i + 1 \in 1..m /\ i + 1 \in 1..m + n /\ (i + 1) - 1 = i /\ i <= m
      BY <3>1
    <3>3. h[i] = f[i] /\ (s \o t)[i + 1] = s[i + 1]
      BY <1>2, <2>1, <2>3, <3>1, <3>2
    <3>4. h[i + 1] = h[i] \o (s \o t)[i + 1]
      BY <1>5, <3>2
    <3>5. f[i + 1] = f[i] \o s[i + 1]
      BY <1>3, <3>2
    <3> QED BY <3>3, <3>4, <3>5
  <2>4. \A i \in Nat : i \in T
    BY <2>2, <2>3, Counting
  <2>5. m \in T /\ m <= m
    BY <2>4
  <2> QED BY <2>1, <2>5
<1>7. h[m + n] = f[m] \o g[n]
  <2>1. PICK T : T = {i \in Nat : i <= n => h[m + i] = f[m] \o g[i]}
    OBVIOUS
  <2>2. 0 \in T
    <3>1. m + 0 = m /\ m \in 0..m
      OBVIOUS
    <3>2. f[m] \o <<>> = f[m]
      BY <1>3, <3>1, ConcatEmptySeq
    <3> QED BY <1>4, <1>6, <2>1, <3>1, <3>2
  <2>3. ASSUME NEW i \in Nat, i \in T PROVE i + 1 \in T
    <3>1. SUFFICES ASSUME i + 1 <= n PROVE h[m + (i + 1)] = f[m] \o g[i + 1]
      <4>1. i + 1 \in Nat
        OBVIOUS
      <4> QED BY <2>1, <4>1, Zenon
    <3>2. /\ i + 1 \in 1..n /\ m + (i + 1) \in 1..m + n /\ (m + (i + 1)) - 1 = m + i /\ i <= n
          /\ ~(m + (i + 1) <= m) /\ (m + (i + 1)) - m = i + 1 /\ (i + 1) - 1 = i /\ i \in 0..n /\ m \in 0..m
      BY <3>1
    <3>3. h[m + i] = f[m] \o g[i]
      BY <2>1, <2>3, <3>2
    <3>4. (s \o t)[m + (i + 1)] = t[i + 1]
      BY <1>2, <3>2
    <3>5. h[m + (i + 1)] = h[m + i] \o (s \o t)[m + (i + 1)]
      BY <1>5, <3>2
    <3>6. g[i + 1] = g[i] \o t[i + 1]
      BY <1>4, <3>2
    <3>7. f[m] \in Seq(S) /\ g[i] \in Seq(S) /\ t[i + 1] \in Seq(S)
      BY <1>1, <1>3, <1>4, <3>2, ElementOfSeq
    <3>8. (f[m] \o g[i]) \o t[i + 1] = f[m] \o (g[i] \o t[i + 1])
      <4>1. PICK a \in Seq(S), b \in Seq(S), c \in Seq(S) : a = f[m] /\ b = g[i] /\ c = t[i + 1]
        BY <3>7
      <4>2. (a \o b) \o c = a \o (b \o c)
        BY ConcatAssociative, SMTT(20)
      <4> QED BY <4>1, <4>2
    <3>9. h[m + (i + 1)] = (f[m] \o g[i]) \o t[i + 1]
      BY <3>3, <3>4, <3>5
    <3>10. h[m + (i + 1)] = f[m] \o g[i + 1]
      BY <3>6, <3>8, <3>9, Zenon
    <3> QED BY <3>10
  <2>4. \A i \in Nat : i \in T
    BY <2>2, <2>3, Counting
  <2>5. n \in T /\ n <= n
    BY <2>4
  <2> QED BY <2>1, <2>5
<1>8. f[m] \in Seq(S) /\ g[n] \in Seq(S)
  <2>1. m \in 0..m /\ n \in 0..n
    OBVIOUS
  <2> QED BY <1>3, <1>4, <2>1
<1> QED BY <1>3, <1>4, <1>5, <1>7, <1>8

\* None, and one.
LEMMA FlatOne ==
  ASSUME NEW S, NEW x \in Seq(S)
  PROVE  FlattenSeq(<<>>) = <<>> /\ FlattenSeq(<<x>>) = x
<1>1. FlattenSeq(<<>>) = <<>>
  BY EmptySeq DEF FlattenSeq
<1>2. PICK s \in Seq(Seq(S)) : s = <<x>> /\ Len(s) = 1 /\ s[1] = x
  <2>1. <<x>> \in Seq(Seq(S)) /\ Len(<<x>>) = 1 /\ <<x>>[1] = x
    OBVIOUS
  <2> QED BY <2>1, Zenon
<1>3. PICK f : /\ f[0] = <<>> /\ \A i \in 1..1 : f[i] = f[i - 1] \o s[i]
               /\ FlattenSeq(s) = f[1]
  BY <1>2, FlatSteps
<1>4. f[1] = <<>> \o x
  <2>1. 1 \in 1..1 /\ 1 - 1 = 0
    OBVIOUS
  <2> QED BY <1>2, <1>3, <2>1
<1>5. <<>> \o x = x
  BY ConcatEmptySeq
<1> QED BY <1>1, <1>2, <1>3, <1>4, <1>5
-----------------------------------------------------------------------------
(* Tokens *)

\* What is between two characters of a line.
Scanners(S) ==
  [tokens : Seq(Seq(S)), current : Seq(S), quote : {"", "\"", "'"}, escaped : BOOLEAN]

\* The scanner's states one after the other: each from the one before.
LEMMA ScannedSteps ==
  ASSUME NEW S, NEW line \in Seq(S)
  PROVE  Scanned(line) =
           [n \in 0..Len(line) |->
              IF n = 0 THEN ScanStart ELSE Scan(Scanned(line)[n - 1], line[n])]
<1>1. Len(line) \in Nat
  BY LenProperties
<1> DEFINE Until(m, f) ==
             f = [n \in 0..m |-> IF n = 0 THEN ScanStart ELSE Scan(f[n - 1], line[n])]
<1>2. PICK T : T = {m \in Nat : \E f : Until(m, f)}
  OBVIOUS
<1>3. 0 \in T
  <2>1. PICK f : f = [n \in 0..0 |-> ScanStart]
    OBVIOUS
  <2>2. Until(0, f)
    BY <2>1
  <2> QED BY <1>2, <2>2
<1>4. ASSUME NEW m \in Nat, m \in T PROVE m + 1 \in T
  <2>1. PICK f : Until(m, f)
    BY <1>2, <1>4
  <2>2. PICK last : last = Scan(f[m], line[m + 1])
    OBVIOUS
  <2>3. PICK g : g = [n \in 0..m + 1 |-> IF n = m + 1 THEN last ELSE f[n]]
    OBVIOUS
  <2>4. \A n \in 0..m + 1 : g[n] = IF n = 0 THEN ScanStart ELSE Scan(g[n - 1], line[n])
    <3>1. ASSUME NEW n \in 0..m + 1
          PROVE  g[n] = IF n = 0 THEN ScanStart ELSE Scan(g[n - 1], line[n])
      <4>1. CASE n = 0
        BY <2>1, <2>3, <4>1
      <4>2. CASE n = m + 1
        <5>1. n - 1 \in 0..m + 1 /\ n - 1 # m + 1 /\ n - 1 = m /\ n # 0
          BY <4>2
        <5> QED BY <2>2, <2>3, <4>2, <5>1
      <4>3. CASE n \in 1..m
        <5>1. n - 1 \in 0..m + 1 /\ n - 1 # m + 1 /\ n \in 0..m /\ n # m + 1 /\ n # 0
          BY <4>3
        <5>2. g[n - 1] = f[n - 1] /\ g[n] = f[n]
          BY <2>3, <5>1
        <5> QED BY <2>1, <5>1, <5>2
      <4> QED BY <4>1, <4>2, <4>3
    <3> QED BY <3>1
  <2>5. Until(m + 1, g)
    BY <2>3, <2>4
  <2>6. \E h : Until(m + 1, h)
    BY <2>5
  <2>7. m + 1 \in Nat
    OBVIOUS
  <2> HIDE DEF Until
  <2> QED BY <1>2, <2>6, <2>7
<1>5. Len(line) \in T
  BY <1>1, <1>3, <1>4, Counting
<1>6. \E f : Until(Len(line), f)
  BY <1>2, <1>5
<1> QED BY <1>6 DEF Scanned

\* One character more.
LEMMA ScanTypes ==
  ASSUME NEW S, NEW s \in Scanners(S), NEW c \in S
  PROVE  Scan(s, c) \in Scanners(S)
<1>1. Kept(s, c) \in Scanners(S)
  <2>1. Append(s.current, c) \in Seq(S)
    BY AppendProperties DEF Scanners
  <2> QED BY <2>1 DEF Kept, Scanners
<1>2. Ended(s) \in Scanners(S)
  <2>1. Append(s.tokens, s.current) \in Seq(Seq(S)) /\ <<>> \in Seq(S)
    BY AppendProperties, EmptySeq DEF Scanners
  <2> QED BY <2>1 DEF Ended, Scanners
<1>3. /\ [s EXCEPT !.escaped = TRUE] \in Scanners(S)
      /\ \A q \in {"", "\"", "'"} : [s EXCEPT !.quote = q] \in Scanners(S)
  BY DEF Scanners
<1>4. \/ Scan(s, c) \in {Kept(s, c), Ended(s), [s EXCEPT !.escaped = TRUE]}
      \/ \E q \in {"", "\"", "'"} : Scan(s, c) = [s EXCEPT !.quote = q]
  <2>1. c \in {"\"", "'"} =>
          \E q \in {"", "\"", "'"} : [s EXCEPT !.quote = IF @ = c THEN "" ELSE c] = [s EXCEPT !.quote = q]
    <3>1. PICK q : q = IF s.quote = c THEN "" ELSE c
      OBVIOUS
    <3>2. c \in {"\"", "'"} => q \in {"", "\"", "'"}
      BY <3>1
    <3>3. [s EXCEPT !.quote = IF @ = c THEN "" ELSE c] = [s EXCEPT !.quote = q]
      BY <3>1
    <3> QED BY <3>2, <3>3
  <2> QED BY <2>1 DEF Scan
<1> QED BY <1>1, <1>2, <1>3, <1>4

\* The scanner is in one of its states after each character.
LEMMA ScannedTypes ==
  ASSUME NEW S, NEW line \in Seq(S)
  PROVE  \A n \in 0..Len(line) : Scanned(line)[n] \in Scanners(S)
<1>1. Len(line) \in Nat
  BY LenProperties
<1>2. PICK f : f = Scanned(line)
  OBVIOUS
<1>3. f = [n \in 0..Len(line) |-> IF n = 0 THEN ScanStart ELSE Scan(f[n - 1], line[n])]
  BY <1>2, ScannedSteps
<1>4. PICK T : T = {n \in Nat : n <= Len(line) => f[n] \in Scanners(S)}
  OBVIOUS
<1>5. 0 \in T
  <2>1. f[0] = ScanStart
    BY <1>1, <1>3
  <2>2. <<>> \in Seq(S) /\ <<>> \in Seq(Seq(S))
    BY EmptySeq
  <2>3. ScanStart \in Scanners(S)
    BY <2>2 DEF ScanStart, Scanners
  <2> QED BY <1>4, <2>1, <2>3
<1>6. ASSUME NEW n \in Nat, n \in T PROVE n + 1 \in T
  <2>1. SUFFICES ASSUME n + 1 <= Len(line) PROVE f[n + 1] \in Scanners(S)
    BY <1>4
  <2>2. n + 1 \in 0..Len(line) /\ n + 1 # 0 /\ (n + 1) - 1 = n /\ n <= Len(line) /\ n + 1 \in 1..Len(line)
    BY <1>1, <2>1
  <2>3. f[n + 1] = Scan(f[n], line[n + 1])
    BY <1>3, <2>2
  <2>4. f[n] \in Scanners(S) /\ line[n + 1] \in S
    BY <1>4, <1>6, <2>2, ElementOfSeq
  <2> QED BY <2>3, <2>4, ScanTypes
<1>7. \A n \in Nat : n \in T
  BY <1>5, <1>6, Counting
<1> QED BY <1>1, <1>2, <1>4, <1>7

\* Tokens are made of the letters of the line.
LEMMA TokensTypes ==
  ASSUME NEW S, NEW line \in Seq(S)
  PROVE  tokenize(line) \in Seq(Seq(S))
<1>1. PICK s : s = Scanned(line)[Len(line)]
  OBVIOUS
<1>2. s \in Scanners(S)
  BY <1>1, ScannedTypes, LenProperties
<1>3. Append(s.tokens, s.current) \in Seq(Seq(S))
  BY <1>2, AppendProperties DEF Scanners
<1> QED BY <1>1, <1>2, <1>3 DEF tokenize, Ended, Scanners
\* How far down the tree the tokens lead: every step is a node.
LEMMA ConsumedNodes ==
  ASSUME NEW m, NEW S, NEW tokens \in Seq(S)
  PROVE  /\ Consumed(m, tokens) \in 0..Len(tokens)
         /\ \A k \in 1..Consumed(m, tokens) : m \o SubSeq(tokens, 1, k) \in Nodes
<1>1. PICK T : T = {n \in 0..Len(tokens) : \A k \in 1..n : m \o SubSeq(tokens, 1, k) \in Nodes}
  OBVIOUS
<1>2. Len(tokens) \in Nat
  BY LenProperties
<1>3. T \subseteq Nat /\ 0 \in T /\ \A n \in T : n <= Len(tokens)
  BY <1>1, <1>2
<1>4. Max(T) \in T
  BY <1>2, <1>3, EndsOf
<1>5. Consumed(m, tokens) = Max(T)
  BY <1>1 DEF Consumed
<1> QED BY <1>1, <1>4, <1>5

\* A line leads to a menu, to a command, or nowhere.
LEMMA DispatchPlaces ==
  ASSUME NEW m \in Menus, NEW S, NEW line \in Seq(S), NEW d, d = dispatch(m, line)
  PROVE  /\ d.result = "Executed" => d.node \in Leaves
         /\ d.result \in {"NavigatedMenu", "NavigatedUp"} => d.node \in Menus
<1>1. PICK tokens : tokens = tokenize(line)
  OBVIOUS
<1>2. PICK n : n = Consumed(m, tokens)
  OBVIOUS
<1>3. PICK node : node = m \o SubSeq(tokens, 1, n)
  OBVIOUS
<1>4. tokens \in Seq(Seq(S))
  BY <1>1, TokensTypes
<1>5. n \in 0..Len(tokens) /\ (n > 0 => node \in Nodes)
  BY <1>2, <1>3, <1>4, ConsumedNodes, LenProperties
<1>6. navigateUp(m) \in Menus
  BY TreeAssumption DEF navigateUp, Nodes
<1>7. \/ d = Outcome("Executed", node, SubSeq(tokens, n + 1, Len(tokens))) /\ node \in Leaves
      \/ d = Outcome("NavigatedMenu", node, <<>>) /\ n > 0 /\ node \notin Leaves
      \/ d = Outcome("NavigatedUp", navigateUp(m), <<>>)
      \/ \E w : \E r \in {"Empty", "Exit", "NotFound"} : d = Outcome(r, w, <<>>)
  BY <1>1, <1>2, <1>3 DEF dispatch
<1> QED BY <1>5, <1>6, <1>7 DEF Outcome, Nodes
-----------------------------------------------------------------------------
(* Texts *)

\* QString::insert: what is before the place stays, the rest moves by one.
LEMMA InsertedText ==
  ASSUME NEW S, NEW b \in Seq(S), NEW c \in S, NEW i \in 0..Len(b)
  PROVE  /\ InsertAt(b, i + 1, c) \in Seq(S)
         /\ Len(InsertAt(b, i + 1, c)) = Len(b) + 1
         /\ \A j \in 1..Len(b) + 1 :
              InsertAt(b, i + 1, c)[j] = IF j <= i THEN b[j] ELSE IF j = i + 1 THEN c ELSE b[j - 1]
<1>1. Len(b) \in Nat /\ i \in Nat /\ \A j \in 1..Len(b) : b[j] \in S
  BY LenProperties, ElementOfSeq
<1>2. PICK p, q : p = SubSeq(b, 1, i) /\ q = SubSeq(b, i + 1, Len(b))
  OBVIOUS
<1>3. p \in Seq(S) /\ Len(p) = i /\ \A j \in 1..i : p[j] = b[j]
  <2>1. \A j \in 1..i : b[j] \in S
    BY <1>1
  <2> QED BY <1>1, <1>2, <2>1, SubSeqProperties
<1>4. q \in Seq(S) /\ Len(q) = Len(b) - i /\ \A j \in 1..Len(b) - i : q[j] = b[i + j]
  <2>1. \A j \in i + 1..Len(b) : b[j] \in S
    BY <1>1
  <2> QED BY <1>1, <1>2, <2>1, SubSeqProperties
<1>5. PICK m : m = p \o <<c>>
  OBVIOUS
<1>6. <<c>> \in Seq(S) /\ Len(<<c>>) = 1 /\ <<c>>[1] = c
  OBVIOUS
<1>7. m \in Seq(S) /\ Len(m) = i + 1 /\ \A j \in 1..i + 1 : m[j] = IF j <= i THEN p[j] ELSE c
  BY <1>1, <1>3, <1>5, <1>6, ConcatProperties
<1>8. /\ m \o q \in Seq(S) /\ Len(m \o q) = Len(b) + 1
      /\ \A j \in 1..Len(b) + 1 : (m \o q)[j] = IF j <= i + 1 THEN m[j] ELSE q[j - (i + 1)]
  BY <1>1, <1>4, <1>7, ConcatProperties
<1>9. InsertAt(b, i + 1, c) = m \o q
  <2>1. (i + 1) - 1 = i
    BY <1>1
  <2> QED BY <1>2, <1>5, <2>1 DEF InsertAt
<1>10. ASSUME NEW j \in 1..Len(b) + 1
       PROVE  (m \o q)[j] = IF j <= i THEN b[j] ELSE IF j = i + 1 THEN c ELSE b[j - 1]
  <2>1. CASE j <= i + 1
    BY <1>1, <1>3, <1>7, <1>8, <2>1
  <2>2. CASE j > i + 1
    <3>1. j - (i + 1) \in 1..Len(b) - i /\ i + (j - (i + 1)) = j - 1
      BY <1>1, <2>2
    <3> QED BY <1>1, <1>4, <1>8, <2>2, <3>1
  <2>3. j <= i + 1 \/ j > i + 1
    BY <1>1
  <2> QED BY <2>1, <2>2, <2>3
<1>11. \A j \in 1..Len(b) + 1 :
         (m \o q)[j] = IF j <= i THEN b[j] ELSE IF j = i + 1 THEN c ELSE b[j - 1]
  BY <1>10
<1>12. InsertAt(b, i + 1, c) \in Seq(S) /\ Len(InsertAt(b, i + 1, c)) = Len(b) + 1
  BY <1>8, <1>9
<1>13. \A j \in 1..Len(b) + 1 :
         InsertAt(b, i + 1, c)[j] = IF j <= i THEN b[j] ELSE IF j = i + 1 THEN c ELSE b[j - 1]
  BY <1>9, <1>11
<1> QED BY <1>12, <1>13

\* QString::remove: what follows moves by one.
LEMMA RemovedText ==
  ASSUME NEW S, NEW b \in Seq(S), NEW i \in 1..Len(b)
  PROVE  /\ RemoveAt(b, i) \in Seq(S)
         /\ Len(RemoveAt(b, i)) = Len(b) - 1
         /\ \A j \in 1..Len(b) - 1 : RemoveAt(b, i)[j] = IF j < i THEN b[j] ELSE b[j + 1]
<1>1. Len(b) \in Nat /\ i \in Nat /\ i >= 1 /\ \A j \in 1..Len(b) : b[j] \in S
  BY LenProperties, ElementOfSeq
<1>2. PICK p, q : p = SubSeq(b, 1, i - 1) /\ q = SubSeq(b, i + 1, Len(b))
  OBVIOUS
<1>3. p \in Seq(S) /\ Len(p) = i - 1 /\ \A j \in 1..i - 1 : p[j] = b[j]
  <2>1. \A j \in 1..i - 1 : b[j] \in S
    BY <1>1
  <2> QED BY <1>1, <1>2, <2>1, SubSeqProperties
<1>4. q \in Seq(S) /\ Len(q) = Len(b) - i /\ \A j \in 1..Len(b) - i : q[j] = b[i + j]
  <2>1. \A j \in i + 1..Len(b) : b[j] \in S
    BY <1>1
  <2> QED BY <1>1, <1>2, <2>1, SubSeqProperties
<1>5. /\ p \o q \in Seq(S) /\ Len(p \o q) = Len(b) - 1
      /\ \A j \in 1..Len(b) - 1 : (p \o q)[j] = IF j <= i - 1 THEN p[j] ELSE q[j - (i - 1)]
  BY <1>1, <1>3, <1>4, ConcatProperties, SMTT(20)
<1>6. RemoveAt(b, i) = p \o q
  BY <1>2 DEF RemoveAt
<1>7. ASSUME NEW j \in 1..Len(b) - 1 PROVE (p \o q)[j] = IF j < i THEN b[j] ELSE b[j + 1]
  <2>1. CASE j < i
    BY <1>1, <1>3, <1>5, <2>1
  <2>2. CASE j >= i
    <3>1. j - (i - 1) \in 1..Len(b) - i /\ i + (j - (i - 1)) = j + 1
      BY <1>1, <2>2
    <3> QED BY <1>1, <1>4, <1>5, <2>2, <3>1
  <2>3. j < i \/ j >= i
    BY <1>1
  <2> QED BY <2>1, <2>2, <2>3
<1> QED BY <1>5, <1>6, <1>7

\* QString::trimmed leaves letters of the text.
LEMMA TrimmedText ==
  ASSUME NEW S, NEW s \in Seq(S)
  PROVE  Trimmed(s) \in Seq(S)
<1>1. PICK n \in Nat : n = Len(s) /\ DOMAIN s = 1..n /\ \A j \in 1..n : s[j] \in S
  BY LenProperties, ElementOfSeq
<1>2. PICK solid : solid = {i \in DOMAIN s : s[i] # " "}
  OBVIOUS
<1>3. CASE solid = {}
  <2>1. Trimmed(s) = <<>>
    BY <1>2, <1>3 DEF Trimmed
  <2> QED BY <2>1, EmptySeq
<1>4. CASE solid # {}
  <2>1. solid \subseteq Nat /\ \A i \in solid : i <= n
    <3>1. solid \subseteq 1..n
      BY <1>1, <1>2
    <3> QED BY <3>1
  <2>2. PICK lo \in solid, hi \in solid : lo = Min(solid) /\ hi = Max(solid)
    BY <1>4, <2>1, EndsOf
  <2>3. \A j \in lo..hi : s[j] \in S
    <3>1. lo \in 1..n /\ hi \in 1..n
      BY <1>1, <1>2
    <3>2. \A j \in lo..hi : j \in 1..n
      BY <3>1
    <3> QED BY <1>1, <3>2
  <2>4. lo \in Int /\ hi \in Int
    BY <2>1
  <2>5. SubSeq(s, lo, hi) \in Seq(S)
    BY <2>3, <2>4, SubSeqProperties
  <2>6. Trimmed(s) = SubSeq(s, lo, hi)
    BY <1>2, <1>4, <2>2 DEF Trimmed
  <2> QED BY <2>5, <2>6
<1> QED BY <1>3, <1>4

\* A line of the history is one that was sent; it grows at its end, and its
\* oldest line goes when it is full.
LEMMA HistoryText ==
  ASSUME NEW S, NEW line \in Seq(S), history \in Seq(Seq(S))
  PROVE  addToHistory(line) \in Seq(Seq(S))
<1>1. PICK h : h = IF history # <<>> /\ Last(history) = line THEN history ELSE Append(history, line)
  OBVIOUS
<1>2. h \in Seq(Seq(S))
  BY <1>1, AppendProperties
<1>3. PICK n \in Nat : n = Len(h)
  BY <1>2, LenProperties
<1>4. MaxHistory \in Nat
  BY InputAssumption
<1>5. PICK from : from = 1 + (IF n > MaxHistory THEN n - MaxHistory ELSE 0)
  OBVIOUS
<1>6. from \in Nat \ {0}
  BY <1>4, <1>5
<1>7. \A j \in from..n : h[j] \in Seq(S)
  <2>1. \A j \in from..n : j \in 1..n
    BY <1>6
  <2> QED BY <1>2, <1>3, <2>1, ElementOfSeq
<1>8. SubSeq(h, from, n) \in Seq(Seq(S))
  BY <1>6, <1>7, SubSeqProperties
<1> QED BY <1>1, <1>3, <1>5, <1>8 DEF addToHistory
\* The longest common prefix of some texts is made of their letters.
LEMMA LongestText ==
  ASSUME NEW S, NEW M, M \subseteq Seq(S), M # {}
  PROVE  LongestCommonPrefix(M) \in Seq(S)
<1>1. PICK c : c \in M
  OBVIOUS
<1>2. PICK C : C = CommonPrefixes(M)
  OBVIOUS
<1>3. \A t \in M : t \in Seq(S) /\ Len(t) \in Nat
  BY LenProperties
<1>4. ASSUME NEW x \in C PROVE x \in Seq(S) /\ Len(x) \in Nat /\ Len(x) <= Len(c)
  <2>1. PICK t \in M : x \in Prefixes(t)
    BY <1>2, <1>4 DEF CommonPrefixes
  <2>2. PICK l \in 0..Len(t) : x = SubSeq(t, 1, l)
    BY <2>1 DEF Prefixes
  <2>3. \A j \in 1..l : t[j] \in S
    <3>1. \A j \in 1..l : j \in 1..Len(t)
      BY <1>3
    <3> QED BY <1>3, <3>1, ElementOfSeq
  <2>4. l \in Int
    BY <1>3
  <2>5. x \in Seq(S)
    BY <2>2, <2>3, <2>4, SubSeqProperties
  <2>6. IsPrefix(x, c)
    BY <1>1, <1>2, <1>4 DEF CommonPrefixes
  <2> QED BY <2>5, <2>6, LenProperties DEF IsPrefix
<1>5. <<>> \in C
  <2>1. \A t : SubSeq(t, 1, 0) = <<>>
    BY SubSeqEmpty
  <2>2. <<>> \in Prefixes(c)
    <3>1. 0 \in 0..Len(c)
      BY <1>1, <1>3
    <3> QED BY <2>1, <3>1 DEF Prefixes
  <2>3. Len(<<>>) = 0
    BY EmptySeq
  <2>4. \A t \in M : IsPrefix(<<>>, t)
    BY <1>3, <2>1, <2>3 DEF IsPrefix
  <2> QED BY <1>1, <1>2, <2>2, <2>4 DEF CommonPrefixes
<1>6. PICK T : T = {Len(x) : x \in C}
  OBVIOUS
<1>7. PICK n \in T : \A m \in T : m <= n
  <2>1. T \subseteq Nat /\ T # {} /\ \A m \in T : m <= Len(c)
    BY <1>4, <1>5, <1>6
  <2> QED BY <1>1, <1>3, <2>1, Greatest
<1>8. \E longest \in C : \A other \in C : Len(other) <= Len(longest)
  BY <1>6, <1>7
<1>9. LongestCommonPrefix(M) \in C
  BY <1>2, <1>8 DEF LongestCommonPrefix
<1> QED BY <1>4, <1>9
Places == Editing \cup {"prompt", "core", "stop", "ended", "leaves", "gone"}

\* Who has the terminal: the spinner turns around a call of Core, and what is
\* left of it at the end is stopped before ConsoleUI is gone.
TerminalOK ==
  /\ at \in Places
  /\ spinner \in [running : BOOLEAN, hidden : BOOLEAN, thread : {"none", "loop", "draws"}]
  /\ at \in Editing \cup {"prompt"} => spinner = Idle
  /\ at = "core" => spinner.running
  /\ at = "stop" => ~spinner.running
  /\ at = "ended" => spinner.running \/ spinner = Idle
  /\ at \in {"leaves", "gone"} => ~spinner.running
  /\ at = "gone" => ~spinner.hidden /\ spinner.thread = "none"
  /\ at \in {"leaves", "gone"} => ~raw

\* The history is a sequence; where the person is in it; what was typed is
\* kept there, and is what is edited outside it.
IsSeq(h) == \E S : h \in Seq(S)
DraftOK ==
  /\ IsSeq(history)
  /\ DOMAIN edit = {"buffer", "cursor", "idx", "saved"} /\ edit.idx \in Nat
  /\ edit.idx = 0 => draft = edit.buffer
  /\ edit.idx > 0 => at = "line" /\ edit.saved = draft

\* The step of DraftComesBack.
Comes == edit.idx > 0 /\ edit'.idx = 0 /\ at' = at => edit'.buffer = draft

-----------------------------------------------------------------------------
\* The editor begins with an empty history, and without a spinner.
LEMMA InitInv == Init => TerminalOK /\ DraftOK
<1> SUFFICES ASSUME Init PROVE TerminalOK /\ DraftOK
  OBVIOUS
<1>1. TerminalOK
  BY DEF Init, TerminalOK, Places, Editing, Idle
<1>2. history \in Seq({})
  BY EmptySeq DEF Init
<1>3. DraftOK
  BY <1>2 DEF Init, DraftOK, IsSeq, Empty
<1> QED BY <1>1, <1>3

\* Steps that leave the edited text alone.
LEMMA SameDraft ==
  ASSUME DraftOK, UNCHANGED <<edit, draft, history>>, edit.idx > 0 => at' = at
  PROVE  DraftOK' /\ Comes
BY DEF DraftOK, Comes, IsSeq

\* Steps that begin a text anew, somewhere else.
LEMMA NewDraft ==
  ASSUME DraftOK, edit' = Empty, draft' = <<>>, IsSeq(history'), at # at' \/ at # "line"
  PROVE  DraftOK' /\ Comes
BY DEF DraftOK, Comes, Empty

\* Keys that edit the text, in the history or not.
LEMMA EditsDraft ==
  ASSUME DraftOK, NEW e, Edits(e), DOMAIN e = DOMAIN edit, e.idx = edit.idx, e.saved = edit.saved,
         UNCHANGED <<at, history>>
  PROVE  DraftOK' /\ Comes
<1>1. edit' = e /\ draft' = IF e.idx = 0 THEN e.buffer ELSE draft
  BY DEF Edits
<1> QED BY <1>1 DEF DraftOK, Comes, IsSeq

\* Who has the terminal does not change with the text.
LEMMA SameTerminal ==
  ASSUME TerminalOK, UNCHANGED <<at, spinner, raw>> PROVE TerminalOK'
BY DEF TerminalOK

\* addToHistory() leaves a sequence.
LEMMA HistoryIsSeq ==
  ASSUME IsSeq(history), NEW line PROVE IsSeq(addToHistory(line))
<1>1. PICK S : history \in Seq(S)
  BY DEF IsSeq
<1>2. PICK h : h = IF history # <<>> /\ Last(history) = line THEN history ELSE Append(history, line)
  OBVIOUS
<1>3. h \in Seq(S \cup {line})
  BY <1>1, <1>2
<1>4. Len(h) \in Nat /\ MaxHistory \in Nat
  BY <1>3, LenProperties, InputAssumption
<1>5. PICK from \in Nat \ {0} : from = 1 + (IF Len(h) > MaxHistory THEN Len(h) - MaxHistory ELSE 0)
  BY <1>4, SMTT(20)
<1>6. from \in 1..Len(h) + 1
  BY <1>4, <1>5, SMT
<1>7. SubSeq(h, from, Len(h)) \in Seq(S \cup {line})
  BY <1>3, <1>4, <1>6, SubSeqProperties, SMT
<1> QED BY <1>2, <1>5, <1>7 DEF addToHistory, IsSeq

-----------------------------------------------------------------------------
(* What the steps are made of *)

\* The end of a command, and its next prompt or its call of Core.
LEMMA ReturnedOK ==
  ASSUME TerminalOK, DraftOK, NEW s, Returned(s), at \in Editing, IsSeq(history')
  PROVE  TerminalOK' /\ DraftOK' /\ Comes
<1>1. TerminalOK'
  BY DEF TerminalOK, Returned, Places, Editing
<1>2. DraftOK' /\ Comes
  BY NewDraft DEF Returned, Editing
<1> QED BY <1>1, <1>2

\* The next prompt of a command, or its call of Core.
LEMMA GoesOnOK ==
  ASSUME TerminalOK, DraftOK, NEW j, NEW s, GoesOn(j, s), at \in Editing, IsSeq(history')
  PROVE  TerminalOK' /\ DraftOK' /\ Comes
<1>1. at' \in {"password", "text", "core"} /\ edit' = Empty /\ draft' = <<>>
  BY DEF GoesOn
<1>2. DraftOK' /\ Comes
  BY <1>1, NewDraft
<1>3. CASE j.asks # <<>>
  <2>1. at' \in {"password", "text"} /\ spinner' = spinner
    BY <1>3 DEF GoesOn
  <2> QED BY <2>1, <1>2 DEF TerminalOK, Places, Editing
<1>4. CASE j.asks = <<>>
  <2>1. at' = "core" /\ spinner' = [running |-> TRUE, hidden |-> TRUE, thread |-> "loop"]
    BY <1>4 DEF GoesOn
  <2> QED BY <2>1, <1>2 DEF TerminalOK, Places, Editing
<1> QED BY <1>3, <1>4

\* A line sent: a command, a menu, or the end.
LEMMA SubmitsOK ==
  ASSUME TerminalOK, DraftOK, NEW line, NEW s, Submits(line, s), at = "line"
  PROVE  TerminalOK' /\ DraftOK' /\ Comes
<1>1. IsSeq(history')
  <2>1. history' = history \/ history' = addToHistory(line)
    BY DEF Submits
  <2> QED BY <2>1, HistoryIsSeq DEF DraftOK
<1>2. CASE Returned(s)
  BY <1>1, <1>2, ReturnedOK DEF Editing
<1>3. CASE Dispatch(line, s)
  <2>1. PICK d : d = dispatch(menu, line)
    OBVIOUS
  <2>2. CASE Execute(line, d, s)
    <3>1. Returned(s) \/ \E j : GoesOn(j, s)
      BY <2>2 DEF Execute
    <3> QED BY <1>1, <3>1, ReturnedOK, GoesOnOK DEF Editing
  <2>3. CASE Returned(s)
    BY <1>2, <2>3
  <2>4. CASE /\ d.result = "Exit" /\ at' = "ended" /\ raw' = (d.result # "Exit")
             /\ edit' = Empty /\ draft' = <<>> /\ UNCHANGED <<job, spinner>>
    <3>1. DraftOK' /\ Comes
      BY <1>1, <2>4, NewDraft
    <3>2. TerminalOK'
      BY <2>4 DEF TerminalOK, Places, Editing
    <3> QED BY <3>1, <3>2
  <2> QED BY <1>3, <2>1, <2>2, <2>3, <2>4 DEF Dispatch
<1> QED BY <1>2, <1>3 DEF Submits

\* A key that edits the text.
LEMMA EditsOK ==
  ASSUME TerminalOK, DraftOK, Stays, NEW e, Edits(e), DOMAIN e = DOMAIN edit,
         e.idx = edit.idx, e.saved = edit.saved
  PROVE  TerminalOK' /\ DraftOK' /\ Comes
BY SameTerminal, EditsDraft DEF Stays

\* The text taken apart: only buffer and cursor change.
LEMMA SameFields ==
  ASSUME DraftOK, NEW b, NEW c, NEW e \in {[edit EXCEPT !.buffer = b, !.cursor = c],
                                  [edit EXCEPT !.buffer = b], [edit EXCEPT !.cursor = c], edit}
  PROVE  DOMAIN e = DOMAIN edit /\ e.idx = edit.idx /\ e.saved = edit.saved
BY DEF DraftOK

-----------------------------------------------------------------------------
(* One lemma per part of Next *)

\* Nothing but the keyboard, the screen and the log queue.
LEMMA KeyboardOK ==
  ASSUME TerminalOK, DraftOK, UNCHANGED <<at, edit, draft, history, spinner, raw>>
  PROVE  TerminalOK' /\ DraftOK' /\ Comes
BY SameTerminal, SameDraft

\* Keys pressed, read and dropped, and log lines.
LEMMA KeysArriveOK ==
  ASSUME TerminalOK, DraftOK, Press \/ Paste \/ ReadByte \/ TimeOut \/ Ignore \/ enqueueLog \/ output
  PROVE  TerminalOK' /\ DraftOK' /\ Comes
<1>1. UNCHANGED <<at, edit, draft, history, spinner, raw>>
  <2>1. CASE Press
    BY <2>1 DEF Press, Sends
  <2>2. CASE Paste
    BY <2>2 DEF Paste, Sends
  <2>3. CASE ReadByte
    BY <2>3 DEF ReadByte
  <2>4. CASE TimeOut
    BY <2>4 DEF TimeOut
  <2>5. CASE Ignore
    BY <2>5 DEF Ignore, Stays
  <2>6. CASE enqueueLog \/ output
    BY <2>6 DEF enqueueLog, output
  <2> QED BY <2>1, <2>2, <2>3, <2>4, <2>5, <2>6
<1> QED BY <1>1, KeyboardOK

\* Keys that change the text or the place in it.
LEMMA TextKeysOK ==
  ASSUME TerminalOK, DraftOK, Insert \/ Backspace \/ Delete \/ Move
  PROVE  TerminalOK' /\ DraftOK' /\ Comes
<1>1. CASE Insert
  <2>1. PICK e : e = Inserted(edit, event.ch)
    OBVIOUS
  <2>2. Stays /\ Edits(e)
    BY <1>1, <2>1 DEF Insert, Redraws
  <2>3. PICK b, c : e = [edit EXCEPT !.buffer = b, !.cursor = c]
    BY <2>1 DEF Inserted
  <2>4. DOMAIN e = DOMAIN edit /\ e.idx = edit.idx /\ e.saved = edit.saved
    BY <2>3, SameFields
  <2> QED BY <2>2, <2>4, EditsOK
<1>2. CASE Backspace
  <2>1. PICK e : e = [Removed(edit, edit.cursor) EXCEPT !.cursor = @ - 1]
    OBVIOUS
  <2>2. Stays /\ Edits(e)
    BY <1>2, <2>1 DEF Backspace, Redraws
  <2>3. PICK b, c : e = [edit EXCEPT !.buffer = b, !.cursor = c]
    BY <2>1 DEF Removed
  <2>4. DOMAIN e = DOMAIN edit /\ e.idx = edit.idx /\ e.saved = edit.saved
    BY <2>3, SameFields
  <2> QED BY <2>2, <2>4, EditsOK
<1>3. CASE Delete
  <2>1. PICK e : e = Removed(edit, edit.cursor + 1)
    OBVIOUS
  <2>2. Stays /\ Edits(e)
    BY <1>3, <2>1 DEF Delete, Redraws
  <2>3. PICK b : e = [edit EXCEPT !.buffer = b]
    BY <2>1 DEF Removed
  <2>4. DOMAIN e = DOMAIN edit /\ e.idx = edit.idx /\ e.saved = edit.saved
    BY <2>3, SameFields
  <2> QED BY <2>2, <2>4, EditsOK
<1>4. CASE Move
  <2>1. Stays /\ \E to : Edits([edit EXCEPT !.cursor = to])
    BY <1>4 DEF Move, Moves
  <2> QED BY <2>1, SameFields, EditsOK
<1> QED BY <1>1, <1>2, <1>3, <1>4

\* Tab changes the text and the cursor only.
LEMMA CompleteOK ==
  ASSUME TerminalOK, DraftOK, Complete
  PROVE  TerminalOK' /\ DraftOK' /\ Comes
<1>1. Stays /\ Edits(handleTab(edit))
  BY DEF Complete, Redraws
<1>2. handleTab(edit) = edit \/ \E b : handleTab(edit) = Whole(edit, b)
  BY DEF handleTab
<1>3. handleTab(edit) = edit \/ \E b, c : handleTab(edit) = [edit EXCEPT !.buffer = b, !.cursor = c]
  BY <1>2 DEF Whole
<1>4. PICK e : e = handleTab(edit)
  OBVIOUS
<1>5. DOMAIN e = DOMAIN edit /\ e.idx = edit.idx /\ e.saved = edit.saved
  <2>1. CASE e = edit
    BY <2>1
  <2>2. CASE \E b, c : e = [edit EXCEPT !.buffer = b, !.cursor = c]
    BY <2>2, SameFields
  <2> QED BY <1>3, <1>4, <2>1, <2>2
<1> QED BY <1>1, <1>4, <1>5, EditsOK

\* Into the history: what is typed is saved the first time only.
LEMMA OlderOK ==
  ASSUME TerminalOK, DraftOK, Older
  PROVE  TerminalOK' /\ DraftOK' /\ Comes
<1>1. Stays /\ at = "line" /\ history # <<>>
  BY DEF Older
<1>2. PICK i : i = IF edit.idx = 0 THEN Len(history) ELSE IF edit.idx > 1 THEN edit.idx - 1 ELSE 1
  OBVIOUS
<1>3. PICK kept : kept = IF edit.idx = 0 THEN edit.buffer ELSE edit.saved
  OBVIOUS
<1>4. PICK e : e = Whole([edit EXCEPT !.idx = i, !.saved = kept], history[i])
  OBVIOUS
<1>5. edit' = e /\ draft' = IF e.idx = 0 THEN e.buffer ELSE draft
  BY <1>2, <1>3, <1>4 DEF Older, Redraws, Edits
<1>6. i \in Nat \ {0}
  <2>1. Len(history) \in Nat \ {0}
    BY <1>1, LenProperties, EmptySeq DEF DraftOK, IsSeq
  <2>2. edit.idx \in Nat
    BY DEF DraftOK
  <2> QED BY <1>2, <2>1, <2>2, SMT
<1>7. e.idx = i /\ e.saved = kept /\ DOMAIN e = DOMAIN edit
  BY <1>4 DEF Whole, DraftOK
<1>8. kept = draft
  <2>1. edit.idx = 0 \/ edit.idx > 0
    BY DEF DraftOK
  <2> QED BY <1>3, <2>1 DEF DraftOK
<1>9. at' = at /\ history' = history /\ e.idx # 0 /\ draft' = draft
  BY <1>1, <1>5, <1>6, <1>7 DEF Stays
<1>10. DraftOK' /\ Comes
  BY <1>1, <1>5, <1>6, <1>7, <1>8, <1>9 DEF DraftOK, Comes, IsSeq
<1> QED BY <1>1, <1>10, SameTerminal DEF Stays

\* Back to the line being typed, past the latest line.
LEMMA NewerOK ==
  ASSUME TerminalOK, DraftOK, Newer
  PROVE  TerminalOK' /\ DraftOK' /\ Comes
<1>1. Stays /\ at = "line" /\ edit.idx > 0
  BY DEF Newer
<1>2. PICK i : i = IF edit.idx < Len(history) THEN edit.idx + 1 ELSE 0
  OBVIOUS
<1>3. PICK b : b = IF i = 0 THEN edit.saved ELSE history[i]
  OBVIOUS
<1>4. PICK e : e = Whole([edit EXCEPT !.idx = i], b)
  OBVIOUS
<1>5. edit' = e /\ draft' = IF e.idx = 0 THEN e.buffer ELSE draft
  BY <1>2, <1>3, <1>4 DEF Newer, Redraws, Edits
<1>6. i \in Nat
  BY <1>2 DEF DraftOK
<1>7. e.idx = i /\ e.saved = edit.saved /\ e.buffer = b /\ DOMAIN e = DOMAIN edit
  BY <1>4 DEF Whole, DraftOK
<1>8. edit.saved = draft
  BY <1>1 DEF DraftOK
<1>9. at' = at /\ history' = history
  BY <1>1 DEF Stays
<1>10. DraftOK'
  BY <1>1, <1>5, <1>6, <1>7, <1>8, <1>9 DEF DraftOK, IsSeq
<1>11. Comes
  BY <1>3, <1>5, <1>7, <1>8 DEF Comes
<1> QED BY <1>1, <1>10, <1>11, SameTerminal DEF Stays

\* The loop of run(): a line is begun, sent, or given up.
LEMMA LinesOK ==
  ASSUME TerminalOK, DraftOK, NextLine \/ Enter \/ Interrupt \/ Answer
  PROVE  TerminalOK' /\ DraftOK' /\ Comes
<1>1. CASE NextLine
  <2>1. DraftOK' /\ Comes
    BY <1>1, NewDraft DEF NextLine, DraftOK, IsSeq
  <2>2. TerminalOK'
    BY <1>1 DEF NextLine, TerminalOK, Places, Editing
  <2> QED BY <2>1, <2>2
<1>2. CASE Enter
  BY <1>2, SubmitsOK DEF Enter
<1>3. CASE Interrupt
  <2>1. at = "line" /\ \E line, s : Submits(line, s)
    BY <1>3 DEF Interrupt
  <2> QED BY <2>1, SubmitsOK
<1>4. CASE Answer
  <2>1. at \in Editing /\ IsSeq(history')
    BY <1>4 DEF Answer, Editing, DraftOK, IsSeq
  <2>2. \E s : Returned(s) \/ \E j : GoesOn(j, s)
    BY <1>4 DEF Answer
  <2> QED BY <2>1, <2>2, ReturnedOK, GoesOnOK
<1> QED BY <1>1, <1>2, <1>3, <1>4

\* The spinner, its thread, and the end.
LEMMA SpinnerOK ==
  ASSUME TerminalOK, DraftOK,
         animationLoop \/ Answered \/ Stopped \/ Throws \/ Destroy \/ Destroyed
  PROVE  TerminalOK' /\ DraftOK' /\ Comes
<1>1. UNCHANGED <<edit, draft, history>> /\ (edit.idx > 0 => at' = at)
  <2>1. edit.idx > 0 => at = "line"
    BY DEF DraftOK
  <2>2. Alone
    BY DEF animationLoop, Answered, Stopped, Throws, Destroy, Destroyed
  <2>3. at = "line" => animationLoop
    BY DEF Answered, Stopped, Throws, Destroy, Destroyed
  <2> QED BY <2>1, <2>2, <2>3 DEF Alone, animationLoop
<1>2. DraftOK' /\ Comes
  BY <1>1, SameDraft
<1>3. CASE animationLoop
  <2>1. PICK t \in {"none", "loop", "draws"} : spinner' = [spinner EXCEPT !.thread = t]
    BY <1>3 DEF animationLoop
  <2>2. spinner.thread # "none" /\ UNCHANGED <<at, raw>>
    BY <1>3 DEF animationLoop
  <2>3. spinner # Idle /\ at \notin Editing \cup {"prompt", "gone"}
    BY <2>2 DEF TerminalOK, Idle, Editing
  <2>4. spinner'.running = spinner.running /\ spinner' \in [running : BOOLEAN, hidden : BOOLEAN, thread : {"none", "loop", "draws"}]
    BY <2>1 DEF TerminalOK
  <2>5. at = "ended" => spinner'.running
    BY <2>3, <2>4 DEF TerminalOK
  <2> QED BY <1>2, <2>2, <2>3, <2>4, <2>5 DEF TerminalOK, Places, Editing
<1>4. CASE Answered
  <2>1. spinner' = [spinner EXCEPT !.running = FALSE] /\ at' = "stop"
    BY <1>4 DEF Answered
  <2>2. spinner' \in [running : BOOLEAN, hidden : BOOLEAN, thread : {"none", "loop", "draws"}] /\ ~spinner'.running
    BY <2>1 DEF TerminalOK
  <2> QED BY <1>2, <2>1, <2>2 DEF TerminalOK, Places, Editing
<1>5. CASE Stopped
  <2>1. /\ spinner' = [spinner EXCEPT !.hidden = FALSE] /\ at = "stop" /\ at' = "prompt"
        /\ spinner.thread = "none"
    BY <1>5 DEF Stopped, Joined
  <2>2. spinner' = Idle
    BY <2>1 DEF TerminalOK, Idle
  <2>3. Idle \in [running : BOOLEAN, hidden : BOOLEAN, thread : {"none", "loop", "draws"}]
    BY DEF Idle
  <2> QED BY <1>2, <2>1, <2>2, <2>3 DEF TerminalOK, Places, Editing
<1>6. CASE Throws
  BY <1>2, <1>6 DEF Throws, TerminalOK, Places, Editing
<1>7. CASE Destroy
  <2>1. /\ at = "ended" /\ at' = (IF spinner.running THEN "leaves" ELSE "gone")
        /\ spinner' = [spinner EXCEPT !.running = FALSE] /\ raw' = FALSE
    BY <1>7 DEF Destroy
  <2>2. spinner' \in [running : BOOLEAN, hidden : BOOLEAN, thread : {"none", "loop", "draws"}] /\ ~spinner'.running
    BY <2>1 DEF TerminalOK
  <2>3. ~spinner.running => ~spinner'.hidden /\ spinner'.thread = "none"
    BY <2>1 DEF TerminalOK, Idle
  <2> QED BY <1>2, <2>1, <2>2, <2>3 DEF TerminalOK, Places, Editing
<1>8. CASE Destroyed
  <2>1. /\ at = "leaves" /\ at' = "gone" /\ spinner.thread = "none" /\ raw' = raw
        /\ spinner' = [spinner EXCEPT !.hidden = FALSE]
    BY <1>8 DEF Destroyed, Joined
  <2>2. /\ spinner' \in [running : BOOLEAN, hidden : BOOLEAN, thread : {"none", "loop", "draws"}]
        /\ spinner'.running = spinner.running /\ ~spinner'.hidden /\ spinner'.thread = "none"
    BY <2>1 DEF TerminalOK
  <2> QED BY <1>2, <2>1, <2>2 DEF TerminalOK, Places, Editing
<1> QED BY <1>3, <1>4, <1>5, <1>6, <1>7, <1>8

-----------------------------------------------------------------------------
\* A step keeps who has the terminal, and what was typed.
LEMMA NextInv ==
  TerminalOK /\ DraftOK /\ [Next]_vars => TerminalOK' /\ DraftOK' /\ Comes
<1> SUFFICES ASSUME TerminalOK, DraftOK, [Next]_vars PROVE TerminalOK' /\ DraftOK' /\ Comes
  OBVIOUS
<1>1. CASE UNCHANGED console
  BY <1>1, KeyboardOK DEF console
<1>2. CASE ~UNCHANGED console
  BY <1>2, KeysArriveOK, TextKeysOK, CompleteOK, OlderOK, NewerOK, LinesOK, SpinnerOK DEF Next, vars, setSink
<1> QED BY <1>1, <1>2

\* So they hold always.
LEMMA Invariant == Spec => [](TerminalOK /\ DraftOK)
<1>1. TerminalOK /\ DraftOK /\ [Next]_vars => (TerminalOK /\ DraftOK)'
  BY NextInv
<1> QED BY <1>1, InitInv, PTL DEF Spec

-----------------------------------------------------------------------------
(* Types *)

\* A text that is edited: its letters are those of the history; the cursor is
\* in it, and the person in the history.
TextOK(e, h) ==
  /\ \E S : h \in Seq(Seq(S)) /\ e.buffer \in Seq(S) /\ e.saved \in Seq(S)
  /\ e.cursor \in 0..Len(e.buffer) /\ e.idx \in 0..Len(h)
\* The command whose prompts are shown is a command.
CommandOK ==
  /\ menu \in Menus /\ DOMAIN job = DOMAIN NoJob
  /\ job = NoJob \/ job.node \in Leaves
  /\ at \in {"text", "password"} => job.node \in Leaves
FlagsOK == logs \in 0..MaxLogs /\ blank \in BOOLEAN /\ raw \in BOOLEAN /\ garbled \in BOOLEAN
Typed == TextOK(edit, history) /\ CommandOK /\ FlagsOK

\* Nothing is typed at the start.
LEMMA InitTypes == Init => Typed
<1> SUFFICES ASSUME Init PROVE Typed
  OBVIOUS
<1>1. <<>> \in Seq({}) /\ <<>> \in Seq(Seq({})) /\ Len(<<>>) = 0
  BY EmptySeq
<1>2. TextOK(edit, history)
  BY <1>1 DEF Init, TextOK, Empty
<1>3. CommandOK
  BY TreeAssumption DEF Init, CommandOK
<1>4. FlagsOK
  <2>1. MaxLogs \in Nat
    BY InputAssumption
  <2>2. logs = 0 /\ blank = FALSE /\ raw = TRUE /\ garbled = FALSE
    BY DEF Init
  <2>3. logs \in 0..MaxLogs
    BY <2>1, <2>2
  <2>4. blank \in BOOLEAN /\ raw \in BOOLEAN /\ garbled \in BOOLEAN
    BY <2>2
  <2> QED BY <2>3, <2>4 DEF FlagsOK
<1> QED BY <1>2, <1>3, <1>4 DEF Typed

\* The texts that keys make.
LEMMA InsertedOK ==
  ASSUME DraftOK, TextOK(edit, history), NEW c PROVE TextOK(Inserted(edit, c), history)
<1>1. PICK S : history \in Seq(Seq(S)) /\ edit.buffer \in Seq(S) /\ edit.saved \in Seq(S)
  BY DEF TextOK
<1>2. PICK U : U = S \cup {c}
  OBVIOUS
<1>3. /\ history \in Seq(Seq(U)) /\ edit.buffer \in Seq(U) /\ edit.saved \in Seq(U) /\ c \in U
      /\ edit.cursor \in 0..Len(edit.buffer)
  BY <1>1, <1>2, SeqMonotonic DEF TextOK
<1>4. PICK b : b = InsertAt(edit.buffer, edit.cursor + 1, c)
  OBVIOUS
<1>5. b \in Seq(U) /\ Len(b) = Len(edit.buffer) + 1
  BY <1>3, <1>4, InsertedText
<1>6. PICK e : e = Inserted(edit, c)
  OBVIOUS
<1>7. e = [edit EXCEPT !.buffer = b, !.cursor = @ + 1]
  BY <1>4, <1>6 DEF Inserted
<1>8. e.buffer = b /\ e.cursor = edit.cursor + 1 /\ e.idx = edit.idx /\ e.saved = edit.saved
  BY <1>7 DEF DraftOK
<1>9. e.cursor \in 0..Len(b)
  BY <1>3, <1>5, <1>8, LenProperties
<1> QED BY <1>3, <1>5, <1>6, <1>8, <1>9 DEF TextOK

\* A character before or at the cursor removed.
LEMMA RemovedOK ==
  ASSUME DraftOK, TextOK(edit, history), NEW i \in 1..Len(edit.buffer),
         NEW k \in 0..Len(edit.buffer) - 1, NEW e,
         e.buffer = RemoveAt(edit.buffer, i), e.cursor = k, e.idx = edit.idx, e.saved = edit.saved
  PROVE  TextOK(e, history)
<1>1. PICK S : history \in Seq(Seq(S)) /\ edit.buffer \in Seq(S) /\ edit.saved \in Seq(S)
  BY DEF TextOK
<1>2. e.buffer \in Seq(S) /\ Len(e.buffer) = Len(edit.buffer) - 1
  BY <1>1, RemovedText
<1> QED BY <1>1, <1>2 DEF TextOK

\* Another text in its place, the cursor behind it.
LEMMA WholeOK ==
  ASSUME NEW S, NEW h \in Seq(Seq(S)), NEW b \in Seq(S), NEW e,
         DOMAIN e = {"buffer", "cursor", "idx", "saved"}, e.saved \in Seq(S), e.idx \in 0..Len(h)
  PROVE  TextOK(Whole(e, b), h)
<1>1. PICK w : w = Whole(e, b)
  OBVIOUS
<1>2. w.buffer = b /\ w.cursor = Len(b) /\ w.idx = e.idx /\ w.saved = e.saved
  BY <1>1 DEF Whole
<1>3. Len(b) \in 0..Len(b)
  BY LenProperties
<1> QED BY <1>1, <1>2, <1>3 DEF TextOK

\* The text a prompt begins with.
LEMMA EmptyOK == ASSUME NEW S, NEW h \in Seq(Seq(S)) PROVE TextOK(Empty, h)
<1>1. <<>> \in Seq(S) /\ Len(<<>>) = 0 /\ Len(h) \in Nat
  BY EmptySeq, LenProperties
<1> QED BY <1>1 DEF TextOK, Empty

\* Completions are names of the menu, and end in a blank.
LEMMA CompletedOK ==
  ASSUME DraftOK, TextOK(edit, history), menu \in Menus PROVE TextOK(handleTab(edit), history)
<1>1. PICK S : history \in Seq(Seq(S)) /\ edit.buffer \in Seq(S) /\ edit.saved \in Seq(S)
  BY DEF TextOK
<1>2. PICK U : U = S \cup Letters \cup {"h", "e", "l", "p", "x", "i", "t", ".", " "}
  OBVIOUS
<1>3. history \in Seq(Seq(U)) /\ edit.saved \in Seq(U) /\ edit.idx \in 0..Len(history)
  <2>1. Seq(S) \subseteq Seq(U)
    BY <1>2, SeqMonotonic
  <2>2. history \in Seq(Seq(U))
    BY <1>1, <2>1, SeqMonotonic
  <2> QED BY <1>1, <2>1, <2>2 DEF TextOK
<1>4. completions(menu) \subseteq Seq(U)
  <2>1. Help \in Seq(U) /\ Exit \in Seq(U) /\ Up \in Seq(U)
    <3>1. {"h", "e", "l", "p", "x", "i", "t", "."} \subseteq U
      BY <1>2
    <3> QED BY <3>1 DEF Help, Exit, Up
  <2>2. ASSUME NEW p \in Nodes, p # <<>> PROVE Last(p) \in Seq(U)
    <3>1. p \in Seq(Seq(Letters))
      BY TreeAssumption
    <3>2. Len(p) \in 1..Len(p)
      BY <2>2, <3>1, EmptySeq
    <3>3. Last(p) \in Seq(Letters)
      BY <3>1, <3>2, ElementOfSeq DEF Last
    <3> QED BY <1>2, <3>3, SeqMonotonic
  <2> QED BY <2>1, <2>2 DEF completions, Children
<1>5. PICK matches : matches = {c \in completions(menu) : IsPrefix(edit.buffer, c)}
  OBVIOUS
<1>6. PICK common : common = LongestCommonPrefix(matches)
  OBVIOUS
<1>7. \/ handleTab(edit) = edit
      \/ matches # {} /\ \E b \in {common, Append(common, " ")} : handleTab(edit) = Whole(edit, b)
  BY <1>5, <1>6 DEF handleTab
<1>8. ASSUME matches # {} PROVE common \in Seq(U) /\ Append(common, " ") \in Seq(U)
  <2>1. common \in Seq(U)
    BY <1>4, <1>5, <1>6, <1>8, LongestText
  <2> QED BY <1>2, <2>1, AppendProperties
<1>9. \A b \in Seq(U) : TextOK(Whole(edit, b), history)
  BY <1>3, WholeOK DEF DraftOK
<1> QED BY <1>7, <1>8, <1>9

-----------------------------------------------------------------------------
(* Types, step by step *)

\* What the keyboard and the queue of the log do to the types.
LEMMA FlagsStay ==
  ASSUME FlagsOK, blank' \in BOOLEAN, raw' \in BOOLEAN, garbled' \in BOOLEAN, logs' \in {logs, 0}
  PROVE  FlagsOK'
<1>1. logs \in 0..MaxLogs /\ 0 \in 0..MaxLogs
  <2>1. MaxLogs \in Nat
    BY InputAssumption
  <2> QED BY <2>1 DEF FlagsOK
<1> QED BY <1>1 DEF FlagsOK

\* A key handled leaves a flag.
LEMMA HandledFlags == ASSUME Handled, FlagsOK PROVE garbled' \in BOOLEAN
BY DEF Handled, FlagsOK

\* Texts, commands and history as they were.
LEMMA SameTyped ==
  ASSUME Typed, UNCHANGED <<edit, history, menu, job>>, at' \in {"text", "password"} => at' = at,
         blank' \in BOOLEAN, raw' \in BOOLEAN, garbled' \in BOOLEAN, logs' \in {logs, 0}
  PROVE  Typed'
<1>1. TextOK(edit, history)'
  BY DEF Typed, TextOK
<1>2. CommandOK'
  BY DEF Typed, CommandOK
<1>3. FlagsOK'
  BY FlagsStay DEF Typed
<1> QED BY <1>1, <1>2, <1>3 DEF Typed

\* Another text in the same place.
LEMMA EditsTyped ==
  ASSUME Typed, NEW e, TextOK(e, history), Edits(e), Handled, Stays, blank' \in BOOLEAN
  PROVE  Typed'
<1>1. edit' = e /\ history' = history
  BY DEF Edits, Stays
<1>2. TextOK(edit, history)'
  BY <1>1 DEF TextOK
<1>3. CommandOK'
  BY DEF Typed, CommandOK, Stays
<1>4. FlagsOK'
  BY FlagsStay, HandledFlags DEF Typed, Stays, FlagsOK
<1> QED BY <1>2, <1>3, <1>4 DEF Typed

\* Keys pressed, read and dropped, and log lines.
LEMMA KeyboardTyped ==
  ASSUME Typed, Press \/ Paste \/ ReadByte \/ TimeOut \/ Ignore \/ enqueueLog \/ output
  PROVE  Typed'
<1>1. blank \in BOOLEAN /\ raw \in BOOLEAN /\ garbled \in BOOLEAN
  BY DEF Typed, FlagsOK
<1>2. ASSUME NEW keys, Sends(keys) PROVE Typed'
  <2>1. garbled' \in BOOLEAN
    BY <1>1, <1>2 DEF Sends
  <2> QED BY <1>1, <1>2, <2>1, SameTyped DEF Sends
<1>3. CASE Press
  BY <1>2, <1>3 DEF Press
<1>4. CASE Paste
  BY <1>2, <1>4 DEF Paste
<1>5. ASSUME NEW s, Returns(s) PROVE blank' \in BOOLEAN
  BY <1>1, <1>5 DEF Returns
<1>6. CASE ReadByte
  <2>1. blank' \in BOOLEAN
    BY <1>1, <1>5, <1>6 DEF ReadByte
  <2> QED BY <1>1, <1>6, <2>1, SameTyped DEF ReadByte
<1>7. CASE TimeOut
  <2>1. blank' \in BOOLEAN /\ garbled' \in BOOLEAN
    BY <1>1, <1>5, <1>7 DEF TimeOut
  <2> QED BY <1>1, <1>7, <2>1, SameTyped DEF TimeOut
<1>8. CASE Ignore
  <2>1. garbled' \in BOOLEAN
    BY <1>8, HandledFlags DEF Ignore, Typed
  <2> QED BY <1>1, <1>8, <2>1, SameTyped DEF Ignore, Stays
<1>9. CASE enqueueLog
  <2>1. logs' \in 0..MaxLogs
    <3>1. MaxLogs \in Nat /\ logs \in 0..MaxLogs
      BY InputAssumption DEF Typed, FlagsOK
    <3>2. logs < MaxLogs /\ logs' = logs + 1
      BY <1>9 DEF enqueueLog
    <3> QED BY <3>1, <3>2
  <2>2. UNCHANGED <<edit, history, menu, job, at, blank, raw, garbled>>
    BY <1>9 DEF enqueueLog
  <2>3. TextOK(edit, history)'
    BY <2>2 DEF Typed, TextOK
  <2>4. CommandOK'
    BY <2>2 DEF Typed, CommandOK
  <2> QED BY <2>1, <2>2, <2>3, <2>4 DEF Typed, FlagsOK
<1>10. CASE output
  BY <1>1, <1>10, SameTyped DEF output
<1> QED BY <1>3, <1>4, <1>6, <1>7, <1>8, <1>9, <1>10

\* Keys that change the text or the place in it.
LEMMA TextKeysTyped ==
  ASSUME DraftOK, Typed, Insert \/ Backspace \/ Delete \/ Move
  PROVE  Typed'
<1>1. /\ TextOK(edit, history) /\ blank \in BOOLEAN
      /\ edit.cursor \in 0..Len(edit.buffer) /\ Len(edit.buffer) \in Nat
  <2>1. PICK S : edit.buffer \in Seq(S)
    BY DEF Typed, TextOK
  <2> QED BY <2>1, LenProperties DEF Typed, TextOK, FlagsOK
<1>2. CASE Insert
  <2>1. Edits(Inserted(edit, event.ch)) /\ Handled /\ Stays /\ blank' \in BOOLEAN
    BY <1>1, <1>2 DEF Insert, Redraws
  <2> QED BY <1>1, <2>1, InsertedOK, EditsTyped
<1>3. CASE Backspace
  <2>1. PICK e : e = [Removed(edit, edit.cursor) EXCEPT !.cursor = @ - 1]
    OBVIOUS
  <2>2. Edits(e) /\ Handled /\ Stays /\ blank' \in BOOLEAN /\ edit.cursor > 0
    BY <1>1, <1>3, <2>1 DEF Backspace, Redraws
  <2>3. /\ e.buffer = RemoveAt(edit.buffer, edit.cursor) /\ e.cursor = edit.cursor - 1
        /\ e.idx = edit.idx /\ e.saved = edit.saved
    BY <2>1 DEF Removed, DraftOK
  <2>4. edit.cursor \in 1..Len(edit.buffer) /\ edit.cursor - 1 \in 0..Len(edit.buffer) - 1
    BY <1>1, <2>2
  <2> QED BY <1>1, <2>2, <2>3, <2>4, RemovedOK, EditsTyped
<1>4. CASE Delete
  <2>1. PICK e : e = Removed(edit, edit.cursor + 1)
    OBVIOUS
  <2>2. Edits(e) /\ Handled /\ Stays /\ blank' \in BOOLEAN /\ edit.cursor < Len(edit.buffer)
    BY <1>4, <2>1 DEF Delete, Redraws
  <2>3. /\ e.buffer = RemoveAt(edit.buffer, edit.cursor + 1) /\ e.cursor = edit.cursor
        /\ e.idx = edit.idx /\ e.saved = edit.saved
    BY <2>1 DEF Removed, DraftOK
  <2>4. edit.cursor + 1 \in 1..Len(edit.buffer) /\ edit.cursor \in 0..Len(edit.buffer) - 1
    BY <1>1, <2>2
  <2> QED BY <1>1, <2>2, <2>3, <2>4, RemovedOK, EditsTyped
<1>5. CASE Move
  <2>1. PICK to \in 0..Len(edit.buffer) : Edits([edit EXCEPT !.cursor = to])
    <3>1. ASSUME edit.cursor > 0 PROVE edit.cursor - 1 \in 0..Len(edit.buffer) /\ 0 \in 0..Len(edit.buffer)
      BY <1>1, <3>1
    <3>2. ASSUME edit.cursor < Len(edit.buffer)
          PROVE  edit.cursor + 1 \in 0..Len(edit.buffer) /\ Len(edit.buffer) \in 0..Len(edit.buffer)
      BY <1>1, <3>2
    <3> QED BY <1>5, <3>1, <3>2 DEF Move, Moves
  <2>2. Handled /\ Stays /\ blank' \in BOOLEAN
    BY <1>1, <1>5 DEF Move, Moves
  <2>3. TextOK([edit EXCEPT !.cursor = to], history)
    <3>1. PICK e : e = [edit EXCEPT !.cursor = to]
      OBVIOUS
    <3>2. e.buffer = edit.buffer /\ e.cursor = to /\ e.idx = edit.idx /\ e.saved = edit.saved
      BY <3>1 DEF DraftOK
    <3> QED BY <1>1, <3>1, <3>2 DEF TextOK
  <2> QED BY <2>1, <2>2, <2>3, EditsTyped
<1> QED BY <1>2, <1>3, <1>4, <1>5

\* Keys that put another text in its place.
LEMMA HistoryKeysTyped ==
  ASSUME DraftOK, Typed, Older \/ Newer \/ Complete
  PROVE  Typed'
<1>1. PICK S : history \in Seq(Seq(S)) /\ edit.buffer \in Seq(S) /\ edit.saved \in Seq(S)
  BY DEF Typed, TextOK
<1>2. PICK n \in Nat : n = Len(history) /\ edit.idx \in 0..n
  BY <1>1, LenProperties DEF Typed, TextOK
<1>3. ASSUME NEW i \in 0..n, NEW kept \in Seq(S), NEW b \in Seq(S)
      PROVE  TextOK(Whole([edit EXCEPT !.idx = i, !.saved = kept], b), history)
  <2>1. PICK e : e = [edit EXCEPT !.idx = i, !.saved = kept]
    OBVIOUS
  <2>2. DOMAIN e = {"buffer", "cursor", "idx", "saved"} /\ e.idx = i /\ e.saved = kept
    BY <2>1 DEF DraftOK
  <2> QED BY <1>1, <1>2, <2>1, <2>2, WholeOK
<1>4. CASE Older
  <2>1. PICK i : i = IF edit.idx = 0 THEN Len(history) ELSE IF edit.idx > 1 THEN edit.idx - 1 ELSE 1
    OBVIOUS
  <2>2. PICK kept : kept = IF edit.idx = 0 THEN edit.buffer ELSE edit.saved
    OBVIOUS
  <2>3. history # <<>> /\ Handled /\ Stays /\ blank' \in BOOLEAN
    BY <1>4 DEF Older, Redraws
  <2>4. Edits(Whole([edit EXCEPT !.idx = i, !.saved = kept], history[i]))
    BY <1>4, <2>1, <2>2 DEF Older, Redraws
  <2>5. i \in 1..n
    <3>1. n > 0
      BY <1>1, <1>2, <2>3, EmptySeq
    <3> QED BY <1>2, <2>1, <3>1
  <2>6. kept \in Seq(S) /\ history[i] \in Seq(S)
    BY <1>1, <1>2, <2>2, <2>5, ElementOfSeq
  <2>7. TextOK(Whole([edit EXCEPT !.idx = i, !.saved = kept], history[i]), history)
    <3>1. i \in 0..n
      BY <2>5
    <3> QED BY <1>3, <2>6, <3>1
  <2> QED BY <2>3, <2>4, <2>7, EditsTyped
<1>5. CASE Newer
  <2>1. PICK i : i = IF edit.idx < Len(history) THEN edit.idx + 1 ELSE 0
    OBVIOUS
  <2>2. PICK b : b = IF i = 0 THEN edit.saved ELSE history[i]
    OBVIOUS
  <2>3. Handled /\ Stays /\ blank' \in BOOLEAN
    BY <1>5 DEF Newer, Redraws
  <2>4. Edits(Whole([edit EXCEPT !.idx = i], b))
    BY <1>5, <2>1, <2>2 DEF Newer, Redraws
  <2>5. [edit EXCEPT !.idx = i] = [edit EXCEPT !.idx = i, !.saved = edit.saved]
    BY DEF DraftOK
  <2>6. i \in 0..n
    BY <1>2, <2>1
  <2>7. b \in Seq(S)
    <3>1. i # 0 => i \in 1..Len(history)
      BY <1>2, <2>6
    <3> QED BY <1>1, <2>2, <3>1, ElementOfSeq
  <2> QED BY <1>1, <1>3, <2>3, <2>4, <2>5, <2>6, <2>7, EditsTyped
<1>6. CASE Complete
  <2>1. Edits(handleTab(edit)) /\ Handled /\ Stays /\ blank' \in BOOLEAN
    BY <1>6 DEF Complete, Redraws
  <2> QED BY <2>1, CompletedOK, EditsTyped DEF Typed, CommandOK
<1> QED BY <1>4, <1>5, <1>6

\* The loop of run(): lines, commands and prompts.
LEMMA ReturnedTyped ==
  ASSUME Typed, NEW s, Returned(s), menu' \in Menus, \E S : history' \in Seq(Seq(S)),
         raw' \in BOOLEAN, garbled' \in BOOLEAN, logs' = logs
  PROVE  Typed'
<1>1. at' = "prompt" /\ job' = NoJob /\ edit' = Empty /\ blank' = FALSE
  BY DEF Returned
<1>2. TextOK(edit, history)'
  <2>1. TextOK(Empty, history')
    BY EmptyOK
  <2> QED BY <1>1, <2>1 DEF TextOK
<1>3. CommandOK'
  BY <1>1 DEF CommandOK
<1>4. FlagsOK'
  <2>1. blank' \in BOOLEAN
    BY <1>1
  <2> QED BY <2>1, FlagsStay DEF Typed
<1> QED BY <1>2, <1>3, <1>4 DEF Typed

\* The next prompt of a command, or its call of Core.
LEMMA GoesOnTyped ==
  ASSUME Typed, NEW j, NEW s, GoesOn(j, s), DOMAIN j = DOMAIN NoJob, j.node \in Leaves,
         menu' \in Menus, \E S : history' \in Seq(Seq(S)),
         raw' \in BOOLEAN, garbled' \in BOOLEAN, logs' = logs
  PROVE  Typed'
<1>1. job' = j /\ edit' = Empty /\ blank' = FALSE
  BY DEF GoesOn
<1>2. TextOK(edit, history)'
  <2>1. TextOK(Empty, history')
    BY EmptyOK
  <2> QED BY <1>1, <2>1 DEF TextOK
<1>3. CommandOK'
  BY <1>1 DEF CommandOK
<1>4. FlagsOK'
  <2>1. blank' \in BOOLEAN
    BY <1>1
  <2> QED BY <2>1, FlagsStay DEF Typed
<1> QED BY <1>2, <1>3, <1>4 DEF Typed

\* A line sent: it joins the history, and its letters those of the history.
LEMMA SubmitsTyped ==
  ASSUME Typed, NEW S, NEW line \in Seq(S), NEW s, Submits(line, s), Handled, logs' = logs, at = "line"
  PROVE  Typed'
<1>1. /\ menu \in Menus /\ raw \in BOOLEAN /\ garbled' \in BOOLEAN
      /\ \E U : history \in Seq(Seq(U))
  BY HandledFlags DEF Typed, CommandOK, TextOK, FlagsOK
<1>2. CASE line = <<>>
  <2>1. Returned(s) /\ UNCHANGED <<history, menu, raw>>
    BY <1>2 DEF Submits
  <2> QED BY <1>1, <2>1, ReturnedTyped
<1>3. CASE line # <<>>
  <2>1. \E U : history' \in Seq(Seq(U))
    <3>1. PICK V : history \in Seq(Seq(V))
      BY <1>1
    <3>2. PICK U : U = S \cup V
      OBVIOUS
    <3>3. line \in Seq(U)
      BY <3>2, SeqMonotonic
    <3>4. Seq(V) \subseteq Seq(U)
      BY <3>2, SeqMonotonic
    <3>5. history \in Seq(Seq(U))
      BY <3>1, <3>4, SeqMonotonic
    <3>6. history' = addToHistory(line)
      BY <1>3 DEF Submits
    <3> QED BY <3>3, <3>5, <3>6, HistoryText
  <2>2. CASE line = Help
    BY <1>1, <1>3, <2>1, <2>2, ReturnedTyped DEF Submits
  <2>3. CASE line # Help
    <3>1. PICK d : d = dispatch(menu, line)
      OBVIOUS
    <3>2. /\ d.result = "Executed" => d.node \in Leaves
          /\ d.result \in {"NavigatedMenu", "NavigatedUp"} => d.node \in Menus
      BY <1>1, <3>1, DispatchPlaces
    <3>3. /\ menu' = IF d.result \in {"NavigatedMenu", "NavigatedUp"} THEN d.node ELSE menu
          /\ raw' = (d.result # "Exit")
          /\ \/ d.result = "Executed" /\ Execute(line, d, s)
             \/ Returned(s)
             \/ /\ at' = "ended" /\ edit' = Empty /\ blank' = FALSE /\ job' = job
      BY <1>3, <2>3, <3>1 DEF Submits, Dispatch
    <3>4. menu' \in Menus /\ raw' \in BOOLEAN
      BY <1>1, <3>2, <3>3
    <3>5. CASE Returned(s)
      BY <1>1, <2>1, <3>4, <3>5, ReturnedTyped
    <3>6. CASE d.result = "Executed" /\ Execute(line, d, s)
      <4>1. PICK j : /\ Returned(s) \/ GoesOn(j, s)
                     /\ \E asks : j = [menu |-> menu, line |-> line, node |-> d.node, args |-> d.args,
                                       asks |-> asks]
        BY <3>6 DEF Execute
      <4>2. DOMAIN j = DOMAIN NoJob /\ j.node \in Leaves
        BY <3>2, <3>6, <4>1 DEF NoJob
      <4> QED BY <1>1, <2>1, <3>4, <3>5, <4>1, <4>2, GoesOnTyped
    <3>7. CASE at' = "ended" /\ edit' = Empty /\ blank' = FALSE /\ job' = job
      <4>1. TextOK(edit, history)'
        <5>1. TextOK(Empty, history')
          BY <2>1, EmptyOK
        <5> QED BY <3>7, <5>1 DEF TextOK
      <4>2. CommandOK'
        BY <3>4, <3>7 DEF Typed, CommandOK
      <4>3. FlagsOK'
        <5>1. blank' \in BOOLEAN
          BY <3>7
        <5> QED BY <1>1, <3>4, <5>1, FlagsStay DEF Typed
      <4> QED BY <4>1, <4>2, <4>3 DEF Typed
    <3> QED BY <3>3, <3>5, <3>6, <3>7
  <2> QED BY <2>2, <2>3
<1> QED BY <1>2, <1>3

\* A line is begun, sent, or given up.
LEMMA LinesTyped ==
  ASSUME DraftOK, Typed, NextLine \/ Enter \/ Interrupt \/ Answer
  PROVE  Typed'
<1>1. /\ menu \in Menus /\ blank \in BOOLEAN /\ raw \in BOOLEAN /\ garbled \in BOOLEAN
      /\ DOMAIN job = DOMAIN NoJob /\ (at \in {"text", "password"} => job.node \in Leaves)
  BY DEF Typed, CommandOK, FlagsOK
<1>2. PICK S : history \in Seq(Seq(S)) /\ edit.buffer \in Seq(S)
  BY DEF Typed, TextOK
<1>3. CASE NextLine
  <2>1. /\ at' = "line" /\ edit' = Empty /\ blank' = FALSE /\ job' = NoJob /\ logs' = 0
        /\ UNCHANGED <<garbled, history, menu, raw>>
    BY <1>3 DEF NextLine
  <2>2. TextOK(edit, history)'
    <3>1. TextOK(Empty, history')
      BY <1>2, <2>1, EmptyOK
    <3> QED BY <2>1, <3>1 DEF TextOK
  <2>3. CommandOK'
    BY <1>1, <2>1 DEF CommandOK
  <2>4. FlagsOK'
    <3>1. blank' \in BOOLEAN
      BY <2>1
    <3> QED BY <1>1, <2>1, <3>1, FlagsStay DEF Typed
  <2> QED BY <2>2, <2>3, <2>4 DEF Typed
<1>4. CASE Enter
  BY <1>2, <1>4, TrimmedText, SubmitsTyped DEF Enter
<1>5. CASE Interrupt
  <2>1. <<>> \in Seq({"e", "x", "i", "t"}) /\ Exit \in Seq({"e", "x", "i", "t"})
    BY DEF Exit
  <2>2. /\ at = "line" /\ Handled /\ logs' = logs
        /\ \E s : \E line \in {<<>>, Exit} : Submits(line, s)
    BY <1>5 DEF Interrupt
  <2> QED BY <2>1, <2>2, SubmitsTyped
<1>6. CASE Answer
  <2>1. at \in {"text", "password"} /\ Handled /\ UNCHANGED <<history, menu, raw, logs>>
    BY <1>6 DEF Answer
  <2>2. garbled' \in BOOLEAN
    BY <2>1, HandledFlags DEF Typed
  <2>3. PICK s, j : j = [job EXCEPT !.asks = Tail(@)] /\ (Returned(s) \/ GoesOn(j, s))
    BY <1>6 DEF Answer
  <2>4. DOMAIN j = DOMAIN NoJob /\ j.node = job.node
    BY <1>1, <2>3 DEF NoJob
  <2> QED BY <1>1, <1>2, <2>1, <2>2, <2>3, <2>4, ReturnedTyped, GoesOnTyped
<1> QED BY <1>3, <1>4, <1>5, <1>6

\* The spinner edits nothing.
LEMMA SpinnerTyped ==
  ASSUME Typed, animationLoop \/ Answered \/ Stopped \/ Throws \/ Destroy \/ Destroyed
  PROVE  Typed'
<1>1. Alone /\ raw' \in {raw, FALSE} /\ job' \in {job, NoJob}
  BY DEF animationLoop, Answered, Stopped, Throws, Destroy, Destroyed
<1>2. at' \in {"text", "password"} => at' = at /\ job' = job
  BY DEF animationLoop, Answered, Stopped, Throws, Destroy, Destroyed
<1>3. UNCHANGED <<edit, history, menu, blank, garbled, logs>>
  BY <1>1 DEF Alone
<1>4. TextOK(edit, history)'
  BY <1>3 DEF Typed, TextOK
<1>5. CommandOK'
  BY <1>1, <1>2, <1>3 DEF Typed, CommandOK
<1>6. FlagsOK'
  BY <1>1, <1>3, FlagsStay DEF Typed, FlagsOK
<1> QED BY <1>4, <1>5, <1>6 DEF Typed

\* A step keeps the types.
LEMMA NextTyped == TerminalOK /\ DraftOK /\ Typed /\ [Next]_vars => Typed'
<1> SUFFICES ASSUME TerminalOK, DraftOK, Typed, [Next]_vars PROVE Typed'
  OBVIOUS
<1>1. CASE ~UNCHANGED console
  BY <1>1, KeyboardTyped, TextKeysTyped, HistoryKeysTyped, LinesTyped, SpinnerTyped DEF Next, vars, setSink
<1>2. CASE UNCHANGED console
  <2>1. UNCHANGED <<edit, history, menu, job, at, blank, raw, garbled, logs>>
    BY <1>2 DEF console
  <2>2. blank' \in BOOLEAN /\ raw' \in BOOLEAN /\ garbled' \in BOOLEAN
    BY <2>1 DEF Typed, FlagsOK
  <2> QED BY <2>1, <2>2, SameTyped
<1> QED BY <1>1, <1>2

\* So the types hold always.
LEMMA TypesAlways == Spec => [](TerminalOK /\ DraftOK /\ Typed)
<1>1. Init => TerminalOK /\ DraftOK /\ Typed
  BY InitInv, InitTypes
<1>2. TerminalOK /\ DraftOK /\ Typed /\ [Next]_vars => (TerminalOK /\ DraftOK /\ Typed)'
  BY NextInv, NextTyped
<1> QED BY <1>1, <1>2, PTL DEF Spec

\* The log loses its sink, and does not get it back.
LEMMA SinkStays == [Next]_vars => sink' = sink \/ sink' = FALSE
<1> SUFFICES ASSUME [Next]_vars PROVE sink' = sink \/ sink' = FALSE
  OBVIOUS
<1>1. CASE Press \/ Paste \/ ReadByte \/ TimeOut
  BY <1>1 DEF Press, Paste, Sends, ReadByte, TimeOut
<1>2. CASE Insert \/ Backspace \/ Delete \/ Move \/ Older \/ Newer \/ Complete \/ Ignore
  BY <1>2 DEF Insert, Backspace, Delete, Move, Older, Newer, Complete, Ignore, Stays
<1>3. CASE NextLine \/ Enter \/ Interrupt \/ Answer
  BY <1>3 DEF NextLine, Enter, Interrupt, Answer
<1>4. CASE animationLoop \/ Answered \/ Stopped \/ Throws \/ Destroy \/ Destroyed
  BY <1>4 DEF animationLoop, Answered, Stopped, Throws, Destroy, Destroyed, Alone
<1>5. CASE enqueueLog \/ output \/ setSink
  BY <1>5 DEF enqueueLog, output, setSink
<1> QED BY <1>1, <1>2, <1>3, <1>4, <1>5 DEF Next, vars

LEMMA SinkTyped == Spec => [](sink \in BOOLEAN)
<1>1. Init => sink \in BOOLEAN
  BY DEF Init
<1>2. sink \in BOOLEAN /\ [Next]_vars => (sink \in BOOLEAN)'
  BY SinkStays
<1> QED BY <1>1, <1>2, PTL DEF Spec

\* Whatever keys come, in whatever pieces, the cursor stays in the text that
\* LineEditor and Prompt edit and the history index in the history, from which
\* lines are dropped; the menu and the command that runs are of the tree; and
\* the spinner turns only around a call of Core.
THEOREM EditorTyped == Spec => []TypeOK
<1>1. TerminalOK /\ DraftOK /\ Typed /\ sink \in BOOLEAN => TypeOK
  <2> SUFFICES ASSUME TerminalOK, DraftOK, Typed, sink \in BOOLEAN PROVE TypeOK
    OBVIOUS
  <2>1. edit.cursor \in 0..Len(edit.buffer) /\ edit.idx \in 0..Len(history)
    BY DEF Typed, TextOK
  <2>2. menu \in Menus /\ (job = NoJob \/ job.node \in Leaves)
    BY DEF Typed, CommandOK
  <2>3. /\ at \in Editing \cup {"prompt", "core", "stop", "ended", "leaves", "gone"}
        /\ spinner \in [running : BOOLEAN, hidden : BOOLEAN, thread : {"none", "loop", "draws"}]
    BY DEF TerminalOK, Places
  <2>4. spinner.running => at \in {"core", "ended"}
    BY DEF TerminalOK, Places, Idle
  <2>5. logs \in 0..MaxLogs /\ blank \in BOOLEAN /\ raw \in BOOLEAN /\ garbled \in BOOLEAN
    BY DEF Typed, FlagsOK
  <2> QED BY <2>1, <2>2, <2>3, <2>4, <2>5 DEF TypeOK
<1> QED BY <1>1, TypesAlways, SinkTyped, PTL
-----------------------------------------------------------------------------
(* The screen *)

\* The cursor is in column c of line l.
IsAt(s, l, c) == s = [line |-> l, col |-> c, above |-> s.above]
\* The screen shows the prompt and t, the cursor behind c characters of it.
Shows(s, t, c) == IsAt(s, Prompt \o t, 1 + c)
IsScreen(s) == \E l, c, a : s = [line |-> l, col |-> c, above |-> a]
Stars(n) == [i \in 1..n |-> "*"]

\* A screen with its cursor somewhere is a screen.
LEMMA AtScreen == ASSUME NEW s, NEW l, NEW c, IsAt(s, l, c) PROVE IsScreen(s) /\ s.line = l /\ s.col = c
BY DEF IsAt, IsScreen

\* What is drawn at the end of the line is appended to it.
LEMMA WriteAtEnd ==
  ASSUME NEW S, NEW l \in Seq(S), NEW t \in Seq(S), NEW s, IsAt(s, l, Len(l))
  PROVE  IsAt(write(s, t), l \o t, Len(l) + Len(t)) /\ write(s, t).above = s.above
<1>1. PICK m \in Nat, n \in Nat : m = Len(l) /\ n = Len(t)
  BY LenProperties
<1>2. s.line = l /\ s.col = m /\ DOMAIN s = {"line", "col", "above"}
  BY <1>1 DEF IsAt
<1>3. PICK f : f = [i \in 1..m + n |-> IF i \in m + 1 .. m + n THEN t[i - m]
                                       ELSE IF i <= m THEN l[i] ELSE " "]
  OBVIOUS
<1>4. f = l \o t
  <2>1. l \o t \in Seq(S) /\ Len(l \o t) = m + n
    BY <1>1, ConcatProperties
  <2>2. \A i \in 1..m + n : (l \o t)[i] = IF i <= m THEN l[i] ELSE t[i - m]
    BY <1>1, ConcatProperties
  <2>3. l \o t = [i \in 1..m + n |-> (l \o t)[i]]
    BY <2>1, LenProperties
  <2>4. ASSUME NEW i \in 1..m + n PROVE f[i] = (l \o t)[i]
    <3>1. CASE i <= m
      <4>1. i \notin m + 1..m + n
        BY <3>1
      <4> QED BY <1>3, <2>2, <3>1, <4>1
    <3>2. CASE i > m
      <4>1. i \in m + 1..m + n /\ ~(i <= m)
        BY <3>2
      <4> QED BY <1>3, <2>2, <4>1
    <3>3. i <= m \/ i > m
      OBVIOUS
    <3> QED BY <3>1, <3>2, <3>3
  <2> QED BY <1>3, <2>3, <2>4
<1>5. PICK end : end = IF m > m + n THEN m ELSE m + n
  OBVIOUS
<1>6. end = m + n
  BY <1>5
<1>7. write(s, t) = [s EXCEPT !.line = f, !.col = m + n]
  BY <1>1, <1>2, <1>3, <1>5, <1>6 DEF write
<1> QED BY <1>1, <1>2, <1>4, <1>7 DEF IsAt

\* Cleared from the cursor on, the line ends there.
LEMMA ClearToEndAt ==
  ASSUME NEW S, NEW l \in Seq(S), NEW c \in 0..Len(l), NEW s, IsAt(s, l, c)
  PROVE  /\ IsAt(clearToEnd(s), SubSeq(l, 1, c), c) /\ clearToEnd(s).above = s.above
         /\ SubSeq(l, 1, c) \in Seq(S) /\ Len(SubSeq(l, 1, c)) = c
         /\ \A j \in 1..c : SubSeq(l, 1, c)[j] = l[j]
<1>1. PICK n \in Nat : n = Len(l) /\ c \in 0..n
  BY LenProperties
<1>2. s.line = l /\ s.col = c /\ DOMAIN s = {"line", "col", "above"}
  BY DEF IsAt
<1>3. \A j \in 1..c : l[j] \in S
  <2>1. \A j \in 1..c : j \in 1..n
    BY <1>1
  <2> QED BY <1>1, <2>1, ElementOfSeq
<1>4. /\ SubSeq(l, 1, c) \in Seq(S) /\ Len(SubSeq(l, 1, c)) = c
      /\ \A j \in 1..c : SubSeq(l, 1, c)[j] = l[j]
  BY <1>1, <1>3, SubSeqProperties
<1>5. PICK k : k = IF c < n THEN c ELSE n
  OBVIOUS
<1>6. k = c
  BY <1>1, <1>5
<1>7. clearToEnd(s) = [s EXCEPT !.line = SubSeq(l, 1, c)]
  BY <1>1, <1>2, <1>5, <1>6 DEF clearToEnd
<1> QED BY <1>2, <1>4, <1>7 DEF IsAt

\* The cursor moved back, at most to the first column.
LEMMA BackAt ==
  ASSUME NEW l, NEW c \in Nat, NEW n \in Nat, NEW s, IsAt(s, l, c)
  PROVE  IsAt(moveCursorBack(s, n), l, IF n < c THEN c - n ELSE 0) /\ moveCursorBack(s, n).above = s.above
<1>1. PICK k : k = IF n < c THEN c - n ELSE 0
  OBVIOUS
<1>2. s.col = c /\ DOMAIN s = {"line", "col", "above"} /\ s.line = l
  BY DEF IsAt
<1>3. moveCursorBack(s, n) = [s EXCEPT !.col = k]
  BY <1>1, <1>2 DEF moveCursorBack
<1> QED BY <1>1, <1>2, <1>3 DEF IsAt

\* The cursor moved forward.
LEMMA ForwardAt ==
  ASSUME NEW l, NEW c \in Nat, NEW n \in Nat, NEW s, IsAt(s, l, c)
  PROVE  IsAt(moveCursorForward(s, n), l, c + n)
<1>1. s.col = c /\ DOMAIN s = {"line", "col", "above"} /\ s.line = l
  BY DEF IsAt
<1>2. moveCursorForward(s, n) = [s EXCEPT !.col = c + n]
  BY <1>1 DEF moveCursorForward
<1> QED BY <1>1, <1>2 DEF IsAt

\* Whatever is drawn on a screen leaves a screen.
LEMMA ScreensStay ==
  ASSUME NEW s, IsScreen(s)
  PROVE  /\ \A t : IsScreen(write(s, t))
         /\ \A n : IsScreen(moveCursorBack(s, n)) /\ IsScreen(moveCursorForward(s, n))
         /\ IsScreen(clearLine(s)) /\ IsScreen(clearToEnd(s))
<1>1. PICK k, d, a : s = [line |-> k, col |-> d, above |-> a]
  BY DEF IsScreen
<1>2. ASSUME NEW l, NEW c, NEW w, w = [s EXCEPT !.line = l, !.col = c] PROVE IsScreen(w)
  <2>1. w = [line |-> l, col |-> c, above |-> a]
    BY <1>1, <1>2
  <2> QED BY <2>1 DEF IsScreen
<1>3. ASSUME NEW l, NEW w, w = [s EXCEPT !.line = l] PROVE IsScreen(w)
  <2>1. w = [line |-> l, col |-> d, above |-> a]
    BY <1>1, <1>3
  <2> QED BY <2>1 DEF IsScreen
<1>4. ASSUME NEW c, NEW w, w = [s EXCEPT !.col = c] PROVE IsScreen(w)
  <2>1. w = [line |-> k, col |-> c, above |-> a]
    BY <1>1, <1>4
  <2> QED BY <2>1 DEF IsScreen
<1>5. ASSUME NEW t PROVE IsScreen(write(s, t))
  <2>1. PICK c : c = s.col + Len(t)
    OBVIOUS
  <2>2. \E l : write(s, t) = [s EXCEPT !.line = l, !.col = c]
    BY <2>1 DEF write
  <2> QED BY <1>2, <2>2
<1>6. ASSUME NEW n PROVE IsScreen(moveCursorBack(s, n)) /\ IsScreen(moveCursorForward(s, n))
  BY <1>4 DEF moveCursorBack, moveCursorForward
<1>7. IsScreen(clearLine(s)) /\ IsScreen(clearToEnd(s))
  BY <1>2, <1>3 DEF clearLine, clearToEnd
<1> QED BY <1>5, <1>6, <1>7

\* After a line the cursor is at the head of an empty one.
LEMMA LineWritten ==
  ASSUME NEW s, NEW t PROVE IsAt(writeLine(s, t), <<>>, 0) /\ IsScreen(writeLine(s, t))
BY DEF writeLine, IsAt, IsScreen

\* The prompt and a text.
LEMMA PromptText ==
  ASSUME NEW S, NEW t \in Seq(S), NEW U, U = S \cup {"prompt"}
  PROVE  /\ t \in Seq(U) /\ Prompt \in Seq(U) /\ Len(Prompt) = 1
         /\ Prompt \o t \in Seq(U) /\ Len(Prompt \o t) = 1 + Len(t)
         /\ \A j \in 1..1 + Len(t) : (Prompt \o t)[j] = IF j = 1 THEN "prompt" ELSE t[j - 1]
<1>1. t \in Seq(U)
  BY SeqMonotonic
<1>2. PICK p \in Seq(U) : p = Prompt /\ Len(p) = 1 /\ p[1] = "prompt"
  <2>1. <<"prompt">> \in Seq(U) /\ Len(<<"prompt">>) = 1 /\ <<"prompt">>[1] = "prompt"
    OBVIOUS
  <2> QED BY <2>1, Zenon DEF Prompt
<1>3. Len(t) \in Nat
  BY LenProperties
<1>4. /\ p \o t \in Seq(U) /\ Len(p \o t) = 1 + Len(t)
      /\ \A j \in 1..1 + Len(t) : (p \o t)[j] = IF j <= 1 THEN p[j] ELSE t[j - 1]
  BY <1>1, <1>2, ConcatProperties, SMTT(20)
<1>5. ASSUME NEW j \in 1..1 + Len(t) PROVE (Prompt \o t)[j] = IF j = 1 THEN "prompt" ELSE t[j - 1]
  BY <1>2, <1>3, <1>4
<1> QED BY <1>1, <1>2, <1>4, <1>5

\* redrawLine() shows the text, the cursor in its place.
LEMMA RedrawShows ==
  ASSUME NEW S, NEW e, e.buffer \in Seq(S), e.cursor \in 0..Len(e.buffer), NEW s, IsScreen(s)
  PROVE  Shows(redrawLine(s, e), e.buffer, e.cursor)
<1>1. PICK U : U = S \cup {"prompt"}
  OBVIOUS
<1>2. PICK l : l = Prompt \o e.buffer
  OBVIOUS
<1>3. PICK n \in Nat : n = Len(e.buffer)
  BY LenProperties
<1>4. l \in Seq(U) /\ Len(l) = 1 + n
  BY <1>1, <1>2, <1>3, PromptText
<1>5. IsAt(clearLine(s), <<>>, 0)
  <2>1. PICK w : w = clearLine(s)
    OBVIOUS
  <2>2. DOMAIN s = {"line", "col", "above"} /\ w = [s EXCEPT !.line = <<>>, !.col = 0]
    BY <2>1 DEF IsScreen, clearLine
  <2>3. IsAt(w, <<>>, 0)
    BY <2>2 DEF IsAt
  <2> QED BY <2>1, <2>3
<1>6. <<>> \in Seq(U) /\ Len(<<>>) = 0 /\ <<>> \o l = l
  BY <1>4, EmptySeq, ConcatEmptySeq
<1>7. IsAt(write(clearLine(s), l), l, 1 + n)
  <2>1. IsAt(write(clearLine(s), l), <<>> \o l, 0 + (1 + n))
    BY <1>4, <1>5, <1>6, WriteAtEnd
  <2> QED BY <1>6, <2>1
<1>8. PICK back \in Nat : back = n - e.cursor /\ back < 1 + n /\ (1 + n) - back = 1 + e.cursor
  BY <1>3
<1>9. IsAt(moveCursorBack(write(clearLine(s), l), back), l, 1 + e.cursor)
  BY <1>7, <1>8, BackAt
<1> QED BY <1>2, <1>3, <1>8, <1>9 DEF Shows, redrawLine

\* A character drawn where the cursor is, and what follows it drawn again.
LEMMA InsertShows ==
  ASSUME NEW S, NEW b \in Seq(S), NEW c \in 0..Len(b), NEW k \in S, NEW s, Shows(s, b, c),
         NEW e, e.buffer = InsertAt(b, c + 1, k), e.cursor = c + 1
  PROVE  Shows(moveCursorBack(write(clearToEnd(s), <<k>> \o After(e)), Len(After(e))), e.buffer, e.cursor)
<1>1. PICK n \in Nat : n = Len(b) /\ c \in 0..n
  BY LenProperties
<1>2. PICK B : B = e.buffer
  OBVIOUS
<1>3. /\ B \in Seq(S) /\ Len(B) = n + 1
      /\ \A j \in 1..n + 1 : B[j] = IF j <= c THEN b[j] ELSE IF j = c + 1 THEN k ELSE b[j - 1]
  <2>1. /\ InsertAt(b, c + 1, k) \in Seq(S) /\ Len(InsertAt(b, c + 1, k)) = Len(b) + 1
        /\ \A j \in 1..Len(b) + 1 :
             InsertAt(b, c + 1, k)[j] = IF j <= c THEN b[j] ELSE IF j = c + 1 THEN k ELSE b[j - 1]
    BY InsertedText
  <2>2. B = InsertAt(b, c + 1, k) /\ Len(b) = n
    BY <1>1, <1>2
  <2> QED BY <2>1, <2>2
<1>4. PICK U : U = S \cup {"prompt"}
  OBVIOUS
<1>5. /\ B \in Seq(U) /\ Prompt \o B \in Seq(U) /\ Len(Prompt \o B) = n + 2
      /\ \A j \in 1..n + 2 : (Prompt \o B)[j] = IF j = 1 THEN "prompt" ELSE B[j - 1]
  <2>1. 1 + (n + 1) = n + 2
    OBVIOUS
  <2>2. /\ B \in Seq(U) /\ Prompt \o B \in Seq(U) /\ Len(Prompt \o B) = 1 + Len(B)
        /\ \A j \in 1..1 + Len(B) : (Prompt \o B)[j] = IF j = 1 THEN "prompt" ELSE B[j - 1]
    BY <1>3, <1>4, PromptText
  <2>3. Len(B) = n + 1
    BY <1>3
  <2> QED BY <2>1, <2>2, <2>3
<1>6. PICK l \in Seq(U) : l = Prompt \o b
  BY <1>4, PromptText
<1>7. /\ Len(l) = n + 1 /\ \A j \in 1..n + 1 : l[j] = IF j = 1 THEN "prompt" ELSE b[j - 1]
  <2>1. 1 + n = n + 1
    OBVIOUS
  <2> QED BY <1>1, <1>4, <1>6, <2>1, PromptText
<1>8. c + 1 \in 0..Len(l) /\ 1 + c = c + 1 /\ c \in Nat
  BY <1>1, <1>7
<1>9. PICK p : p = SubSeq(l, 1, c + 1)
  OBVIOUS
<1>10. /\ IsAt(clearToEnd(s), p, c + 1) /\ p \in Seq(U) /\ Len(p) = c + 1
       /\ \A j \in 1..c + 1 : p[j] = l[j]
  BY <1>6, <1>8, <1>9, ClearToEndAt DEF Shows
<1>11. PICK t : t = After(e)
  OBVIOUS
<1>12. t = SubSeq(B, c + 2, n + 1)
  <2>1. (c + 1) + 1 = c + 2
    BY <1>8
  <2> QED BY <1>2, <1>3, <1>11, <2>1 DEF After
<1>13. t \in Seq(U) /\ Len(t) = n - c /\ \A j \in 1..n - c : t[j] = B[j + c + 1]
  <2>1. \A j \in c + 2..n + 1 : B[j] \in U
    <3>1. \A j \in c + 2..n + 1 : j \in 1..Len(B)
      BY <1>1, <1>3
    <3> QED BY <1>5, <3>1, ElementOfSeq
  <2>2. c + 2 \in Int /\ n + 1 \in Int /\ (n + 1) - (c + 2) + 1 = n - c
    BY <1>1
  <2>3. t \in Seq(U) /\ (Len(t) = IF c + 2 <= n + 1 THEN (n + 1) - (c + 2) + 1 ELSE 0)
    BY <1>12, <2>1, <2>2, SubSeqProperties
  <2>4. \A j \in 1..(n + 1) - (c + 2) + 1 : t[j] = B[(c + 2) + j - 1]
    BY <1>12, <2>1, <2>2, SubSeqProperties
  <2>5. Len(t) = n - c
    BY <1>1, <2>2, <2>3
  <2>6. ASSUME NEW j \in 1..n - c PROVE t[j] = B[j + c + 1]
    <3>1. (c + 2) + j - 1 = j + c + 1
      BY <1>1
    <3> QED BY <2>2, <2>4, <3>1
  <2> QED BY <2>3, <2>5, <2>6
<1>14. PICK m : m = <<k>> \o t
  OBVIOUS
<1>15. /\ m \in Seq(U) /\ Len(m) = n - c + 1
       /\ \A j \in 1..n - c + 1 : m[j] = IF j = 1 THEN k ELSE t[j - 1]
  <2>1. PICK q \in Seq(U) : q = <<k>> /\ Len(q) = 1 /\ q[1] = k
    <3>1. k \in U
      BY <1>4
    <3>2. <<k>> \in Seq(U) /\ Len(<<k>>) = 1 /\ <<k>>[1] = k
      BY <3>1
    <3> QED BY <3>2, Zenon
  <2>2. 1 + (n - c) = n - c + 1 /\ n - c \in Nat
    BY <1>1
  <2>3. m \in Seq(U) /\ Len(m) = 1 + (n - c)
    BY <1>13, <1>14, <2>1, ConcatProperties
  <2>4. \A j \in 1..1 + (n - c) : m[j] = IF j <= 1 THEN q[j] ELSE t[j - 1]
    BY <1>13, <1>14, <2>1, ConcatProperties
  <2>5. ASSUME NEW j \in 1..n - c + 1 PROVE m[j] = IF j = 1 THEN k ELSE t[j - 1]
    BY <2>1, <2>2, <2>4
  <2> QED BY <2>2, <2>3, <2>5
<1>16. IsAt(write(clearToEnd(s), m), p \o m, n + 2)
  <2>1. (c + 1) + (n - c + 1) = n + 2
    BY <1>1
  <2>2. IsAt(write(clearToEnd(s), m), p \o m, Len(p) + Len(m))
    BY <1>10, <1>15, WriteAtEnd
  <2> QED BY <1>10, <1>15, <2>1, <2>2
<1>17. p \o m = Prompt \o B
  <2>1. p \o m \in Seq(U) /\ Len(p \o m) = n + 2
    <3>1. (c + 1) + (n - c + 1) = n + 2
      BY <1>1
    <3> QED BY <1>10, <1>15, <3>1, ConcatProperties
  <2>2. \A j \in 1..n + 2 : (p \o m)[j] = IF j <= c + 1 THEN p[j] ELSE m[j - (c + 1)]
    <3>1. (c + 1) + (n - c + 1) = n + 2
      BY <1>1
    <3> QED BY <1>10, <1>15, <3>1, ConcatProperties
  <2>3. ASSUME NEW j \in 1..n + 2 PROVE (p \o m)[j] = (Prompt \o B)[j]
    <3>1. CASE j = 1
      <4>1. j <= c + 1 /\ j \in 1..c + 1 /\ j \in 1..n + 1
        BY <1>1, <3>1
      <4> QED BY <1>5, <1>7, <1>10, <2>2, <3>1, <4>1
    <3>2. CASE j > 1 /\ j <= c + 1
      <4>1. j \in 1..c + 1 /\ j \in 1..n + 1 /\ j - 1 \in 1..n + 1 /\ j - 1 <= c /\ j # 1
        BY <1>1, <3>2
      <4>2. (p \o m)[j] = b[j - 1]
        BY <1>7, <1>10, <2>2, <3>2, <4>1
      <4>3. (Prompt \o B)[j] = b[j - 1]
        BY <1>3, <1>5, <4>1
      <4> QED BY <4>2, <4>3
    <3>3. CASE j = c + 2
      <4>1. j - (c + 1) = 1 /\ 1 \in 1..n - c + 1 /\ ~(j <= c + 1) /\ j # 1 /\ j - 1 = c + 1
            /\ j - 1 \in 1..n + 1 /\ ~(j - 1 <= c)
        BY <1>1, <3>3
      <4>2. (p \o m)[j] = k
        BY <1>15, <2>2, <4>1
      <4>3. (Prompt \o B)[j] = k
        BY <1>3, <1>5, <4>1
      <4> QED BY <4>2, <4>3
    <3>4. CASE j > c + 2
      <4>1. j - (c + 1) \in 1..n - c + 1 /\ j - (c + 1) # 1 /\ ~(j <= c + 1) /\ j # 1
            /\ (j - (c + 1)) - 1 \in 1..n - c /\ ((j - (c + 1)) - 1) + c + 1 = j - 1
        BY <1>1, <3>4
      <4>2. (p \o m)[j] = B[j - 1]
        BY <1>13, <1>15, <2>2, <4>1
      <4>3. (Prompt \o B)[j] = B[j - 1]
        BY <1>5, <4>1
      <4> QED BY <4>2, <4>3
    <3>5. j = 1 \/ (j > 1 /\ j <= c + 1) \/ j = c + 2 \/ j > c + 2
      BY <1>1
    <3> QED BY <3>1, <3>2, <3>3, <3>4, <3>5
  <2> QED BY <1>5, <2>1, <2>3, SeqEqual, ZenonT(30)
<1>18. IsAt(moveCursorBack(write(clearToEnd(s), m), n - c), Prompt \o B, c + 2)
  <2>1. n - c \in Nat /\ n + 2 \in Nat /\ n - c < n + 2 /\ (n + 2) - (n - c) = c + 2
    BY <1>1
  <2> QED BY <1>16, <1>17, <2>1, BackAt
<1> QED
  <2>1. 1 + (c + 1) = c + 2
    BY <1>1
  <2> QED BY <1>2, <1>11, <1>13, <1>14, <1>18, <2>1 DEF Shows

\* A character before the cursor taken away, and what follows it drawn again.
LEMMA RemoveShows ==
  ASSUME NEW S, NEW b \in Seq(S), NEW c \in 1..Len(b), NEW s, Shows(s, b, c),
         NEW e, e.buffer = RemoveAt(b, c), e.cursor = c - 1
  PROVE  Shows(moveCursorBack(write(clearToEnd(moveCursorBack(s, 1)), After(e)), Len(After(e))),
               e.buffer, e.cursor)
<1>1. PICK n \in Nat : n = Len(b) /\ c \in 1..n
  BY LenProperties
<1>2. PICK B : B = e.buffer
  OBVIOUS
<1>3. /\ B \in Seq(S) /\ Len(B) = n - 1
      /\ \A j \in 1..n - 1 : B[j] = IF j < c THEN b[j] ELSE b[j + 1]
  <2>1. /\ RemoveAt(b, c) \in Seq(S) /\ Len(RemoveAt(b, c)) = Len(b) - 1
        /\ \A j \in 1..Len(b) - 1 : RemoveAt(b, c)[j] = IF j < c THEN b[j] ELSE b[j + 1]
    BY RemovedText
  <2>2. B = RemoveAt(b, c) /\ Len(b) = n
    BY <1>1, <1>2
  <2> QED BY <2>1, <2>2
<1>4. PICK U : U = S \cup {"prompt"}
  OBVIOUS
<1>5. /\ B \in Seq(U) /\ Prompt \o B \in Seq(U) /\ Len(Prompt \o B) = n
      /\ \A j \in 1..n : (Prompt \o B)[j] = IF j = 1 THEN "prompt" ELSE B[j - 1]
  <2>1. 1 + (n - 1) = n
    OBVIOUS
  <2>2. /\ B \in Seq(U) /\ Prompt \o B \in Seq(U) /\ Len(Prompt \o B) = 1 + Len(B)
        /\ \A j \in 1..1 + Len(B) : (Prompt \o B)[j] = IF j = 1 THEN "prompt" ELSE B[j - 1]
    BY <1>3, <1>4, PromptText
  <2>3. Len(B) = n - 1
    BY <1>3
  <2> QED BY <2>1, <2>2, <2>3
<1>6. PICK l \in Seq(U) : l = Prompt \o b
  BY <1>4, PromptText
<1>7. /\ Len(l) = n + 1 /\ \A j \in 1..n + 1 : l[j] = IF j = 1 THEN "prompt" ELSE b[j - 1]
  <2>1. 1 + n = n + 1
    OBVIOUS
  <2> QED BY <1>1, <1>4, <1>6, <2>1, PromptText
<1>8. IsAt(moveCursorBack(s, 1), l, c)
  <2>1. 1 < 1 + c /\ (1 + c) - 1 = c /\ 1 + c \in Nat /\ 1 \in Nat
    BY <1>1
  <2> QED BY <1>6, <2>1, BackAt DEF Shows
<1>9. PICK p : p = SubSeq(l, 1, c)
  OBVIOUS
<1>10. PICK s1 : s1 = clearToEnd(moveCursorBack(s, 1))
  OBVIOUS
<1>11. IsAt(s1, p, c) /\ p \in Seq(U) /\ Len(p) = c /\ \A j \in 1..c : p[j] = l[j]
  <2>1. c \in 0..Len(l)
    BY <1>1, <1>7
  <2> QED BY <1>6, <1>8, <1>9, <1>10, <2>1, ClearToEndAt
<1>12. PICK t : t = After(e)
  OBVIOUS
<1>13. t = SubSeq(B, c, n - 1)
  <2>1. (c - 1) + 1 = c
    BY <1>1
  <2> QED BY <1>2, <1>3, <1>12, <2>1 DEF After
<1>14. t \in Seq(U) /\ Len(t) = n - c /\ \A j \in 1..n - c : t[j] = B[j + c - 1]
  <2>1. \A j \in c..n - 1 : B[j] \in U
    <3>1. \A j \in c..n - 1 : j \in 1..Len(B)
      BY <1>1, <1>3
    <3> QED BY <1>5, <3>1, ElementOfSeq
  <2>2. c \in Int /\ n - 1 \in Int /\ (n - 1) - c + 1 = n - c
    BY <1>1
  <2>3. t \in Seq(U) /\ (Len(t) = IF c <= n - 1 THEN (n - 1) - c + 1 ELSE 0)
    BY <1>13, <2>1, <2>2, SubSeqProperties
  <2>4. \A j \in 1..(n - 1) - c + 1 : t[j] = B[c + j - 1]
    BY <1>13, <2>1, <2>2, SubSeqProperties
  <2>5. Len(t) = n - c
    BY <1>1, <2>2, <2>3
  <2>6. ASSUME NEW j \in 1..n - c PROVE t[j] = B[j + c - 1]
    <3>1. c + j - 1 = j + c - 1
      BY <1>1
    <3> QED BY <2>2, <2>4, <3>1
  <2> QED BY <2>3, <2>5, <2>6
<1>15. IsAt(write(s1, t), p \o t, n)
  <2>1. c + (n - c) = n
    BY <1>1
  <2>2. IsAt(write(s1, t), p \o t, Len(p) + Len(t))
    BY <1>11, <1>14, WriteAtEnd
  <2> QED BY <1>11, <1>14, <2>1, <2>2
<1>16. p \o t = Prompt \o B
  <2>1. c + (n - c) = n
    BY <1>1
  <2>2. p \o t \in Seq(U) /\ Len(p \o t) = n
    <3>1. p \o t \in Seq(U) /\ Len(p \o t) = Len(p) + Len(t)
      BY <1>11, <1>14, ConcatProperties
    <3> QED BY <1>11, <1>14, <2>1, <3>1
  <2>3. \A j \in 1..n : (p \o t)[j] = IF j <= c THEN p[j] ELSE t[j - c]
    BY <1>11, <1>14, <2>1, ConcatProperties
  <2>4. ASSUME NEW j \in 1..n PROVE (p \o t)[j] = (Prompt \o B)[j]
    <3>1. CASE j = 1
      <4>1. j <= c /\ j \in 1..c /\ j \in 1..n + 1
        BY <1>1, <3>1
      <4> QED BY <1>5, <1>7, <1>11, <2>3, <3>1, <4>1
    <3>2. CASE j > 1 /\ j <= c
      <4>1. j \in 1..c /\ j \in 1..n + 1 /\ j - 1 \in 1..n - 1 /\ j - 1 < c /\ j # 1
        BY <1>1, <3>2
      <4>2. (p \o t)[j] = b[j - 1]
        BY <1>7, <1>11, <2>3, <3>2, <4>1
      <4>3. (Prompt \o B)[j] = b[j - 1]
        BY <1>3, <1>5, <4>1
      <4> QED BY <4>2, <4>3
    <3>3. CASE j > c
      <4>1. j - c \in 1..n - c /\ ~(j <= c) /\ j # 1 /\ (j - c) + c - 1 = j - 1
        BY <1>1, <3>3
      <4>2. (p \o t)[j] = B[j - 1]
        BY <1>14, <2>3, <4>1
      <4>3. (Prompt \o B)[j] = B[j - 1]
        BY <1>5, <4>1
      <4> QED BY <4>2, <4>3
    <3>4. j = 1 \/ (j > 1 /\ j <= c) \/ j > c
      BY <1>1
    <3> QED BY <3>1, <3>2, <3>3, <3>4
  <2> QED BY <1>5, <2>2, <2>4, SeqEqual, ZenonT(30)
<1>17. IsAt(moveCursorBack(write(s1, t), n - c), Prompt \o B, c)
  <2>1. n - c \in Nat /\ n - c < n /\ n - (n - c) = c
    BY <1>1
  <2> QED BY <1>15, <1>16, <2>1, BackAt
<1> QED
  <2>1. 1 + (c - 1) = c
    BY <1>1
  <2> QED BY <1>2, <1>10, <1>12, <1>14, <1>17, <2>1 DEF Shows

\* A password's stars: one more at the end, one less.
LEMMA StarsText ==
  ASSUME NEW n \in Nat
  PROVE  /\ Stars(n) \in Seq({"*"}) /\ Len(Stars(n)) = n
         /\ Stars(n) \o <<"*">> = Stars(n + 1)
         /\ n > 0 => RemoveAt(Stars(n), n) = Stars(n - 1)
         /\ \A m \in 0..n : SubSeq(Stars(n), 1, m) = Stars(m)
<1>1. ASSUME NEW k \in Nat
      PROVE  Stars(k) \in Seq({"*"}) /\ Len(Stars(k)) = k /\ \A j \in 1..k : Stars(k)[j] = "*"
  BY DEF Stars
<1>2. ASSUME NEW s \in Seq({"*"}), NEW k \in Nat, Len(s) = k PROVE s = Stars(k)
  <2>1. \A j \in 1..k : s[j] = "*"
    BY <1>2, ElementOfSeq
  <2> QED BY <1>1, <1>2, <2>1, SeqEqual
<1>3. Stars(n) \o <<"*">> = Stars(n + 1)
  <2>1. PICK q \in Seq({"*"}) : q = <<"*">> /\ Len(q) = 1
    <3>1. <<"*">> \in Seq({"*"}) /\ Len(<<"*">>) = 1
      OBVIOUS
    <3> QED BY <3>1, Zenon
  <2>2. Stars(n) \o q \in Seq({"*"}) /\ Len(Stars(n) \o q) = Len(Stars(n)) + Len(q)
    BY <1>1, ConcatProperties
  <2>3. Len(Stars(n) \o q) = n + 1 /\ n + 1 \in Nat
    BY <1>1, <2>1, <2>2
  <2>4. Stars(n) \o q = Stars(n + 1)
    BY <1>2, <2>2, <2>3
  <2> QED BY <2>1, <2>4
<1>4. ASSUME n > 0 PROVE RemoveAt(Stars(n), n) = Stars(n - 1)
  <2>1. n \in 1..Len(Stars(n)) /\ n - 1 \in Nat
    BY <1>1, <1>4
  <2>2. RemoveAt(Stars(n), n) \in Seq({"*"}) /\ Len(RemoveAt(Stars(n), n)) = Len(Stars(n)) - 1
    BY <1>1, <2>1, RemovedText
  <2>3. Len(RemoveAt(Stars(n), n)) = n - 1
    BY <1>1, <2>2
  <2> QED BY <1>2, <2>1, <2>2, <2>3
<1>5. ASSUME NEW m \in 0..n PROVE SubSeq(Stars(n), 1, m) = Stars(m)
  <2>1. \A j \in 1..m : Stars(n)[j] \in {"*"}
    BY <1>1
  <2>2. SubSeq(Stars(n), 1, m) \in Seq({"*"})
    BY <2>1, SubSeqProperties
  <2>3. Len(SubSeq(Stars(n), 1, m)) = m
    <3>1. Len(SubSeq(Stars(n), 1, m)) = IF 1 <= m THEN m - 1 + 1 ELSE 0
      BY <2>1, SubSeqProperties
    <3> QED BY <3>1
  <2>4. m \in Nat
    OBVIOUS
  <2> QED BY <1>2, <2>2, <2>3, <2>4
<1> QED BY <1>1, <1>3, <1>4, <1>5

\* A star drawn where the cursor is, behind them all.
LEMMA StarShows ==
  ASSUME NEW n \in Nat, NEW s, Shows(s, Stars(n), n)
  PROVE  Shows(write(s, <<"*">>), Stars(n + 1), n + 1)
<1>1. PICK U : U = {"*", "prompt"}
  OBVIOUS
<1>2. Stars(n) \in Seq(U) /\ Prompt \in Seq(U) /\ Prompt \o Stars(n) \in Seq(U) /\ Len(Prompt \o Stars(n)) = 1 + n
  <2>1. U = {"*"} \cup {"prompt"} /\ Stars(n) \in Seq({"*"}) /\ Len(Stars(n)) = n
    BY <1>1, StarsText
  <2> QED BY <2>1, PromptText
<1>3. PICK q \in Seq(U) : q = <<"*">> /\ Len(q) = 1
  <2>1. <<"*">> \in Seq(U) /\ Len(<<"*">>) = 1
    BY <1>1
  <2> QED BY <2>1, Zenon
<1>4. PICK l \in Seq(U) : l = Prompt \o Stars(n)
  BY <1>2
<1>5. IsAt(write(s, q), l \o q, 1 + (n + 1))
  <2>1. IsAt(s, l, Len(l)) /\ Len(l) = 1 + n
    BY <1>2, <1>4 DEF Shows
  <2>2. IsAt(write(s, q), l \o q, Len(l) + Len(q))
    BY <2>1, WriteAtEnd
  <2>3. Len(l) + Len(q) = 1 + (n + 1)
    BY <1>3, <2>1
  <2> QED BY <2>2, <2>3
<1>6. l \o q = Prompt \o Stars(n + 1)
  <2>1. l \o q = Prompt \o (Stars(n) \o q)
    BY <1>2, <1>4, ConcatAssociative, SMTT(20)
  <2>2. Stars(n) \o q = Stars(n + 1)
    BY <1>3, StarsText
  <2> QED BY <2>1, <2>2
<1> QED BY <1>3, <1>5, <1>6 DEF Shows

\* The last star taken away.
LEMMA StarGoes ==
  ASSUME NEW S, NEW b \in Seq(S), NEW n \in Nat, n > 0, n = Len(b), NEW s,
         NEW e, e.buffer = RemoveAt(b, n), e.cursor = n - 1, NEW w,
         w = moveCursorBack(write(clearToEnd(moveCursorBack(s, 1)), After(e)), Len(After(e)))
  PROVE  /\ Shows(s, Stars(n), n) => Shows(w, Stars(n - 1), n - 1)
         /\ \A m \in 0..n : IsAt(s, Stars(m), m) => \E k \in 0..n - 1 : IsAt(w, Stars(k), k)
<1>1. n \in 1..Len(b) /\ Len(RemoveAt(b, n)) = n - 1
  <2>1. n \in 1..Len(b)
    OBVIOUS
  <2> QED BY <2>1, RemovedText
<1>2. After(e) = <<>> /\ Len(<<>>) = 0
  <2>1. After(e) = SubSeq(RemoveAt(b, n), n, n - 1)
    <3>1. (n - 1) + 1 = n
      OBVIOUS
    <3> QED BY <1>1, <3>1 DEF After
  <2>2. n - 1 < n /\ n \in Int /\ n - 1 \in Int
    OBVIOUS
  <2>3. SubSeq(RemoveAt(b, n), n, n - 1) = <<>>
    BY <2>2, SubSeqEmpty
  <2> QED BY <2>1, <2>3, EmptySeq
<1>3. ASSUME Shows(s, Stars(n), n) PROVE Shows(w, Stars(n - 1), n - 1)
  <2>1. /\ Stars(n) \in Seq({"*"}) /\ Len(Stars(n)) = n /\ n \in 1..Len(Stars(n))
        /\ RemoveAt(Stars(n), n) = Stars(n - 1) /\ Len(Stars(n - 1)) = n - 1
    <3>1. PICK k \in Nat : k = n - 1
      OBVIOUS
    <3>2. Stars(n) \in Seq({"*"}) /\ Len(Stars(n)) = n /\ RemoveAt(Stars(n), n) = Stars(n - 1)
      BY StarsText
    <3>3. Len(Stars(k)) = k
      BY StarsText
    <3>4. n \in 1..n
      OBVIOUS
    <3> QED BY <3>1, <3>2, <3>3, <3>4
  <2>2. PICK d : d.buffer = Stars(n - 1) /\ d.cursor = n - 1
    <3>1. [buffer |-> Stars(n - 1), cursor |-> n - 1].buffer = Stars(n - 1)
      OBVIOUS
    <3>2. [buffer |-> Stars(n - 1), cursor |-> n - 1].cursor = n - 1
      OBVIOUS
    <3> QED BY <3>1, <3>2
  <2>3. After(d) = <<>>
    <3>1. (n - 1) + 1 = n /\ n - 1 < n /\ n \in Int /\ n - 1 \in Int
      OBVIOUS
    <3>2. SubSeq(Stars(n - 1), n, n - 1) = <<>>
      BY <3>1, SubSeqEmpty
    <3> QED BY <2>1, <2>2, <3>1, <3>2 DEF After
  <2>4. Shows(moveCursorBack(write(clearToEnd(moveCursorBack(s, 1)), After(d)), Len(After(d))),
              d.buffer, d.cursor)
    BY <1>3, <2>1, <2>2, RemoveShows
  <2> QED BY <1>2, <2>2, <2>3, <2>4
<1>4. ASSUME NEW m \in 0..n, IsAt(s, Stars(m), m) PROVE \E k \in 0..n - 1 : IsAt(w, Stars(k), k)
  <2>1. PICK k : k = IF 1 < m THEN m - 1 ELSE 0
    OBVIOUS
  <2>2. k \in 0..n - 1 /\ k \in 0..m /\ k \in Nat /\ m \in Nat /\ 1 \in Nat /\ 0 \in Nat
    BY <2>1
  <2>3. IsAt(moveCursorBack(s, 1), Stars(m), k)
    BY <1>4, <2>1, <2>2, BackAt
  <2>4. /\ Stars(m) \in Seq({"*"}) /\ Len(Stars(m)) = m /\ SubSeq(Stars(m), 1, k) = Stars(k)
        /\ Stars(k) \in Seq({"*"}) /\ Len(Stars(k)) = k
    BY <2>2, StarsText
  <2>5. PICK v : v = clearToEnd(moveCursorBack(s, 1))
    OBVIOUS
  <2>6. IsAt(v, Stars(k), k)
    <3>1. k \in 0..Len(Stars(m)) /\ Stars(m) \in Seq({"*"})
      BY <2>2, <2>4
    <3>2. IsAt(v, SubSeq(Stars(m), 1, k), k)
      BY <2>3, <2>5, <3>1, ClearToEndAt
    <3> QED BY <2>4, <3>2
  <2>7. IsAt(write(v, <<>>), Stars(k), k)
    <3>1. <<>> \in Seq({"*"}) /\ Stars(k) \o <<>> = Stars(k) /\ k + 0 = k
      BY <2>2, <2>4, EmptySeq, ConcatEmptySeq
    <3>2. IsAt(write(v, <<>>), Stars(k) \o <<>>, Len(Stars(k)) + Len(<<>>))
      BY <2>4, <2>6, <3>1, WriteAtEnd
    <3> QED BY <1>2, <2>4, <3>1, <3>2
  <2>8. IsAt(moveCursorBack(write(v, <<>>), 0), Stars(k), k)
    <3>1. (IF 0 < k THEN k - 0 ELSE 0) = k
      BY <2>2
    <3> QED BY <2>2, <2>7, <3>1, BackAt
  <2> QED BY <1>2, <2>2, <2>5, <2>8
<1> QED BY <1>3, <1>4

-----------------------------------------------------------------------------
(* The screen, step by step *)

\* What the screen shows in each place: nothing at the head of the loop, and
\* the prompt with the text or the stars where something is edited.  A screen
\* cleared under a password shows the stars drawn since.
ShownAt(place, e) == IF place = "password" THEN Stars(Len(e.buffer)) ELSE e.buffer
ScreenAt(place, e, b, s) ==
  /\ place = "prompt" => IsAt(s, <<>>, 0)
  /\ place \in Editing => IsScreen(s)
  /\ place \in Editing /\ ~b => Shows(s, ShownAt(place, e), e.cursor)
  /\ place = "password" => /\ e.cursor = Len(e.buffer)
                           /\ b => \E n \in 0..Len(e.buffer) : IsAt(s, Stars(n), n)
Drawn == ScreenAt(at, edit, blank, screen)

\* No password, no stars.
LEMMA NoStars == Stars(0) = <<>>
<1>1. 1..0 = {}
  OBVIOUS
<1>2. Stars(0) \in Seq({"*"}) /\ Len(Stars(0)) = 0
  BY StarsText
<1> QED BY <1>2, EmptySeq

\* A screen that was cleared shows no star.
LEMMA FreshAt ==
  ASSUME NEW place \in Editing, NEW e, Len(e.buffer) \in Nat,
         place = "password" => e.cursor = Len(e.buffer)
  PROVE  ScreenAt(place, e, TRUE, Fresh)
<1>1. IsAt(Fresh, Stars(0), 0) /\ IsScreen(Fresh)
  BY NoStars DEF Fresh, IsAt, IsScreen
<1>2. 0 \in 0..Len(e.buffer)
  BY LenProperties
<1>3. place # "prompt"
  BY DEF Editing
<1> QED BY <1>1, <1>2, <1>3 DEF ScreenAt

\* The screen at the start is empty.
LEMMA InitDrawn == Init => Drawn
BY DEF Init, Drawn, ScreenAt, Fresh, IsAt, Editing

\* The screen as it was.
LEMMA SameDrawn == ASSUME Drawn, UNCHANGED <<at, edit, blank, screen>> PROVE Drawn'
BY DEF Drawn

\* No text is edited, and the loop is not at its head.
LEMMA Elsewhere == ASSUME at' \notin Editing, at' # "prompt" PROVE Drawn'
BY DEF Drawn, ScreenAt, Editing

\* Keys read draw nothing, but ^L clears the screen.
LEMMA KeyboardDrawn ==
  ASSUME Typed, Drawn, Press \/ Paste \/ ReadByte \/ TimeOut \/ Ignore \/ enqueueLog
  PROVE  Drawn'
<1>1. CASE Press \/ Paste \/ Ignore \/ enqueueLog
  BY <1>1, SameDrawn DEF Press, Paste, Sends, Ignore, Stays, enqueueLog
<1>2. ASSUME NEW s, Returns(s), UNCHANGED <<at, edit>>, at \in Editing PROVE Drawn'
  <2>1. CASE s = <<"FF">>
    <3>1. screen' = Fresh /\ blank' = TRUE
      BY <1>2, <2>1 DEF Returns, clearScreen, Typed, FlagsOK
    <3>2. Len(edit.buffer) \in Nat
      BY LenProperties DEF Typed, TextOK
    <3>3. at = "password" => edit.cursor = Len(edit.buffer)
      BY DEF Drawn, ScreenAt
    <3>4. ScreenAt(at, edit, TRUE, Fresh)
      BY <1>2, <3>2, <3>3, FreshAt
    <3> QED BY <1>2, <3>1, <3>4 DEF Drawn
  <2>2. CASE s # <<"FF">>
    <3>1. screen' = screen /\ blank' = blank
      BY <1>2, <2>2 DEF Returns, Typed, FlagsOK
    <3> QED BY <1>2, <3>1, SameDrawn
  <2> QED BY <2>1, <2>2
<1>3. CASE ReadByte
  <2>1. at \in Editing /\ UNCHANGED <<at, edit>>
    BY <1>3 DEF ReadByte
  <2>2. UNCHANGED <<screen, blank>> \/ \E s : Returns(s)
    BY <1>3 DEF ReadByte
  <2> QED BY <1>2, <2>1, <2>2, SameDrawn
<1>4. CASE TimeOut
  BY <1>2, <1>4 DEF TimeOut
<1> QED BY <1>1, <1>3, <1>4

\* The line drawn anew.
LEMMA RedrawsDrawn ==
  ASSUME NEW s, NEW e, IsScreen(s), Redraws(s, e), NEW h, TextOK(e, h), at' = "line"
  PROVE  Drawn'
<1>1. edit' = e /\ blank' = FALSE /\ screen' = redrawLine(s, e)
  BY DEF Redraws, Edits
<1>2. Shows(redrawLine(s, e), e.buffer, e.cursor)
  BY RedrawShows DEF TextOK
<1>3. IsScreen(redrawLine(s, e))
  BY <1>2, AtScreen DEF Shows
<1>4. ScreenAt("line", e, FALSE, redrawLine(s, e))
  BY <1>2, <1>3 DEF ScreenAt, ShownAt
<1> QED BY <1>1, <1>4 DEF Drawn

\* Part of the line drawn anew, at "text"; the screen may have been cleared.
LEMMA PartDrawn ==
  ASSUME NEW e, NEW w, IsScreen(w), edit' = e, screen' = w, at' \in {"line", "text"}, blank' = blank,
         ~blank => Shows(w, e.buffer, e.cursor)
  PROVE  Drawn'
<1>1. ScreenAt(at', e, blank, w)
  BY DEF ScreenAt, ShownAt
<1> QED BY <1>1 DEF Drawn

\* What a key does to the screen, at "line".
LEMMA LineScreen ==
  ASSUME DraftOK, Typed, Typed', Drawn, at = "line", Stays, NEW e, NEW s, Redraws(s, e),
         s = screen \/ \E r, t : s = writeLine(r, t)
  PROVE  Drawn'
<1>1. IsScreen(s)
  <2>1. IsScreen(screen)
    BY DEF Drawn, ScreenAt, Editing
  <2> QED BY <2>1, LineWritten
<1>2. edit' = e /\ at' = "line"
  BY DEF Redraws, Edits, Stays
<1>3. TextOK(e, history')
  BY <1>2 DEF Typed, TextOK
<1> QED BY <1>1, <1>2, <1>3, RedrawsDrawn

\* Keys whose line is drawn anew.
LEMMA HistoryKeysDrawn ==
  ASSUME DraftOK, Typed, Typed', Drawn, Older \/ Newer \/ Complete \/ Delete
  PROVE  Drawn'
<1>1. at = "line" /\ Stays
  BY DEF Older, Newer, Complete, Delete
<1>2. \E e, s : (s = screen \/ \E r, t : s = writeLine(r, t)) /\ Redraws(s, e)
  <2>1. CASE Older \/ Newer \/ Delete
    BY <2>1 DEF Older, Newer, Delete
  <2>2. CASE Complete
    <3>1. PICK e : e = handleTab(edit)
      OBVIOUS
    <3>2. PICK s : s = IF e = edit /\ \E c \in completions(menu) : IsPrefix(e.buffer, c)
                       THEN writeLine(writeLine(screen, <<>>), <<"list">>) ELSE screen
      OBVIOUS
    <3>3. Redraws(s, e)
      BY <2>2, <3>1, <3>2, Zenon DEF Complete
    <3>4. s = screen \/ \E r, t : s = writeLine(r, t)
      <4>1. s = screen \/ s = writeLine(writeLine(screen, <<>>), <<"list">>)
        BY <3>2
      <4> QED BY <4>1, <3>2
    <3> QED BY <3>3, <3>4
  <2> QED BY <2>1, <2>2
<1> QED BY <1>1, <1>2, LineScreen

\* One star more; one star less.
LEMMA StarsDrawn ==
  ASSUME NEW n \in Nat, NEW s, IsAt(s, Stars(n), n)
  PROVE  IsAt(write(s, <<"*">>), Stars(n + 1), n + 1)
<1>1. PICK q \in Seq({"*"}) : q = <<"*">> /\ Len(q) = 1
  <2>1. <<"*">> \in Seq({"*"}) /\ Len(<<"*">>) = 1
    OBVIOUS
  <2> QED BY <2>1, Zenon
<1>2. Stars(n) \in Seq({"*"}) /\ Len(Stars(n)) = n /\ Stars(n) \o <<"*">> = Stars(n + 1)
  BY StarsText
<1>3. IsAt(s, Stars(n), Len(Stars(n)))
  BY <1>2
<1>4. IsAt(write(s, q), Stars(n) \o q, Len(Stars(n)) + Len(q))
  BY <1>2, <1>3, WriteAtEnd
<1> QED BY <1>1, <1>2, <1>4

\* A character typed: the line drawn anew, its end, or a star.
LEMMA InsertDrawn == ASSUME DraftOK, Typed, Typed', Drawn, Insert PROVE Drawn'
<1>1. PICK S : edit.buffer \in Seq(S)
  BY DEF Typed, TextOK
<1>2. PICK n \in Nat : n = Len(edit.buffer) /\ edit.cursor \in 0..n
  BY <1>1, LenProperties DEF Typed, TextOK
<1>3. PICK U : U = S \cup {event.ch}
  OBVIOUS
<1>4. edit.buffer \in Seq(U) /\ event.ch \in U
  BY <1>1, <1>3, SeqMonotonic
<1>5. PICK e : e = Inserted(edit, event.ch)
  OBVIOUS
<1>6. e.buffer = InsertAt(edit.buffer, edit.cursor + 1, event.ch) /\ e.cursor = edit.cursor + 1
  BY <1>5 DEF Inserted, DraftOK
<1>7. Len(e.buffer) = n + 1
  BY <1>2, <1>4, <1>6, InsertedText
<1>8. IsScreen(screen) /\ at' = at /\ Stays
  BY DEF Drawn, ScreenAt, Insert, Stays
<1>9. CASE at = "line" /\ Redraws(screen, e)
  BY <1>8, <1>9, LineScreen
<1>10. CASE /\ at = "text" /\ edit' = e /\ blank' = blank
            /\ screen' = moveCursorBack(write(clearToEnd(screen), <<event.ch>> \o After(e)), Len(After(e)))
  <2>1. PICK w : w = moveCursorBack(write(clearToEnd(screen), <<event.ch>> \o After(e)), Len(After(e)))
    OBVIOUS
  <2>2. IsScreen(w)
    BY <1>8, <2>1, ScreensStay
  <2>3. ASSUME ~blank PROVE Shows(w, e.buffer, e.cursor)
    <3>1. Shows(screen, edit.buffer, edit.cursor) /\ edit.cursor \in 0..Len(edit.buffer)
      BY <1>2, <1>10, <2>3 DEF Drawn, ScreenAt, ShownAt, Editing
    <3> QED BY <1>4, <1>6, <2>1, <3>1, InsertShows
  <2> QED BY <1>8, <1>10, <2>1, <2>2, <2>3, PartDrawn
<1>11. CASE at = "password" /\ edit' = e /\ blank' = blank /\ screen' = write(screen, <<"*">>)
  <2>1. edit.cursor = n /\ e.cursor = n + 1 /\ Len(e.buffer) = n + 1
    BY <1>2, <1>6, <1>7, <1>11 DEF Drawn, ScreenAt
  <2>2. IsScreen(write(screen, <<"*">>))
    BY <1>8, ScreensStay
  <2>3. ASSUME ~blank PROVE Shows(write(screen, <<"*">>), Stars(n + 1), n + 1)
    <3>1. Shows(screen, Stars(n), n)
      BY <1>2, <1>11, <2>1, <2>3 DEF Drawn, ScreenAt, ShownAt, Editing
    <3> QED BY <3>1, StarShows
  <2>4. ASSUME blank PROVE \E m \in 0..n + 1 : IsAt(write(screen, <<"*">>), Stars(m), m)
    <3>1. PICK m \in 0..n : IsAt(screen, Stars(m), m)
      BY <1>2, <1>11, <2>4 DEF Drawn, ScreenAt
    <3>2. m \in Nat /\ m + 1 \in 0..n + 1
      OBVIOUS
    <3> QED BY <3>1, <3>2, StarsDrawn
  <2>5. ScreenAt("password", e, blank, write(screen, <<"*">>))
    BY <2>1, <2>2, <2>3, <2>4 DEF ScreenAt, ShownAt
  <2> QED BY <1>8, <1>11, <2>5 DEF Drawn
<1> QED
  <2>1. \/ at = "line" /\ Redraws(screen, e)
        \/ /\ at = "text" /\ Edits(e) /\ blank' = blank
           /\ screen' = moveCursorBack(write(clearToEnd(screen), <<event.ch>> \o After(e)), Len(After(e)))
        \/ at = "password" /\ Edits(e) /\ screen' = write(screen, <<"*">>) /\ blank' = blank
    BY <1>5 DEF Insert
  <2> QED BY <1>9, <1>10, <1>11, <2>1 DEF Edits

\* A character taken away: the line drawn anew, its end, or a star less.
LEMMA BackspaceDrawn == ASSUME DraftOK, Typed, Typed', Drawn, Backspace PROVE Drawn'
<1>1. PICK S : edit.buffer \in Seq(S)
  BY DEF Typed, TextOK
<1>2. PICK n \in Nat : n = Len(edit.buffer) /\ edit.cursor \in 1..n
  <2>1. edit.cursor > 0
    BY DEF Backspace
  <2> QED BY <1>1, <2>1, LenProperties DEF Typed, TextOK
<1>3. PICK e : e = [Removed(edit, edit.cursor) EXCEPT !.cursor = @ - 1]
  OBVIOUS
<1>4. e.buffer = RemoveAt(edit.buffer, edit.cursor) /\ e.cursor = edit.cursor - 1
  BY <1>3 DEF Removed, DraftOK
<1>5. edit.cursor \in 1..Len(edit.buffer)
  BY <1>2
<1>6. Len(e.buffer) = n - 1
  BY <1>1, <1>2, <1>4, <1>5, RemovedText
<1>7. IsScreen(screen) /\ at' = at /\ Stays
  BY DEF Drawn, ScreenAt, Backspace, Stays
<1>8. PICK w : w = moveCursorBack(write(clearToEnd(moveCursorBack(screen, 1)), After(e)), Len(After(e)))
  OBVIOUS
<1>9. IsScreen(w)
  BY <1>7, <1>8, ScreensStay
<1>10. CASE at = "line" /\ Redraws(screen, e)
  BY <1>7, <1>10, LineScreen
<1>11. CASE at = "text" /\ edit' = e /\ blank' = blank /\ screen' = w
  <2>1. ASSUME ~blank PROVE Shows(w, e.buffer, e.cursor)
    <3>1. Shows(screen, edit.buffer, edit.cursor)
      BY <1>11, <2>1 DEF Drawn, ScreenAt, ShownAt, Editing
    <3> QED BY <1>1, <1>4, <1>5, <1>8, <3>1, RemoveShows
  <2> QED BY <1>7, <1>9, <1>11, <2>1, PartDrawn
<1>12. CASE at = "password" /\ edit' = e /\ blank' = blank /\ screen' = w
  <2>1. edit.cursor = n /\ n > 0 /\ e.cursor = n - 1 /\ Len(e.buffer) = n - 1
        /\ e.buffer = RemoveAt(edit.buffer, n)
    BY <1>2, <1>4, <1>6, <1>12 DEF Drawn, ScreenAt
  <2>2. /\ Shows(screen, Stars(n), n) => Shows(w, Stars(n - 1), n - 1)
        /\ \A m \in 0..n : IsAt(screen, Stars(m), m) => \E k \in 0..n - 1 : IsAt(w, Stars(k), k)
    BY <1>1, <1>2, <1>8, <2>1, StarGoes
  <2>3. ASSUME ~blank PROVE Shows(w, Stars(n - 1), n - 1)
    <3>1. Shows(screen, Stars(n), n)
      BY <1>2, <1>12, <2>1, <2>3 DEF Drawn, ScreenAt, ShownAt, Editing
    <3> QED BY <2>2, <3>1
  <2>4. ASSUME blank PROVE \E k \in 0..n - 1 : IsAt(w, Stars(k), k)
    <3>1. PICK m \in 0..n : IsAt(screen, Stars(m), m)
      BY <1>2, <1>12, <2>4 DEF Drawn, ScreenAt
    <3> QED BY <2>2, <3>1
  <2>5. ScreenAt("password", e, blank, w)
    BY <1>9, <2>1, <2>3, <2>4 DEF ScreenAt, ShownAt
  <2> QED BY <1>7, <1>12, <2>5 DEF Drawn
<1> QED
  <2>1. \/ at = "line" /\ Redraws(screen, e)
        \/ at \in {"text", "password"} /\ Edits(e) /\ blank' = blank /\ screen' = w
    BY <1>3, <1>8 DEF Backspace
  <2> QED BY <1>10, <1>11, <1>12, <2>1 DEF Edits

\* The cursor moved where the screen is not drawn again.
LEMMA MoveDrawn == ASSUME DraftOK, Typed, Drawn, Move PROVE Drawn'
<1>1. PICK S : edit.buffer \in Seq(S)
  BY DEF Typed, TextOK
<1>2. PICK n \in Nat, c \in Nat : n = Len(edit.buffer) /\ c = edit.cursor /\ c \in 0..n
  BY <1>1, LenProperties DEF Typed, TextOK
<1>3. at \in {"line", "text"} /\ \E t \in 0..n : Moves(c, t)
  <2>1. c > 0 => c - 1 \in 0..n /\ 0 \in 0..n
    BY <1>2
  <2>2. c < n => c + 1 \in 0..n /\ n \in 0..n
    BY <1>2
  <2> QED BY <1>2, <2>1, <2>2 DEF Move
<1>4. PICK t \in 0..n : Moves(c, t)
  BY <1>3
<1>5. PICK e : e = [edit EXCEPT !.cursor = t]
  OBVIOUS
<1>6. e.buffer = edit.buffer /\ e.cursor = t
  BY <1>5 DEF DraftOK
<1>7. PICK w : w = IF t < c THEN moveCursorBack(screen, c - t) ELSE moveCursorForward(screen, t - c)
  OBVIOUS
<1>8. edit' = e /\ screen' = w /\ blank' = blank
  BY <1>4, <1>5, <1>7 DEF Moves, Edits
<1>9. at' = at
  BY DEF Move, Stays
<1>10. IsScreen(w)
  <2>1. IsScreen(screen)
    BY <1>3 DEF Drawn, ScreenAt, Editing
  <2> QED BY <1>7, <2>1, ScreensStay
<1>11. ASSUME ~blank PROVE Shows(w, e.buffer, e.cursor)
  <2>1. PICK l : l = Prompt \o edit.buffer
    OBVIOUS
  <2>2. IsAt(screen, l, 1 + c)
    BY <1>2, <1>3, <1>11, <2>1 DEF Drawn, ScreenAt, ShownAt, Editing, Shows
  <2>3. CASE t < c
    <3>1. c - t \in Nat /\ 1 + c \in Nat /\ c - t < 1 + c /\ (1 + c) - (c - t) = 1 + t
      BY <2>3
    <3>2. IsAt(w, l, 1 + t)
      BY <1>7, <2>2, <2>3, <3>1, BackAt
    <3> QED BY <1>6, <2>1, <3>2 DEF Shows
  <2>4. CASE ~(t < c)
    <3>1. t - c \in Nat /\ 1 + c \in Nat /\ (1 + c) + (t - c) = 1 + t
      BY <2>4
    <3>2. IsAt(w, l, (1 + c) + (t - c))
      BY <1>7, <2>2, <2>4, <3>1, ForwardAt
    <3> QED BY <1>6, <2>1, <3>1, <3>2 DEF Shows
  <2> QED BY <2>3, <2>4
<1> QED BY <1>3, <1>8, <1>9, <1>10, <1>11, PartDrawn

-----------------------------------------------------------------------------
(* The screen around the lines *)

\* The prompt written at the head of a line.
LEMMA PromptShows ==
  ASSUME NEW s, IsAt(s, <<>>, 0)
  PROVE  /\ IsScreen(write(s, Prompt)) /\ Shows(write(s, Prompt), <<>>, 0) /\ Shows(write(s, Prompt), Stars(0), 0)
         /\ write(s, Prompt).above = s.above
<1>1. PICK p \in Seq({"prompt"}) : p = Prompt /\ Len(p) = 1 /\ <<>> \o p = p \o <<>>
  <2>1. <<"prompt">> \in Seq({"prompt"}) /\ Len(<<"prompt">>) = 1
    OBVIOUS
  <2>2. <<>> \o <<"prompt">> = <<"prompt">> \o <<>>
    BY <2>1, ConcatEmptySeq
  <2> QED BY <2>1, <2>2, Zenon DEF Prompt
<1>2. PICK z \in Seq({"prompt"}) : z = <<>> /\ Len(z) = 0
  BY EmptySeq
<1>3. IsAt(s, z, Len(z))
  BY <1>2
<1>4. IsAt(write(s, p), z \o p, Len(z) + Len(p)) /\ write(s, p).above = s.above
  BY <1>3, WriteAtEnd
<1>5. Len(z) + Len(p) = 1 + 0
  BY <1>1, <1>2
<1>6. Shows(write(s, Prompt), <<>>, 0)
  BY <1>1, <1>2, <1>4, <1>5 DEF Shows
<1>7. IsScreen(write(s, Prompt))
  BY <1>6, AtScreen DEF Shows
<1> QED BY <1>1, <1>4, <1>6, <1>7, NoStars

\* A command that is over leaves the head of an empty line.
LEMMA ReturnedDrawn == ASSUME NEW s, IsAt(s, <<>>, 0), Returned(s) PROVE Drawn'
BY DEF Returned, Drawn, ScreenAt, Editing

\* A prompt begins where nothing is typed.
LEMMA BegunDrawn ==
  ASSUME NEW s, IsAt(s, <<>>, 0), screen' = write(s, Prompt), at' \in Editing, edit' = Empty,
         blank' = FALSE
  PROVE  Drawn'
<1>1. PICK w : w = write(s, Prompt)
  OBVIOUS
<1>2. IsScreen(w) /\ Shows(w, <<>>, 0) /\ Shows(w, Stars(0), 0)
  BY <1>1, PromptShows
<1>3. Empty.buffer = <<>> /\ Empty.cursor = 0 /\ Len(<<>>) = 0
  BY DEF Empty
<1>4. ASSUME NEW place \in Editing PROVE ScreenAt(place, Empty, FALSE, w)
  <2>1. Shows(w, ShownAt(place, Empty), Empty.cursor)
    BY <1>2, <1>3 DEF ShownAt
  <2> QED BY <1>2, <1>3, <2>1 DEF ScreenAt, Editing
<1> QED BY <1>1, <1>4 DEF Drawn

\* The next prompt of a command begins at the head of an empty line.
LEMMA GoesOnDrawn == ASSUME NEW j, NEW s, IsAt(s, <<>>, 0), GoesOn(j, s) PROVE Drawn'
<1>1. CASE j.asks # <<>>
  <2>1. at' \in {"password", "text"} /\ screen' = write(s, Prompt) /\ edit' = Empty /\ blank' = FALSE
    BY <1>1 DEF GoesOn
  <2> QED BY <2>1, BegunDrawn DEF Editing
<1>2. CASE j.asks = <<>>
  BY <1>2, Elsewhere DEF GoesOn, Editing
<1> QED BY <1>1, <1>2

\* So does all that a line sent leads to.
LEMMA SubmitsDrawn == ASSUME NEW line, NEW s, IsAt(s, <<>>, 0), Submits(line, s) PROVE Drawn'
<1>1. CASE Returned(s)
  BY <1>1, ReturnedDrawn
<1>2. CASE Dispatch(line, s)
  <2>1. Returned(s) \/ (\E j : GoesOn(j, s)) \/ at' = "ended"
    BY <1>2 DEF Dispatch, Execute
  <2> QED BY <2>1, ReturnedDrawn, GoesOnDrawn, Elsewhere DEF Editing
<1> QED BY <1>1, <1>2 DEF Submits

\* A line is begun, sent, or given up.
LEMMA LinesDrawn ==
  ASSUME TerminalOK, Drawn, NextLine \/ Enter \/ Interrupt \/ Answer
  PROVE  Drawn'
<1>1. CASE NextLine
  <2>1. PICK r : r = IF logs > 0 THEN writeLine(screen, <<"log">>) ELSE screen
    OBVIOUS
  <2>2. IsAt(r, <<>>, 0)
    <3>1. IsAt(screen, <<>>, 0)
      BY <1>1 DEF NextLine, Drawn, ScreenAt
    <3> QED BY <2>1, <3>1, LineWritten
  <2>3. PICK s : s = [r EXCEPT !.above = <<>>]
    OBVIOUS
  <2>4. IsAt(s, <<>>, 0)
    <3>1. PICK a : r = [line |-> <<>>, col |-> 0, above |-> a]
      BY <2>2 DEF IsAt
    <3>2. s = [line |-> <<>>, col |-> 0, above |-> <<>>]
      BY <2>3, <3>1
    <3> QED BY <3>2 DEF IsAt
  <2>5. at' = "line" /\ edit' = Empty /\ screen' = write(s, Prompt) /\ blank' = FALSE
    BY <1>1, <2>1, <2>3 DEF NextLine
  <2> QED BY <2>4, <2>5, BegunDrawn DEF Editing
<1>2. CASE Enter \/ Interrupt
  <2>1. \E line : Submits(line, writeLine(screen, <<>>))
    BY <1>2 DEF Enter, Interrupt
  <2> QED BY <2>1, LineWritten, SubmitsDrawn
<1>3. CASE Answer
  <2>1. PICK s : s = writeLine(Wiped, <<>>)
    OBVIOUS
  <2>2. Returned(s) \/ \E j : GoesOn(j, s)
    BY <1>3, <2>1 DEF Answer
  <2> QED BY <2>1, <2>2, LineWritten, ReturnedDrawn, GoesOnDrawn
<1> QED BY <1>1, <1>2, <1>3

\* The spinner draws where nothing is edited, and leaves an empty line.
LEMMA SpinnerDrawn ==
  ASSUME TerminalOK, animationLoop \/ Answered \/ Stopped \/ Throws \/ Destroy \/ Destroyed
  PROVE  Drawn'
<1>1. CASE Stopped
  <2>1. at' = "prompt" /\ IsAt(screen', <<>>, 0)
    BY <1>1, LineWritten DEF Stopped
  <2> QED BY <2>1 DEF Drawn, ScreenAt, Editing
<1>2. CASE animationLoop
  <2>1. spinner.thread # "none" /\ at' = at
    BY <1>2 DEF animationLoop
  <2>2. at \notin Editing /\ at # "prompt"
    BY <2>1 DEF TerminalOK, Idle
  <2> QED BY <2>1, <2>2, Elsewhere
<1>3. CASE Answered \/ Throws \/ Destroy \/ Destroyed
  <2>1. at' \in {"stop", "ended", "leaves", "gone"}
    BY <1>3 DEF Answered, Throws, Destroy, Destroyed
  <2> QED BY <2>1, Elsewhere DEF Editing
<1> QED BY <1>1, <1>2, <1>3

\* A step keeps what the screen shows, while the log has its sink.
LEMMA NextDrawn == TerminalOK /\ DraftOK /\ Typed /\ (sink => Drawn) /\ [Next]_vars => (sink' => Drawn')
<1> SUFFICES ASSUME TerminalOK, DraftOK, Typed, sink => Drawn, [Next]_vars, sink' PROVE Drawn'
  OBVIOUS
<1>1. Drawn /\ Typed'
  BY SinkStays, NextTyped
<1>2. CASE UNCHANGED console
  BY <1>1, <1>2, SameDrawn DEF console
<1>3. CASE ~UNCHANGED console
  <2>1. ~output /\ ~setSink
    BY SinkStays DEF output, setSink
  <2> QED BY <1>1, <1>3, <2>1, KeyboardDrawn, InsertDrawn, BackspaceDrawn, MoveDrawn, HistoryKeysDrawn,
             LinesDrawn, SpinnerDrawn DEF Next, vars
<1> QED BY <1>2, <1>3

\* So the screen shows it as long as the sink is there.
LEMMA DrawnAlways == Spec => [](TerminalOK /\ DraftOK /\ Typed /\ (sink => Drawn))
<1>1. Init => TerminalOK /\ DraftOK /\ Typed /\ (sink => Drawn)
  BY InitInv, InitTypes, InitDrawn
<1>2. TerminalOK /\ DraftOK /\ Typed /\ (sink => Drawn) /\ [Next]_vars =>
        (TerminalOK /\ DraftOK /\ Typed /\ (sink => Drawn))'
  BY NextInv, NextTyped, NextDrawn
<1> QED BY <1>1, <1>2, PTL DEF Spec

\* For a line of any length, after any keys: what LineEditor redraws whole,
\* and Prompt in part, is the prompt and the text, or as many stars, with the
\* cursor where the next character goes.  No frame of the spinner is drawn over
\* it, and no log line as long as the log has its sink: runShutdown() takes it
\* away while the line may still be edited, and nothing is claimed from there on.
THEOREM ScreenTrue == Spec => []ScreenShows
<1>1. TerminalOK /\ DraftOK /\ Typed /\ (sink => Drawn) => ScreenShows
  <2> SUFFICES ASSUME Typed, Drawn, at \in Editing, ~blank
               PROVE  screen.line = Prompt \o Shown /\ screen.col = 1 + edit.cursor
    BY DEF ScreenShows
  <2>1. PICK S : edit.buffer \in Seq(S)
    BY DEF Typed, TextOK
  <2>2. Shown = ShownAt(at, edit)
    <3>1. DOMAIN edit.buffer = 1..Len(edit.buffer)
      BY <2>1, LenProperties
    <3> QED BY <3>1 DEF Shown, ShownAt, Stars
  <2>3. Shows(screen, ShownAt(at, edit), edit.cursor)
    BY DEF Drawn, ScreenAt
  <2> QED BY <2>2, <2>3, AtScreen DEF Shows
<1> QED BY <1>1, DrawnAlways, PTL

-----------------------------------------------------------------------------
(* No star is left *)

Starless(l) == \A i \in DOMAIN l : l[i] # "*"

\* Nothing written: the line scrolls up as it is.
LEMMA ScrollsUp ==
  ASSUME NEW S, NEW l \in Seq(S), NEW s, IsAt(s, l, Len(l))
  PROVE  writeLine(s, <<>>).above = l
<1>1. PICK z \in Seq(S) : z = <<>>
  BY EmptySeq
<1>2. IsAt(write(s, z), l \o z, Len(l) + Len(z))
  BY WriteAtEnd
<1>3. l \o z = l
  BY <1>1, ConcatEmptySeq
<1>4. write(s, <<>>).line = l
  BY <1>1, <1>2, <1>3, AtScreen
<1> QED BY <1>4 DEF writeLine

\* The stars go before the line does, on a screen cleared under them, too.
LEMMA WipedClean == ASSUME Typed, Drawn, at = "password" PROVE Starless(writeLine(Wiped, <<>>).above)
<1>1. PICK n \in Nat : n = Len(edit.buffer)
  BY LenProperties DEF Typed, TextOK
<1>2. Wiped = clearToEnd(moveCursorBack(screen, n))
  BY <1>1 DEF Wiped
<1>3. CASE ~blank
  <2>1. PICK U : U = {"*", "prompt"}
    OBVIOUS
  <2>2. PICK l \in Seq(U) : l = Prompt \o Stars(n) /\ Len(l) = 1 + n /\ l[1] = "prompt"
    <3>1. Stars(n) \in Seq({"*"}) /\ Len(Stars(n)) = n /\ U = {"*"} \cup {"prompt"}
      BY <2>1, StarsText
    <3>2. /\ Prompt \o Stars(n) \in Seq(U) /\ Len(Prompt \o Stars(n)) = 1 + Len(Stars(n))
          /\ \A j \in 1..1 + Len(Stars(n)) :
               (Prompt \o Stars(n))[j] = IF j = 1 THEN "prompt" ELSE Stars(n)[j - 1]
      BY <3>1, PromptText
    <3>3. 1 \in 1..1 + Len(Stars(n))
      BY <3>1
    <3> QED BY <3>1, <3>2, <3>3
  <2>3. IsAt(screen, l, 1 + n)
    BY <1>1, <1>3, <2>2 DEF Drawn, ScreenAt, ShownAt, Editing, Shows
  <2>4. IsAt(moveCursorBack(screen, n), l, 1)
    <3>1. 1 + n \in Nat /\ n < 1 + n /\ (1 + n) - n = 1
      OBVIOUS
    <3> QED BY <2>3, <3>1, BackAt
  <2>5. PICK p : p = SubSeq(l, 1, 1)
    OBVIOUS
  <2>6. IsAt(Wiped, p, 1) /\ p \in Seq(U) /\ Len(p) = 1 /\ p[1] = "prompt"
    <3>1. 1 \in 0..Len(l) /\ 1 \in 1..1
      BY <2>2
    <3> QED BY <1>2, <2>2, <2>4, <2>5, <3>1, ClearToEndAt
  <2>7. writeLine(Wiped, <<>>).above = p
    BY <2>6, ScrollsUp
  <2>8. DOMAIN p = 1..1
    BY <2>6, LenProperties
  <2>9. \A i \in 1..1 : i = 1
    OBVIOUS
  <2> QED BY <2>6, <2>7, <2>8, <2>9 DEF Starless
<1>4. CASE blank
  <2>1. PICK m \in 0..n : IsAt(screen, Stars(m), m)
    BY <1>1, <1>4 DEF Drawn, ScreenAt
  <2>2. m \in Nat /\ Stars(m) \in Seq({"*"}) /\ Len(Stars(m)) = m
    <3>1. m \in Nat
      OBVIOUS
    <3> QED BY <3>1, StarsText
  <2>3. IsAt(moveCursorBack(screen, n), Stars(m), 0)
    <3>1. (IF n < m THEN m - n ELSE 0) = 0
      BY <2>2
    <3> QED BY <2>1, <2>2, <3>1, BackAt
  <2>4. PICK p : p = SubSeq(Stars(m), 1, 0)
    OBVIOUS
  <2>5. IsAt(Wiped, p, 0) /\ p \in Seq({"*"}) /\ Len(p) = 0
    <3>1. 0 \in 0..Len(Stars(m))
      BY <2>2
    <3> QED BY <1>2, <2>2, <2>3, <2>4, <3>1, ClearToEndAt
  <2>6. writeLine(Wiped, <<>>).above = p
    BY <2>5, ScrollsUp
  <2>7. DOMAIN p = {}
    BY <2>5, EmptySeq
  <2> QED BY <2>6, <2>7 DEF Starless
<1> QED BY <1>3, <1>4 DEF Typed, FlagsOK

\* Of whatever length the password is, however it was edited and cleared, its
\* stars are wiped before its line scrolls up, as long as the log has its sink:
\* askPassword() ends by Enter or Ctrl-C only, and both go through the same lines.
THEOREM NoStarLeft == Spec => PasswordWiped
<1>1. TerminalOK /\ DraftOK /\ Typed /\ (sink => Drawn) /\ [Next]_vars =>
        [sink /\ at = "password" /\ at' # "password" =>
           \A i \in DOMAIN screen'.above : screen'.above[i] # "*"]_vars
  <2> SUFFICES ASSUME Typed, Drawn, [Next]_vars, at = "password", at' # "password"
               PROVE  Starless(screen'.above)
    BY DEF Starless
  <2>1. Answer
    <3>1. at # "line" /\ at # "prompt" /\ at \notin {"core", "stop", "ended", "leaves"}
      OBVIOUS
    <3>2. Press \/ Paste \/ ReadByte \/ TimeOut \/ enqueueLog \/ output => at' = at
      BY DEF Press, Paste, Sends, ReadByte, TimeOut, enqueueLog, output
    <3>3. Insert \/ Backspace \/ Delete \/ Move \/ Older \/ Newer \/ Complete \/ Ignore => at' = at
      BY DEF Insert, Backspace, Delete, Move, Older, Newer, Complete, Ignore, Stays
    <3>4. ~NextLine /\ ~Enter /\ ~Interrupt
      BY DEF NextLine, Enter, Interrupt
    <3>5. animationLoop => at' = at
      BY DEF animationLoop
    <3>6. ~Answered /\ ~Stopped /\ ~Throws /\ ~Destroy /\ ~Destroyed
      BY DEF Answered, Stopped, Throws, Destroy, Destroyed
    <3>7. setSink \/ UNCHANGED vars => at' = at
      BY DEF vars, console, setSink
    <3> QED BY <3>2, <3>3, <3>4, <3>5, <3>6, <3>7 DEF Next
  <2>2. PICK s : s = writeLine(Wiped, <<>>)
    OBVIOUS
  <2>3. Starless(s.above) /\ IsAt(s, <<>>, 0)
    BY <2>2, WipedClean, LineWritten
  <2>4. screen' = s \/ screen' = write(s, Prompt)
    <3>1. Returned(s) \/ \E j : GoesOn(j, s)
      BY <2>1, <2>2 DEF Answer
    <3> QED BY <3>1 DEF Returned, GoesOn
  <2>5. screen'.above = s.above
    BY <2>3, <2>4, PromptShows
  <2> QED BY <2>3, <2>5
<1> QED BY <1>1, DrawnAlways, PTL DEF Spec, PasswordWiped

-----------------------------------------------------------------------------
(* Keys are read whole *)

Tidy == Typable \ Untidy

\* The bytes of keys pressed one after the other.
LEMMA BytesOfKeys ==
  ASSUME NEW s \in Seq(Typable), NEW t \in Seq(Typable)
  PROVE  Bytes(s) \in Seq(WireBytes) /\ Bytes(s \o t) = Bytes(s) \o Bytes(t)
<1> DEFINE Codes(u) == [i \in DOMAIN u |-> CodeOf(u[i])]
<1>1. ASSUME NEW u \in Seq(Typable)
      PROVE  /\ Codes(u) \in Seq(Seq(WireBytes)) /\ Len(Codes(u)) = Len(u)
             /\ \A i \in 1..Len(u) : Codes(u)[i] = CodeOf(u[i])
  <2>1. PICK n \in Nat : n = Len(u) /\ DOMAIN u = 1..n
    BY LenProperties
  <2>2. \A i \in 1..n : CodeOf(u[i]) \in Seq(WireBytes)
    <3>1. \A i \in 1..n : u[i] \in Typable
      BY <2>1, ElementOfSeq
    <3> QED BY <3>1, KeyAssumption
  <2>3. Codes(u) = [i \in 1..n |-> CodeOf(u[i])]
    BY <2>1
  <2> HIDE DEF Codes
  <2> QED BY <2>1, <2>2, <2>3
<1>2. PICK m \in Nat, n \in Nat : m = Len(s) /\ n = Len(t)
  BY LenProperties
<1>3. /\ s \o t \in Seq(Typable) /\ Len(s \o t) = m + n
      /\ \A i \in 1..m + n : (s \o t)[i] = IF i <= m THEN s[i] ELSE t[i - m]
  BY <1>2, ConcatProperties
<1>4. PICK a \in Seq(Seq(WireBytes)), b \in Seq(Seq(WireBytes)), c \in Seq(Seq(WireBytes)) :
        a = Codes(s) /\ b = Codes(t) /\ c = Codes(s \o t)
  <2> HIDE DEF Codes
  <2> QED BY <1>1, <1>3
<1>5. /\ Len(a) = m /\ \A i \in 1..m : a[i] = CodeOf(s[i])
      /\ Len(b) = n /\ \A i \in 1..n : b[i] = CodeOf(t[i])
      /\ Len(c) = m + n /\ \A i \in 1..m + n : c[i] = CodeOf((s \o t)[i])
  <2> HIDE DEF Codes
  <2> QED BY <1>1, <1>2, <1>3, <1>4
<1>6. c = a \o b
  <2>1. /\ a \o b \in Seq(Seq(WireBytes)) /\ Len(a \o b) = m + n
        /\ \A i \in 1..m + n : (a \o b)[i] = IF i <= m THEN a[i] ELSE b[i - m]
    BY <1>5, ConcatProperties
  <2>2. ASSUME NEW i \in 1..m + n PROVE c[i] = (a \o b)[i]
    <3>c. i \in 1..m + n /\ c[i] = CodeOf((s \o t)[i])
      BY <1>5
    <3>1. CASE i <= m
      <4>1. i \in 1..m
        BY <3>1
      <4>2. (s \o t)[i] = s[i]
        BY <1>3, <3>1
      <4>3. (a \o b)[i] = a[i]
        BY <2>1, <3>1
      <4>4. a[i] = CodeOf(s[i])
        BY <1>5, <4>1
      <4> QED BY <3>c, <4>2, <4>3, <4>4, Zenon
    <3>2. CASE ~(i <= m)
      <4>1. i - m \in 1..n
        BY <3>2
      <4>2. (s \o t)[i] = t[i - m]
        BY <1>3, <3>2
      <4>3. (a \o b)[i] = b[i - m]
        BY <2>1, <3>2
      <4>4. b[i - m] = CodeOf(t[i - m])
        BY <1>5, <4>1
      <4> QED BY <3>c, <4>2, <4>3, <4>4, Zenon
    <3> QED BY <3>1, <3>2
  <2> QED BY <1>5, <2>1, <2>2, SeqEqual
<1>7. Bytes(s) = FlattenSeq(a) /\ Bytes(t) = FlattenSeq(b) /\ Bytes(s \o t) = FlattenSeq(c)
  BY <1>4 DEF Bytes
<1>8. FlattenSeq(a) \in Seq(WireBytes) /\ FlattenSeq(a \o b) = FlattenSeq(a) \o FlattenSeq(b)
  BY FlatConcat
<1> HIDE DEF Codes
<1> QED BY <1>6, <1>7, <1>8

\* The bytes of no key, of one key, and of the first of several.
LEMMA FirstOfKeys ==
  /\ Bytes(<<>>) = <<>> /\ \A k \in Typable : Bytes(<<k>>) = CodeOf(k)
  /\ \A s \in Seq(Typable) : s # <<>> => Bytes(s) = CodeOf(s[1]) \o Bytes(Tail(s))
<1>1. Bytes(<<>>) = <<>>
  <2>1. [i \in DOMAIN <<>> |-> CodeOf(<<>>[i])] = <<>>
    OBVIOUS
  <2>2. FlattenSeq(<<>>) = <<>>
    <3>1. PICK x : x \in Seq({})
      BY EmptySeq
    <3> QED BY <3>1, FlatOne
  <2> QED BY <2>1, <2>2 DEF Bytes
<1>2. ASSUME NEW k \in Typable PROVE Bytes(<<k>>) = CodeOf(k)
  <2>1. CodeOf(k) \in Seq(WireBytes)
    BY KeyAssumption
  <2>2. PICK c \in Seq(WireBytes) : c = CodeOf(k)
    BY <2>1
  <2>3. [i \in DOMAIN <<k>> |-> CodeOf(<<k>>[i])] = <<c>>
    BY <2>2
  <2> QED BY <2>2, <2>3, FlatOne DEF Bytes
<1>3. ASSUME NEW s \in Seq(Typable), s # <<>> PROVE Bytes(s) = CodeOf(s[1]) \o Bytes(Tail(s))
  <2>1. s[1] \in Typable /\ Tail(s) \in Seq(Typable) /\ s = <<s[1]>> \o Tail(s)
    <3>1. Head(s) = s[1] /\ Head(s) \in Typable /\ Tail(s) \in Seq(Typable) /\ Len(s) # 0
      BY <1>3, HeadTailProperties, EmptySeq
    <3>2. s = <<Head(s)>> \o Tail(s)
      BY <1>3, HeadTailAppend
    <3> QED BY <3>1, <3>2
  <2>2. PICK h \in Seq(Typable) : h = <<s[1]>>
    <3>1. PICK k \in Typable : k = s[1]
      BY <2>1
    <3>2. <<k>> \in Seq(Typable)
      OBVIOUS
    <3> QED BY <3>1, <3>2, Zenon
  <2>3. Bytes(h \o Tail(s)) = Bytes(h) \o Bytes(Tail(s))
    BY <2>1, BytesOfKeys
  <2> QED BY <1>2, <2>1, <2>2, <2>3
<1> QED BY <1>1, <1>2, <1>3

\* The bytes after which readKey() reads on, by their number.
LEMMA ReadsOnBy ==
  ASSUME NEW S, NEW s \in Seq(S), NEW n \in Nat, n = Len(s)
  PROVE  ReadsOn(s) <=> \/ n = 0 \/ (n = 1 /\ s[1] = ESC)
                        \/ n = 2 /\ s[1] = ESC /\ (s[2] = "[" \/ s[2] = "O")
                        \/ n = 3 /\ s[1] = ESC /\ s[2] = "[" /\ s[3] \in Digits
                        \/ n > 0 /\ s[1] \in DOMAIN LeadBytes /\ n <= LeadBytes[s[1]]
<1>1. PICK U : U = S \cup {ESC, "[", "O"}
  OBVIOUS
<1>2. s \in Seq(U)
  BY <1>1, SeqMonotonic
<1>3. s = <<>> <=> n = 0
  BY EmptySeq
<1>4. s = <<ESC>> <=> n = 1 /\ s[1] = ESC
  <2>1. PICK q \in Seq(U) : q = <<ESC>> /\ Len(q) = 1 /\ q[1] = ESC
    <3>1. <<ESC>> \in Seq(U) /\ Len(<<ESC>>) = 1 /\ <<ESC>>[1] = ESC
      BY <1>1
    <3> QED BY <3>1, Zenon
  <2>2. n = 1 /\ s[1] = ESC => \A i \in 1..n : s[i] = q[i]
    BY <2>1
  <2> QED BY <1>2, <2>1, <2>2, SeqEqual
<1>5. ASSUME NEW c \in {"[", "O"} PROVE s = <<ESC, c>> <=> n = 2 /\ s[1] = ESC /\ s[2] = c
  <2>1. PICK q \in Seq(U) : q = <<ESC, c>> /\ Len(q) = 2 /\ q[1] = ESC /\ q[2] = c
    <3>1. <<ESC, c>> \in Seq(U) /\ Len(<<ESC, c>>) = 2 /\ <<ESC, c>>[1] = ESC /\ <<ESC, c>>[2] = c
      BY <1>1
    <3> QED BY <3>1, Zenon
  <2>2. n = 2 /\ s[1] = ESC /\ s[2] = c => \A i \in 1..n : s[i] = q[i]
    BY <2>1
  <2> QED BY <1>2, <2>1, <2>2, SeqEqual
<1>6. s = <<ESC, "[">> <=> n = 2 /\ s[1] = ESC /\ s[2] = "["
  BY <1>5
<1>7. s = <<ESC, "O">> <=> n = 2 /\ s[1] = ESC /\ s[2] = "O"
  BY <1>5
<1>8. ReadsOn(s) <=> \/ s = <<>> \/ s = <<ESC>> \/ s = <<ESC, "[">> \/ s = <<ESC, "O">>
                     \/ n = 3 /\ s[1] = ESC /\ s[2] = "[" /\ s[3] \in Digits
                     \/ n > 0 /\ s[1] \in DOMAIN LeadBytes /\ n <= LeadBytes[s[1]]
  BY Zenon DEF ReadsOn
<1> QED BY <1>3, <1>4, <1>6, <1>7, <1>8, Zenon

\* readKey() reads on while bytes of a key are to come, and no further.
LEMMA CodesReadWhole ==
  ASSUME NEW S, NEW b \in Seq(S), IsCode(b)
  PROVE  /\ b # <<>> /\ ~ReadsOn(b)
         /\ \A s \in Seq(S), r \in Seq(S) : b = s \o r /\ r # <<>> => ReadsOn(s)
<1>1. PICK n \in Nat : n = Len(b)
  BY LenProperties
<1>2. DOMAIN LeadBytes = {"lead1", "lead2", "lead3"} /\ \A c \in DOMAIN LeadBytes : LeadBytes[c] \in 1..3
  BY DEF LeadBytes
<1>3. ESC \notin DOMAIN LeadBytes /\ "O" # "["
  BY <1>2 DEF ESC
<1>4. \/ n = 1 /\ b[1] # ESC /\ b[1] \notin DOMAIN LeadBytes
      \/ n > 1 /\ b[1] \in DOMAIN LeadBytes /\ n = 1 + LeadBytes[b[1]]
      \/ n = 3 /\ b[1] = ESC /\ (b[2] = "O" \/ (b[2] = "[" /\ b[3] \notin Digits))
      \/ n = 4 /\ b[1] = ESC /\ b[2] = "[" /\ b[3] \in Digits
  BY <1>1 DEF IsCode
<1>5. b # <<>>
  BY <1>1, <1>4, EmptySeq
<1>6. ~ReadsOn(b)
  <2>1. ReadsOn(b) <=> \/ n = 0 \/ (n = 1 /\ b[1] = ESC)
                       \/ n = 2 /\ b[1] = ESC /\ (b[2] = "[" \/ b[2] = "O")
                       \/ n = 3 /\ b[1] = ESC /\ b[2] = "[" /\ b[3] \in Digits
                       \/ n > 0 /\ b[1] \in DOMAIN LeadBytes /\ n <= LeadBytes[b[1]]
    BY <1>1, ReadsOnBy
  <2>2. CASE n = 1 /\ b[1] # ESC /\ b[1] \notin DOMAIN LeadBytes
    BY <2>1, <2>2
  <2>3. CASE n > 1 /\ b[1] \in DOMAIN LeadBytes /\ n = 1 + LeadBytes[b[1]]
    <3>1. ~(n <= LeadBytes[b[1]]) /\ b[1] # ESC /\ n # 0
      BY <1>2, <1>3, <2>3
    <3> QED BY <2>1, <3>1
  <2>4. CASE n \in {3, 4} /\ b[1] = ESC /\ ~(n = 3 /\ b[2] = "[" /\ b[3] \in Digits)
    <3>1. b[1] \notin DOMAIN LeadBytes
      BY <1>3, <2>4
    <3> QED BY <2>1, <2>4, <3>1
  <2>5. \/ n = 1 /\ b[1] # ESC /\ b[1] \notin DOMAIN LeadBytes
        \/ n > 1 /\ b[1] \in DOMAIN LeadBytes /\ n = 1 + LeadBytes[b[1]]
        \/ n \in {3, 4} /\ b[1] = ESC /\ ~(n = 3 /\ b[2] = "[" /\ b[3] \in Digits)
    BY <1>3, <1>4
  <2> QED BY <2>2, <2>3, <2>4, <2>5
<1>7. ASSUME NEW s \in Seq(S), NEW r \in Seq(S), b = s \o r, r # <<>> PROVE ReadsOn(s)
  <2>1. PICK k \in Nat : k = Len(s) /\ k < n /\ \A i \in 1..k : s[i] = b[i]
    <3>1. PICK k \in Nat, m \in Nat : k = Len(s) /\ m = Len(r)
      BY LenProperties
    <3>2. m # 0
      BY <1>7, <3>1, EmptySeq
    <3>3. n = k + m /\ \A i \in 1..k + m : b[i] = IF i <= k THEN s[i] ELSE r[i - k]
      BY <1>1, <1>7, <3>1, ConcatProperties
    <3>4. \A i \in 1..k : i \in 1..k + m /\ i <= k
      BY <3>1
    <3> QED BY <3>1, <3>2, <3>3, <3>4
  <2>2. (k > 0 => s[1] = b[1]) /\ (k > 1 => s[2] = b[2]) /\ (k > 2 => s[3] = b[3])
    <3>1. (k > 0 => 1 \in 1..k) /\ (k > 1 => 2 \in 1..k) /\ (k > 2 => 3 \in 1..k)
      OBVIOUS
    <3> QED BY <2>1, <3>1
  <2>3. b[1] \in DOMAIN LeadBytes /\ n = 1 + LeadBytes[b[1]] => k <= LeadBytes[b[1]]
    BY <1>2, <2>1
  <2>4. k = 0 \/ k = 1 \/ k = 2 \/ k = 3 \/ k > 3
    OBVIOUS
  <2> QED BY <1>4, <2>1, <2>2, <2>3, <2>4, ReadsOnBy
<1> QED BY <1>5, <1>6, <1>7

\* Bytes that were read make a key.
LEMMA ReadsAKey == ASSUME NEW s PROVE readKey(s) # NoKey
<1>1. \A k : k # "none" => Key(k) # NoKey
  BY DEF Key, NoKey
<1>2. \A c : Char(c) # NoKey
  BY DEF Char, NoKey
<1>3. \A c : Named(Ss3, c) # NoKey
  BY <1>1 DEF Named, Ss3
<1>4. \A c : Named(Csi, c) # NoKey
  BY <1>1 DEF Named, Csi
<1>5. \A c \in DOMAIN Controls : Key(Controls[c]) # NoKey
  BY <1>1 DEF Controls
<1> QED BY <1>1, <1>2, <1>3, <1>4, <1>5 DEF readKey

-----------------------------------------------------------------------------
(* What is pressed, on its way *)

\* Keys are on their way as they were pressed: none, or one of which bytes
\* are still to be read, or one that is read and not handled; the others
\* behind it.  One that was read leaves no byte behind.
Silent == event = NoKey /\ sent = <<>> /\ seq = <<>> /\ wire = <<>>
Coming ==
  /\ event = NoKey /\ sent # <<>>
  /\ \E rest \in Seq(WireBytes) : /\ rest # <<>> /\ seq \in Seq(WireBytes)
                                  /\ CodeOf(sent[1]) = seq \o rest /\ wire = rest \o Bytes(Tail(sent))
Came == event # NoKey /\ sent # <<>> /\ event = EventOf(sent[1]) /\ wire = Bytes(Tail(sent))
KeysOK ==
  /\ event # NoKey => seq = <<>>
  /\ ~garbled => sent \in Seq(Tidy) /\ (Silent \/ Coming \/ Came)

\* The first of several tidy keys, and the others.
LEMMA FirstSent ==
  ASSUME NEW s \in Seq(Tidy), s # <<>>
  PROVE  /\ s \in Seq(Typable) /\ s[1] \in Tidy /\ Tail(s) \in Seq(Tidy) /\ Tail(s) \in Seq(Typable)
         /\ CodeOf(s[1]) \in Seq(WireBytes) /\ IsCode(CodeOf(s[1])) /\ Bytes(Tail(s)) \in Seq(WireBytes)
         /\ EventOf(s[1]) = readKey(CodeOf(s[1])) /\ Bytes(s) = CodeOf(s[1]) \o Bytes(Tail(s))
<1>1. Tidy \subseteq Typable
  BY DEF Tidy
<1>2. Head(s) = s[1] /\ Head(s) \in Tidy /\ Tail(s) \in Seq(Tidy) /\ Len(s) # 0
  BY HeadTailProperties, EmptySeq
<1>3. s \in Seq(Typable) /\ Tail(s) \in Seq(Typable) /\ s[1] \in Typable
  BY <1>1, <1>2, SeqMonotonic
<1>4. CodeOf(s[1]) \in Seq(WireBytes) /\ IsCode(CodeOf(s[1]))
  BY <1>2, <1>3, KeyAssumption DEF Tidy
<1>5. Bytes(Tail(s)) \in Seq(WireBytes)
  BY <1>3, BytesOfKeys
<1>6. EventOf(s[1]) = readKey(CodeOf(s[1]))
  BY <1>3, FirstOfKeys DEF EventOf
<1>7. Bytes(s) = CodeOf(s[1]) \o Bytes(Tail(s))
  BY <1>3, FirstOfKeys
<1> QED BY <1>2, <1>3, <1>4, <1>5, <1>6, <1>7

\* No key was pressed yet.
LEMMA InitKeys == Init => KeysOK
<1> SUFFICES ASSUME Init PROVE KeysOK
  OBVIOUS
<1>1. sent \in Seq(Tidy)
  BY EmptySeq DEF Init
<1> QED BY <1>1 DEF Init, KeysOK, Silent

\* Who leaves the keyboard alone leaves the keys.
LEMMA SameKeys == ASSUME KeysOK, UNCHANGED keyboard PROVE KeysOK'
BY DEF KeysOK, Silent, Coming, Came, keyboard

\* Keys pressed when nothing is on its way begin anew.
LEMMA KeysBegin ==
  ASSUME NEW keys \in Seq(Tidy), keys # <<>>, event' = NoKey, seq' = <<>>, sent' = keys, wire' = Bytes(keys)
  PROVE  KeysOK'
<1>1. PICK code \in Seq(WireBytes) : code = CodeOf(keys[1]) /\ IsCode(code)
  BY FirstSent
<1>2. code # <<>>
  BY <1>1, CodesReadWhole
<1>3. <<>> \o code = code /\ <<>> \in Seq(WireBytes)
  BY ConcatEmptySeq, EmptySeq
<1>4. wire' = code \o Bytes(Tail(keys))
  BY <1>1, FirstSent
<1>5. Coming'
  BY <1>1, <1>2, <1>3, <1>4 DEF Coming
<1> QED BY <1>5 DEF KeysOK

\* Or they line up behind the others.
LEMMA SendsKeys == ASSUME KeysOK, NEW keys \in Seq(Typable), keys # <<>>, Sends(keys) PROVE KeysOK'
<1> DEFINE dirty == \E i \in DOMAIN keys : keys[i] \in Untidy
<1>1. event' = event /\ seq' = seq /\ wire' = wire \o Bytes(keys)
  BY DEF Sends
<1>2. ASSUME ~dirty PROVE keys \in Seq(Tidy)
  <2>1. PICK n \in Nat : n = Len(keys) /\ DOMAIN keys = 1..n
    BY LenProperties
  <2>2. \A i \in 1..n : keys[i] \in Tidy
    BY <1>2, <2>1, ElementOfSeq DEF Tidy
  <2>3. keys = [i \in 1..n |-> keys[i]]
    BY <2>1
  <2> QED BY <2>1, <2>2, <2>3
<1>3. CASE wire = <<>> /\ seq = <<>> /\ event = NoKey
  <2>1. sent' = keys /\ garbled' = dirty
    BY <1>3 DEF Sends
  <2>2. CASE dirty
    BY <1>1, <1>3, <2>1, <2>2 DEF KeysOK
  <2>3. CASE ~dirty
    <3>1. <<>> \o Bytes(keys) = Bytes(keys)
      BY BytesOfKeys, ConcatEmptySeq
    <3>2. wire' = Bytes(keys)
      BY <1>1, <1>3, <3>1
    <3> QED BY <1>1, <1>2, <1>3, <2>1, <2>3, <3>2, KeysBegin
  <2> QED BY <2>2, <2>3
<1>4. CASE ~(wire = <<>> /\ seq = <<>> /\ event = NoKey)
  <2>1. sent' = sent \o keys /\ garbled' = (garbled \/ dirty)
    BY <1>4 DEF Sends
  <2>2. CASE garbled \/ dirty
    BY <1>1, <2>1, <2>2 DEF KeysOK
  <2>3. CASE ~garbled /\ ~dirty
    <3>1. keys \in Seq(Tidy) /\ sent \in Seq(Tidy) /\ sent # <<>> /\ (Coming \/ Came)
      BY <1>2, <1>4, <2>3 DEF KeysOK, Silent, Coming, Came
    <3>2. /\ sent \o keys \in Seq(Tidy) /\ sent \o keys # <<>> /\ (sent \o keys)[1] = sent[1]
          /\ Tail(sent \o keys) = Tail(sent) \o keys
      BY <3>1, ConcatProperties, HeadTailProperties
    <3>3. Bytes(Tail(sent \o keys)) = Bytes(Tail(sent)) \o Bytes(keys)
      <4>1. PICK u \in Seq(Typable) : u = Tail(sent)
        BY <3>1, FirstSent
      <4>2. Bytes(u \o keys) = Bytes(u) \o Bytes(keys)
        BY BytesOfKeys
      <4> QED BY <3>2, <4>1, <4>2
    <3>4. PICK a \in Seq(WireBytes), b \in Seq(WireBytes) : a = Bytes(Tail(sent)) /\ b = Bytes(keys)
      BY <3>1, FirstSent, BytesOfKeys
    <3>5. CASE Coming
      <4>1. PICK rest \in Seq(WireBytes) : /\ rest # <<>> /\ seq \in Seq(WireBytes)
                                           /\ CodeOf(sent[1]) = seq \o rest /\ wire = rest \o a
        BY <3>4, <3>5 DEF Coming
      <4>2. wire' = rest \o (a \o b)
        <5>1. (rest \o a) \o b = rest \o (a \o b)
          BY ConcatAssociative
        <5> QED BY <1>1, <3>4, <4>1, <5>1
      <4>3. Coming'
        <5>1. event = NoKey
          BY <3>5 DEF Coming
        <5>2. wire' = rest \o Bytes(Tail(sent'))
          BY <2>1, <3>3, <3>4, <4>2
        <5>3. CodeOf(sent'[1]) = seq' \o rest /\ sent' # <<>>
          BY <1>1, <2>1, <3>2, <4>1
        <5> QED BY <1>1, <4>1, <5>1, <5>2, <5>3 DEF Coming
      <4> QED BY <1>1, <2>1, <3>2, <3>5, <4>3 DEF KeysOK, Coming
    <3>6. CASE Came
      <4>1. Came'
        BY <1>1, <2>1, <3>2, <3>3, <3>6 DEF Came
      <4>2. event # NoKey /\ seq = <<>>
        BY <3>6 DEF Came, KeysOK
      <4> QED BY <1>1, <2>1, <3>2, <4>1, <4>2 DEF KeysOK
    <3> QED BY <3>1, <3>5, <3>6
  <2> QED BY <2>2, <2>3
<1> QED BY <1>3, <1>4

\* One more byte is read: the key goes on, or is there.
LEMMA ByteKeys == ASSUME KeysOK, ReadByte PROVE KeysOK'
<1>1. event = NoKey /\ wire # <<>> /\ wire' = Tail(wire) /\ UNCHANGED <<sent, garbled>>
  BY DEF ReadByte
<1>2. PICK s : s = Append(seq, wire[1])
  OBVIOUS
<1>3. /\ ReadsOn(s) => seq' = s /\ event' = event
      /\ ~ReadsOn(s) => event' = readKey(s) /\ seq' = <<>>
  BY <1>2 DEF ReadByte, Returns
<1>4. event' # NoKey => seq' = <<>>
  BY <1>1, <1>3
<1>5. ASSUME ~garbled PROVE Coming' \/ Came'
  <2>1. sent \in Seq(Tidy) /\ sent # <<>> /\ Coming
    BY <1>1, <1>5 DEF KeysOK, Silent, Coming, Came
  <2>2. PICK a \in Seq(WireBytes), code \in Seq(WireBytes) :
          /\ a = Bytes(Tail(sent)) /\ code = CodeOf(sent[1]) /\ IsCode(code)
          /\ EventOf(sent[1]) = readKey(code)
    BY <2>1, FirstSent
  <2>3. PICK rest \in Seq(WireBytes) : /\ rest # <<>> /\ seq \in Seq(WireBytes)
                                       /\ code = seq \o rest /\ wire = rest \o a
    BY <2>1, <2>2 DEF Coming
  <2>4. PICK c \in WireBytes, more \in Seq(WireBytes), one \in Seq(WireBytes) :
          c = Head(rest) /\ more = Tail(rest) /\ one = <<c>> /\ rest = one \o more
    <3>1. Head(rest) \in WireBytes /\ Tail(rest) \in Seq(WireBytes)
      BY <2>3, HeadTailProperties
    <3>2. PICK c \in WireBytes : c = Head(rest)
      BY <3>1
    <3>3. <<c>> \in Seq(WireBytes)
      OBVIOUS
    <3>4. rest = <<Head(rest)>> \o Tail(rest)
      BY <2>3, HeadTailAppend
    <3> QED BY <3>1, <3>2, <3>3, <3>4
  <2>5. wire[1] = c /\ Tail(wire) = more \o a
    <3>1. rest \o a \in Seq(WireBytes) /\ (rest \o a)[1] = c /\ Tail(rest \o a) = more \o a
      BY <2>3, <2>4, ConcatProperties, HeadTailProperties
    <3> QED BY <2>3, <3>1
  <2>6. s = seq \o one /\ s \in Seq(WireBytes) /\ code = s \o more
    <3>1. Append(seq, c) = seq \o <<c>>
      BY <2>3, AppendIsConcat
    <3>2. seq \o one \in Seq(WireBytes)
      BY <2>3, ConcatProperties
    <3>3. (seq \o one) \o more = seq \o (one \o more)
      <4>1. PICK q \in Seq(WireBytes) : q = seq
        BY <2>3
      <4>2. (q \o one) \o more = q \o (one \o more)
        BY ConcatAssociative, SMTT(20)
      <4> QED BY <4>1, <4>2
    <3>4. s = seq \o one
      BY <1>2, <2>4, <2>5, <3>1
    <3> QED BY <2>3, <2>4, <3>2, <3>3, <3>4
  <2>7. CASE more # <<>>
    <3>1. ReadsOn(s)
      BY <2>2, <2>6, <2>7, CodesReadWhole
    <3> QED BY <1>1, <1>3, <2>1, <2>2, <2>5, <2>6, <2>7, <3>1 DEF Coming
  <2>8. CASE more = <<>>
    <3>1. s = code /\ more \o a = a
      BY <2>6, <2>8, ConcatEmptySeq
    <3>2. ~ReadsOn(s) /\ readKey(s) # NoKey
      BY <2>2, <3>1, CodesReadWhole, ReadsAKey
    <3> QED BY <1>1, <1>3, <2>1, <2>2, <2>5, <3>1, <3>2 DEF Came
  <2> QED BY <2>7, <2>8
<1>6. ~garbled => sent \in Seq(Tidy)
  BY DEF KeysOK
<1> QED BY <1>1, <1>4, <1>5, <1>6 DEF KeysOK

\* What comes late is not read whole.
LEMMA LateKeys == ASSUME KeysOK, TimeOut PROVE KeysOK'
<1>1. /\ event' = readKey(seq) /\ seq' = <<>> /\ garbled' = (garbled \/ wire # <<>>)
      /\ event = NoKey /\ seq # <<>> /\ UNCHANGED <<wire, sent>>
  BY DEF TimeOut, Returns, Waits
<1>2. garbled'
  <2>1. ASSUME ~garbled, wire = <<>> PROVE FALSE
    <3>1. sent \in Seq(Tidy) /\ Coming
      BY <1>1, <2>1 DEF KeysOK, Silent, Came
    <3>2. PICK a \in Seq(WireBytes), rest \in Seq(WireBytes) : rest # <<>> /\ wire = rest \o a
      BY <3>1, FirstSent DEF Coming
    <3>3. Len(rest \o a) = Len(rest) + Len(a) /\ Len(rest) \in Nat /\ Len(a) \in Nat /\ Len(rest) # 0
      BY <3>2, ConcatProperties, LenProperties, EmptySeq
    <3> QED BY <2>1, <3>2, <3>3, EmptySeq
  <2> QED BY <1>1, <2>1
<1> QED BY <1>1, <1>2 DEF KeysOK

\* The key is handled, and the next one comes.
LEMMA HandledKeys == ASSUME KeysOK, event # NoKey, Handled PROVE KeysOK'
<1>1. /\ event' = NoKey /\ seq' = <<>> /\ wire' = wire /\ garbled' = (garbled /\ wire # <<>>)
      /\ sent' = IF garbled \/ sent = <<>> THEN <<>> ELSE Tail(sent)
  BY DEF Handled, KeysOK
<1>2. CASE garbled
  <2>1. <<>> \in Seq(Tidy)
    BY EmptySeq
  <2> QED BY <1>1, <1>2, <2>1 DEF KeysOK, Silent
<1>3. CASE ~garbled
  <2>1. sent \in Seq(Tidy) /\ sent # <<>> /\ wire = Bytes(Tail(sent)) /\ sent' = Tail(sent)
    BY <1>1, <1>3 DEF KeysOK, Silent, Coming, Came
  <2>2. CASE Tail(sent) = <<>>
    <3>1. wire = <<>> /\ <<>> \in Seq(Tidy)
      BY <2>1, <2>2, FirstOfKeys, EmptySeq
    <3> QED BY <1>1, <2>1, <2>2, <3>1 DEF KeysOK, Silent
  <2>3. CASE Tail(sent) # <<>>
    <3>1. Tail(sent) \in Seq(Tidy)
      BY <2>1, FirstSent
    <3> QED BY <1>1, <2>1, <2>3, <3>1, KeysBegin
  <2> QED BY <2>2, <2>3
<1> QED BY <1>2, <1>3

\* The words of a line as they are quoted.
Quotes == {"\\", "\"", "'", " "}

\* The pieces an escaped word is written of.
Pieces(w, chars) == [i \in DOMAIN w |-> IF w[i] \in chars THEN <<"\\", w[i]>> ELSE <<w[i]>>]

\* One piece for each character.
LEMMA EscapedPieces ==
  ASSUME NEW S, NEW w \in Seq(S), NEW chars, chars \subseteq Quotes
  PROVE  /\ Pieces(w, chars) \in Seq(Seq(S \cup Quotes)) /\ Len(Pieces(w, chars)) = Len(w)
         /\ Escaped(w, chars) = FlattenSeq(Pieces(w, chars))
<1>1. PICK n \in Nat : n = Len(w) /\ DOMAIN w = 1..n
  BY LenProperties
<1>2. PICK s : s = [i \in 1..n |-> IF w[i] \in chars THEN <<"\\", w[i]>> ELSE <<w[i]>>]
  OBVIOUS
<1>3. ASSUME NEW i \in 1..n PROVE s[i] \in Seq(S \cup Quotes)
  <2>1. PICK c \in S : c = w[i]
    BY <1>1, ElementOfSeq
  <2>2. PICK U : U = S \cup Quotes
    OBVIOUS
  <2>3. "\\" \in U /\ c \in U
    BY <2>2 DEF Quotes
  <2>4. PICK q \in U : q = "\\"
    BY <2>3, Zenon
  <2>5. <<q, c>> \in Seq(U) /\ <<c>> \in Seq(U)
    BY <2>3
  <2>6. <<"\\", c>> \in Seq(S \cup Quotes) /\ <<c>> \in Seq(S \cup Quotes)
    BY <2>2, <2>4, <2>5, Zenon
  <2> QED BY <1>2, <2>1, <2>6, Zenon
<1>4. s \in Seq(Seq(S \cup Quotes)) /\ Len(s) = n
  <2>1. PICK V : V = Seq(S \cup Quotes)
    OBVIOUS
  <2>2. s = [i \in 1..n |-> s[i]]
    BY <1>2
  <2>3. \A i \in 1..n : s[i] \in V
    BY <1>3, <2>1
  <2>4. s \in Seq(V) /\ Len(s) = n
    BY <2>2, <2>3
  <2> QED BY <2>1, <2>4
<1>5. Pieces(w, chars) = s
  BY <1>1, <1>2 DEF Pieces
<1>6. Escaped(w, chars) = FlattenSeq(Pieces(w, chars))
  BY DEF Escaped, Pieces
<1> QED BY <1>1, <1>4, <1>5, <1>6

\* So is an escaped word.
LEMMA EscapedText ==
  ASSUME NEW S, NEW w \in Seq(S), NEW chars, chars \subseteq Quotes
  PROVE  Escaped(w, chars) \in Seq(S \cup Quotes)
<1>1. PICK p \in Seq(Seq(S \cup Quotes)) : p = Pieces(w, chars) /\ Escaped(w, chars) = FlattenSeq(p)
  BY EscapedPieces, Zenon
<1>2. FlattenSeq(p) \in Seq(S \cup Quotes)
  BY FlatConcat
<1> QED BY <1>1, <1>2

\* A quoted word is made of its letters and of the characters that quote.
LEMMA QuotedText ==
  ASSUME NEW S, NEW w \in Seq(S), NEW style \in {"double", "single", "escape"}
  PROVE  Quoted(w, style) \in Seq(S \cup Quotes)
<1>1. PICK U : U = S \cup Quotes
  OBVIOUS
<1>2. PICK d \in Seq(U), q \in Seq(U) : d = <<"\"">> /\ q = <<"'">>
  <2>1. "\"" \in U /\ "'" \in U
    BY <1>1 DEF Quotes
  <2>2. PICK x \in U, y \in U : x = "\"" /\ y = "'"
    BY <2>1, Zenon
  <2>3. <<x>> \in Seq(U) /\ <<y>> \in Seq(U)
    OBVIOUS
  <2> QED BY <2>2, <2>3, Zenon
<1>3. w \in Seq(U)
  BY <1>1, SeqMonotonic
<1>4. Escaped(w, {"\"", "\\"}) \in Seq(U) /\ Escaped(w, {" ", "\"", "'", "\\"}) \in Seq(U)
  BY <1>1, EscapedText DEF Quotes
<1>5. \A t \in Seq(U) : (d \o t) \o d \in Seq(U) /\ (q \o t) \o q \in Seq(U)
  BY ConcatProperties
<1>6. CASE style = "double"
  BY <1>1, <1>2, <1>4, <1>5, <1>6 DEF Quoted
<1>7. CASE style = "single"
  BY <1>1, <1>2, <1>3, <1>5, <1>7 DEF Quoted
<1>8. CASE style = "escape"
  BY <1>1, <1>4, <1>8 DEF Quoted
<1> QED BY <1>6, <1>7, <1>8

\* The parts a line is written of.
Parts(l) == [i \in DOMAIN l.words |-> (IF i = 1 THEN <<>> ELSE <<" ">>) \o Quoted(l.words[i], l.style)]

\* Words and the spaces between them, one after the other.
LEMMA PartsText ==
  ASSUME NEW l \in Lines
  PROVE  /\ Parts(l) \in Seq(Seq(LineLetters \cup Quotes)) /\ Len(Parts(l)) = Len(l.words)
         /\ Written(l) = FlattenSeq(Parts(l)) /\ Written(l) \in Seq(LineLetters \cup Quotes)
<1>1. l.style \in {"double", "single", "escape"} /\ l.words \in Seq(Seq(LineLetters))
  BY LineAssumption
<1>2. PICK n \in Nat : n = Len(l.words) /\ DOMAIN l.words = 1..n
  BY <1>1, LenProperties
<1>3. PICK s : s = [i \in 1..n |-> (IF i = 1 THEN <<>> ELSE <<" ">>) \o Quoted(l.words[i], l.style)]
  OBVIOUS
<1>u. PICK U : U = LineLetters \cup Quotes
  OBVIOUS
<1>4. ASSUME NEW i \in 1..n PROVE s[i] \in Seq(U)
  <2>1. l.words[i] \in Seq(LineLetters)
    BY <1>1, <1>2, ElementOfSeq
  <2>2. Quoted(l.words[i], l.style) \in Seq(U)
    BY <1>1, <1>u, <2>1, QuotedText
  <2>3. PICK b : b = IF i = 1 THEN <<>> ELSE <<" ">>
    OBVIOUS
  <2>4. b \in Seq(U)
    <3>1. " " \in U
      BY <1>u DEF Quotes
    <3>2. PICK q \in U : q = " "
      BY <3>1, Zenon
    <3>3. <<q>> \in Seq(U) /\ <<>> \in Seq(U)
      OBVIOUS
    <3> QED BY <2>3, <3>2, <3>3, Zenon
  <2>5. b \o Quoted(l.words[i], l.style) \in Seq(U)
    BY <2>2, <2>4, ConcatProperties
  <2> QED BY <1>3, <2>3, <2>5, Zenon
<1>5. s \in Seq(Seq(U)) /\ Len(s) = n
  <2>1. PICK V : V = Seq(U)
    OBVIOUS
  <2>2. s = [i \in 1..n |-> s[i]]
    BY <1>3
  <2>3. \A i \in 1..n : s[i] \in V
    BY <1>4, <2>1
  <2>4. s \in Seq(V) /\ Len(s) = n
    BY <2>2, <2>3
  <2> QED BY <2>1, <2>4
<1>6. Parts(l) = s
  BY <1>2, <1>3 DEF Parts
<1>7. FlattenSeq(s) \in Seq(U)
  BY <1>5, FlatConcat
<1> QED BY <1>2, <1>5, <1>6, <1>7, <1>u DEF Written, Parts

\* A line pasted is keys, and Enter.
LEMMA SheetTyped == ASSUME NEW l \in Lines PROVE Append(Sheet[l], "Enter") \in Seq(Typable)
<1>1. Sheet[l] = Written(l)
  BY DEF Sheet
<1>2. PICK S, s : s \in Seq(S) /\ s = Sheet[l]
  BY <1>1, PartsText
<1>3. PICK n \in Nat : n = Len(s) /\ DOMAIN s = 1..n
  BY <1>2, LenProperties
<1>4. \A i \in 1..n : s[i] \in Typable
  BY <1>2, <1>3 DEF Typable, Range
<1>5. s = [i \in 1..n |-> s[i]]
  BY <1>2, <1>3
<1>6. s \in Seq(Typable)
  BY <1>4, <1>5
<1>7. "Enter" \in Typable
  BY DEF Typable
<1> QED BY <1>2, <1>6, <1>7, AppendProperties

-----------------------------------------------------------------------------
\* A key that is handled was read.
LEMMA ThereIsAKey == \A ks : "none" \notin ks /\ Gets(ks) => event # NoKey
<1>1. ASSUME NEW ks, "none" \notin ks, Gets(ks) PROVE event # NoKey
  <2>1. event.key # "none"
    BY <1>1 DEF Gets
  <2>2. NoKey.key = "none"
    BY DEF NoKey
  <2> QED BY <2>1, <2>2, Zenon
<1> QED BY <1>1

\* A step loses, adds and mixes up no key.
LEMMA NextKeys == KeysOK /\ [Next]_vars => KeysOK'
<1> SUFFICES ASSUME KeysOK, [Next]_vars PROVE KeysOK'
  OBVIOUS
<1>1. CASE Press
  <2>1. PICK k \in Keys : Sends(<<k>>)
    BY <1>1 DEF Press
  <2>2. <<k>> \in Seq(Typable) /\ <<k>> # <<>>
    BY DEF Typable
  <2> QED BY <2>1, <2>2, SendsKeys
<1>2. CASE Paste
  <2>1. PICK l \in Lines : Sends(Append(Sheet[l], "Enter"))
    BY <1>2 DEF Paste
  <2>2. PICK keys \in Seq(Typable) : keys = Append(Sheet[l], "Enter")
    BY SheetTyped
  <2>3. keys # <<>>
    <3>1. PICK S, s : s \in Seq(S) /\ s = Sheet[l]
      BY PartsText DEF Sheet
    <3>2. Len(Append(s, "Enter")) = Len(s) + 1 /\ Len(s) \in Nat
      <4>1. s \in Seq(S \cup {"Enter"})
        BY <3>1, SeqMonotonic
      <4> QED BY <4>1, AppendProperties, LenProperties
    <3> QED BY <2>2, <3>1, <3>2, EmptySeq
  <2> QED BY <2>1, <2>2, <2>3, SendsKeys
<1>3. CASE ReadByte
  BY <1>3, ByteKeys
<1>4. CASE TimeOut
  BY <1>4, LateKeys
<1>5. CASE Insert \/ Backspace \/ Delete \/ Move \/ Older \/ Newer \/ Complete \/ Ignore
  <2>1. Handled
    BY <1>5 DEF Insert, Backspace, Delete, Move, Older, Newer, Complete, Ignore
  <2>2. \E ks : "none" \notin ks /\ Gets(ks)
    <3>1. Insert \/ Backspace => Gets({"Char"}) \/ Gets({"Backspace"})
      BY DEF Insert, Backspace
    <3>2. Delete \/ Older \/ Newer \/ Complete => Gets({"Delete", "CtrlD"}) \/ Gets({"Up"}) \/ Gets({"Down"}) \/ Gets({"Tab"})
      BY DEF Delete, Older, Newer, Complete
    <3>3. Move => Gets({"Left"}) \/ Gets({"Right"}) \/ Gets({"Home"}) \/ Gets({"End"})
      BY Zenon DEF Move
    <3>4. Ignore => \/ Gets({"Unknown", "Escape"}) \/ Gets({"Delete"}) \/ Gets({"CtrlD"}) \/ Gets({"Up"}) \/ Gets({"Down"})
                    \/ Gets({"Up", "Down", "Home", "End", "Delete", "Tab", "CtrlD"}) \/ Gets({"Left", "Right"})
                    \/ Gets({"Left", "Backspace"}) \/ Gets({"Home"}) \/ Gets({"Right"}) \/ Gets({"End"})
      BY Zenon DEF Ignore, Ignored
    <3>5. event.key # "none"
      BY <1>5, <3>1, <3>2, <3>3, <3>4 DEF Gets
    <3> QED BY <3>5 DEF Gets
  <2> QED BY <2>1, <2>2, ThereIsAKey, HandledKeys
<1>6. CASE Enter \/ Interrupt \/ Answer
  <2>1. Handled
    BY <1>6 DEF Enter, Interrupt, Answer
  <2>2. \E ks : "none" \notin ks /\ Gets(ks)
    <3>1. Gets({"Enter"}) \/ Gets({"CtrlC"}) \/ Gets({"CtrlD"}) \/ Gets({"Enter", "CtrlC"})
      BY <1>6, Zenon DEF Enter, Interrupt, Answer
    <3>2. event.key # "none"
      BY <3>1 DEF Gets
    <3> QED BY <3>2 DEF Gets
  <2> QED BY <2>1, <2>2, ThereIsAKey, HandledKeys
<1>7. CASE NextLine \/ animationLoop \/ Answered \/ Stopped \/ Throws \/ Destroy \/ Destroyed \/ enqueueLog \/ output
  <2>1. UNCHANGED keyboard
    BY <1>7 DEF NextLine, animationLoop, Answered, Stopped, Throws, Destroy, Destroyed, enqueueLog, output, Alone, keyboard
  <2> QED BY <2>1, SameKeys
<1>8. CASE setSink \/ UNCHANGED vars
  BY <1>8, SameKeys DEF vars, console, setSink, keyboard
<1> QED BY <1>1, <1>2, <1>3, <1>4, <1>5, <1>6, <1>7, <1>8 DEF Next

\* Keys that come in one piece are read whole and handled in the order they
\* were pressed, however far ahead and in whatever mixture: readKey() consumes
\* the bytes of an arrow, of Delete and of a character of UTF-8 to the last,
\* and no byte of the next key.
THEOREM KeysInOrder == Spec => []KeysWhole
<1>1. KeysOK => KeysWhole
  <2> SUFFICES ASSUME KeysOK, ~garbled
               PROVE  IF event = NoKey THEN seq \o wire = Bytes(sent)
                      ELSE sent # <<>> /\ event = EventOf(sent[1]) /\ wire = Bytes(Tail(sent))
    BY DEF KeysWhole
  <2>1. CASE Silent
    <3>1. Bytes(<<>>) = <<>> /\ <<>> \o <<>> = <<>>
      <4>1. <<>> \in Seq({})
        BY EmptySeq
      <4> QED BY <4>1, FirstOfKeys, ConcatEmptySeq
    <3> QED BY <2>1, <3>1 DEF Silent
  <2>2. CASE Coming
    <3>1. sent \in Seq(Tidy) /\ sent # <<>> /\ event = NoKey
      BY <2>2 DEF KeysOK, Coming
    <3>2. PICK a \in Seq(WireBytes) : a = Bytes(Tail(sent)) /\ Bytes(sent) = CodeOf(sent[1]) \o a
      BY <3>1, FirstSent
    <3>3. PICK q \in Seq(WireBytes), rest \in Seq(WireBytes) :
            q = seq /\ CodeOf(sent[1]) = q \o rest /\ wire = rest \o a
      BY <2>2, <3>2 DEF Coming
    <3>4. (q \o rest) \o a = q \o (rest \o a)
      BY ConcatAssociative
    <3> QED BY <3>1, <3>2, <3>3, <3>4
  <2>3. CASE Came
    BY <2>3 DEF Came
  <2> QED BY <2>1, <2>2, <2>3 DEF KeysOK
<1> QED BY <1>1, InitKeys, NextKeys, PTL DEF Spec
-----------------------------------------------------------------------------
(* Lines are cut where they were put together *)

\* The scanner comes from s to t by the characters of x.
Leads(s, x, t) ==
  \E f : f[0] = s /\ f[Len(x)] = t /\ \A i \in 1..Len(x) : f[i] = Scan(f[i - 1], x[i])
\* Between characters, none of them escaped.
Between(ts, w, q) == [tokens |-> ts, current |-> w, quote |-> q, escaped |-> FALSE]

\* By one character, and by none.
LEMMA LeadsOne ==
  ASSUME NEW s, NEW c
  PROVE  Leads(s, <<c>>, Scan(s, c)) /\ Leads(s, <<>>, s)
<1>1. Leads(s, <<c>>, Scan(s, c))
  <2>1. PICK t : t = Scan(s, c)
    OBVIOUS
  <2>2. PICK f : f = [i \in 0..1 |-> IF i = 0 THEN s ELSE t]
    OBVIOUS
  <2>3. PICK x : x = <<c>>
    OBVIOUS
  <2>4. Len(x) = 1 /\ x[1] = c
    BY <2>3
  <2>5. f[0] = s /\ f[1] = t
    BY <2>2
  <2>6. \A i \in 1..1 : f[i] = Scan(f[i - 1], x[i])
    <3>1. \A i \in 1..1 : i = 1 /\ i - 1 = 0
      OBVIOUS
    <3> QED BY <2>1, <2>4, <2>5, <3>1
  <2>7. Leads(s, x, t)
    BY <2>4, <2>5, <2>6 DEF Leads
  <2> QED BY <2>1, <2>3, <2>7
<1>2. Leads(s, <<>>, s)
  <2>1. PICK f : f = [i \in 0..0 |-> s]
    OBVIOUS
  <2>2. f[0] = s /\ Len(<<>>) = 0 /\ \A i \in 1..0 : FALSE
    BY <2>1
  <2> QED BY <2>2 DEF Leads
<1> QED BY <1>1, <1>2

\* By a piece, and by the next one.
LEMMA LeadsOn ==
  ASSUME NEW S, NEW x \in Seq(S), NEW y \in Seq(S), NEW s, NEW t, NEW u,
         Leads(s, x, t), Leads(t, y, u)
  PROVE  Leads(s, x \o y, u)
<1>1. PICK m \in Nat, n \in Nat : m = Len(x) /\ n = Len(y)
  BY LenProperties
<1>2. PICK f : f[0] = s /\ f[m] = t /\ \A i \in 1..m : f[i] = Scan(f[i - 1], x[i])
  BY <1>1 DEF Leads
<1>3. PICK g : g[0] = t /\ g[n] = u /\ \A i \in 1..n : g[i] = Scan(g[i - 1], y[i])
  BY <1>1 DEF Leads
<1>4. PICK z : z = x \o y
  OBVIOUS
<1>5. Len(z) = m + n /\ \A i \in 1..m + n : z[i] = IF i <= m THEN x[i] ELSE y[i - m]
  BY <1>1, <1>4, ConcatProperties
<1>6. PICK h : h = [i \in 0..m + n |-> IF i <= m THEN f[i] ELSE g[i - m]]
  OBVIOUS
<1>7. ASSUME NEW i \in 1..m + n PROVE h[i] = Scan(h[i - 1], z[i])
  <2>1. CASE i <= m
    <3>1. i \in 1..m /\ i - 1 <= m /\ i - 1 \in 0..m + n /\ i \in 0..m + n
      BY <2>1
    <3>2. h[i] = f[i] /\ h[i - 1] = f[i - 1] /\ z[i] = x[i]
      BY <1>5, <1>6, <2>1, <3>1
    <3> QED BY <1>2, <3>1, <3>2
  <2>2. CASE i = m + 1
    <3>1. m <= m /\ ~(i <= m) /\ i - m = 1 /\ i - 1 = m /\ 1 \in 1..n /\ 1 - 1 = 0 /\ m \in 0..m + n /\ i \in 0..m + n
      BY <2>2
    <3>2. h[i] = g[1] /\ h[i - 1] = t /\ z[i] = y[1]
      BY <1>2, <1>5, <1>6, <3>1
    <3>3. g[1] = Scan(t, y[1])
      BY <1>3, <3>1
    <3> QED BY <3>2, <3>3
  <2>3. CASE i > m + 1
    <3>1. /\ ~(i <= m) /\ ~(i - 1 <= m) /\ i - m \in 1..n /\ (i - m) - 1 = (i - 1) - m
          /\ i - 1 \in 0..m + n /\ i \in 0..m + n
      BY <2>3
    <3>2. h[i] = g[i - m] /\ h[i - 1] = g[(i - m) - 1] /\ z[i] = y[i - m]
      BY <1>5, <1>6, <3>1
    <3> QED BY <1>3, <3>1, <3>2
  <2> QED BY <2>1, <2>2, <2>3
<1>8. h[0] = s
  <2>1. 0 \in 0..m + n /\ 0 <= m
    OBVIOUS
  <2> QED BY <1>2, <1>6, <2>1
<1>9. h[m + n] = u
  <2>1. CASE n = 0
    <3>1. m + n = m /\ m \in 0..m + n /\ m <= m
      BY <2>1
    <3>2. h[m + n] = t
      BY <1>2, <1>6, <3>1
    <3>3. t = u
      BY <1>3, <2>1
    <3> QED BY <3>2, <3>3
  <2>2. CASE n # 0
    <3>1. m + n \in 0..m + n /\ ~(m + n <= m) /\ (m + n) - m = n
      BY <2>2
    <3> QED BY <1>3, <1>6, <3>1
  <2> QED BY <2>1, <2>2
<1>10. Leads(s, z, u)
  <2>1. h[Len(z)] = u /\ \A i \in 1..Len(z) : h[i] = Scan(h[i - 1], z[i])
    BY <1>5, <1>7, <1>9
  <2> QED BY <1>8, <2>1 DEF Leads
<1> QED BY <1>4, <1>10

\* There is one such place, and Scanned() arrives there.
LEMMA LeadsToScanned ==
  ASSUME NEW S, NEW x \in Seq(S), NEW t, Leads(ScanStart, x, t)
  PROVE  Scanned(x)[Len(x)] = t
<1>1. PICK n \in Nat : n = Len(x)
  BY LenProperties
<1>2. PICK f : f[0] = ScanStart /\ f[n] = t /\ \A i \in 1..n : f[i] = Scan(f[i - 1], x[i])
  BY <1>1 DEF Leads
<1>3. PICK g : g = Scanned(x)
  OBVIOUS
<1>4. g = [i \in 0..n |-> IF i = 0 THEN ScanStart ELSE Scan(g[i - 1], x[i])]
  BY <1>1, <1>3, ScannedSteps
<1>5. PICK T : T = {i \in Nat : i <= n => g[i] = f[i]}
  OBVIOUS
<1>6. 0 \in T
  <2>1. g[0] = ScanStart
    BY <1>4
  <2> QED BY <1>2, <1>5, <2>1
<1>7. ASSUME NEW i \in Nat, i \in T PROVE i + 1 \in T
  <2>1. SUFFICES ASSUME i + 1 <= n PROVE g[i + 1] = f[i + 1]
    BY <1>5
  <2>2. i + 1 \in 1..n /\ i + 1 \in 0..n /\ i + 1 # 0 /\ (i + 1) - 1 = i /\ i <= n
    BY <2>1
  <2>3. g[i] = f[i]
    BY <1>5, <1>7, <2>2
  <2>4. g[i + 1] = Scan(g[i], x[i + 1])
    BY <1>4, <2>2
  <2>5. f[i + 1] = Scan(f[i], x[i + 1])
    BY <1>2, <2>2
  <2> QED BY <2>3, <2>4, <2>5
<1>8. n \in T /\ n <= n
  BY <1>6, <1>7, Counting
<1> QED BY <1>1, <1>2, <1>3, <1>5, <1>8

\* Pieces behind each other, each leading on from where the last one led.
LEMMA FlatLeads ==
  ASSUME NEW S, NEW p \in Seq(Seq(S)), NEW h,
         \A i \in 1..Len(p) : Leads(h[i - 1], p[i], h[i])
  PROVE  Leads(h[0], FlattenSeq(p), h[Len(p)])
<1>1. PICK n \in Nat : n = Len(p)
  BY LenProperties
<1>2. PICK f : /\ \A i \in 0..n : f[i] \in Seq(S)
               /\ f[0] = <<>> /\ \A i \in 1..n : f[i] = f[i - 1] \o p[i]
               /\ FlattenSeq(p) = f[n]
  BY <1>1, FlatSteps
<1>3. PICK T : T = {i \in Nat : i <= n => Leads(h[0], f[i], h[i])}
  OBVIOUS
<1>4. 0 \in T
  <2>1. Leads(h[0], <<>>, h[0])
    BY LeadsOne
  <2> QED BY <1>2, <1>3, <2>1
<1>5. ASSUME NEW i \in Nat, i \in T PROVE i + 1 \in T
  <2>1. SUFFICES ASSUME i + 1 <= n PROVE Leads(h[0], f[i + 1], h[i + 1])
    <3>1. i + 1 \in Nat
      OBVIOUS
    <3> QED BY <1>3, <3>1, Zenon
  <2>2. i + 1 \in 1..n /\ (i + 1) - 1 = i /\ i <= n /\ i \in 0..n
    BY <2>1
  <2>3. Leads(h[0], f[i], h[i])
    BY <1>3, <1>5, <2>2
  <2>4. Leads(h[i], p[i + 1], h[i + 1])
    BY <1>1, <2>2
  <2>5. f[i] \in Seq(S) /\ p[i + 1] \in Seq(S)
    BY <1>1, <1>2, <2>2, ElementOfSeq
  <2>6. Leads(h[0], f[i] \o p[i + 1], h[i + 1])
    BY <2>3, <2>4, <2>5, LeadsOn
  <2>7. f[i + 1] = f[i] \o p[i + 1]
    BY <1>2, <2>2
  <2> QED BY <2>6, <2>7
<1>6. n \in T /\ n <= n
  BY <1>4, <1>5, Counting
<1> QED BY <1>1, <1>2, <1>3, <1>6

-----------------------------------------------------------------------------
\* A character that stands for itself inside the quotes q.
Plain(q, c) ==
  /\ ~(c = "\\" /\ q # "'") /\ ~(c \in {"\"", "'"} /\ q \in {"", c}) /\ ~(c = " " /\ q = "")

\* A character kept joins the word.
LEMMA KeptBetween ==
  ASSUME NEW ts, NEW w, NEW q, NEW c, NEW s,
         s = Between(ts, w, q) \/ s = [Between(ts, w, q) EXCEPT !.escaped = TRUE]
  PROVE  Kept(s, c) = Between(ts, Append(w, c), q)
<1>0. PICK e : s = [tokens |-> ts, current |-> w, quote |-> q, escaped |-> e]
  <2>1. PICK f, t : f = FALSE /\ t = TRUE
    OBVIOUS
  <2>2. PICK r : r = [tokens |-> ts, current |-> w, quote |-> q, escaped |-> f]
    OBVIOUS
  <2>3. [r EXCEPT !.escaped = t] = [tokens |-> ts, current |-> w, quote |-> q, escaped |-> t]
    BY <2>2
  <2>4. Between(ts, w, q) = r
    BY <2>1, <2>2, Zenon DEF Between
  <2>5. s = r \/ s = [r EXCEPT !.escaped = t]
    BY <2>1, <2>4, Zenon
  <2> QED BY <2>2, <2>3, <2>5, Zenon
<1>1. PICK v : v = Append(w, c)
  OBVIOUS
<1>2. s.current = w
  BY <1>0
<1>3. Kept(s, c) = [s EXCEPT !.current = v, !.escaped = FALSE]
  BY <1>1, <1>2, Zenon DEF Kept
<1>4. [s EXCEPT !.current = v, !.escaped = FALSE] = [tokens |-> ts, current |-> v, quote |-> q, escaped |-> FALSE]
  <2>1. PICK t : t = [s EXCEPT !.current = v]
    OBVIOUS
  <2>2. t = [tokens |-> ts, current |-> v, quote |-> q, escaped |-> e]
    BY <1>0, <2>1
  <2>3. PICK b : b = FALSE
    OBVIOUS
  <2>4. [t EXCEPT !.escaped = b] = [tokens |-> ts, current |-> v, quote |-> q, escaped |-> b]
    BY <2>2
  <2>5. [s EXCEPT !.current = v, !.escaped = FALSE] = [t EXCEPT !.escaped = FALSE]
    BY <2>1
  <2> QED BY <2>3, <2>4, <2>5, Zenon
<1> QED BY <1>1, <1>3, <1>4, Zenon DEF Between

\* So does one that stands for itself.
LEMMA PlainScan ==
  ASSUME NEW ts, NEW w, NEW q, NEW c, Plain(q, c)
  PROVE  Scan(Between(ts, w, q), c) = Between(ts, Append(w, c), q)
<1>1. PICK s : s = Between(ts, w, q)
  OBVIOUS
<1>2. s.escaped = FALSE /\ s.quote = q
  BY <1>1 DEF Between
<1>3. Scan(s, c) = Kept(s, c)
  BY <1>2 DEF Scan, Plain
<1>4. Kept(s, c) = Between(ts, Append(w, c), q)
  BY <1>1, KeptBetween
<1> QED BY <1>1, <1>3, <1>4

\* A character behind a backslash, outside single quotes.
LEMMA EscapedScan ==
  ASSUME NEW ts, NEW w, NEW q, q # "'", NEW c
  PROVE  Leads(Between(ts, w, q), <<"\\", c>>, Between(ts, Append(w, c), q))
<1>1. PICK s : s = Between(ts, w, q)
  OBVIOUS
<1>2. PICK t : t = [s EXCEPT !.escaped = TRUE]
  OBVIOUS
<1>3. s.escaped = FALSE /\ s.quote = q
  BY <1>1 DEF Between
<1>4. Scan(s, "\\") = t
  BY <1>2, <1>3 DEF Scan
<1>5. t.escaped = TRUE
  BY <1>1, <1>2 DEF Between
<1>6. Scan(t, c) = Kept(t, c)
  BY <1>5 DEF Scan
<1>7. Kept(t, c) = Between(ts, Append(w, c), q)
  BY <1>1, <1>2, KeptBetween
<1>8. Leads(s, <<"\\">>, t)
  BY <1>4, LeadsOne
<1>9. Leads(t, <<c>>, Between(ts, Append(w, c), q))
  BY <1>6, <1>7, LeadsOne
<1>10. PICK U : U = {"\\", c}
  OBVIOUS
<1>11. PICK b \in U, d \in U : b = "\\" /\ d = c
  BY <1>10
<1>12. <<b>> \in Seq(U) /\ <<d>> \in Seq(U) /\ <<b>> \o <<d>> = <<b, d>>
  <2>1. <<b>> \in Seq(U) /\ <<d>> \in Seq(U) /\ <<b, d>> \in Seq(U)
    OBVIOUS
  <2>2. PICK x \in Seq(U), y \in Seq(U), z \in Seq(U) : x = <<b>> /\ y = <<d>> /\ z = <<b, d>>
    BY <2>1, Zenon
  <2>3. Len(x) = 1 /\ x[1] = b /\ Len(y) = 1 /\ y[1] = d /\ Len(z) = 2 /\ z[1] = b /\ z[2] = d
    BY <2>2
  <2>4. /\ x \o y \in Seq(U) /\ Len(x \o y) = Len(x) + Len(y)
        /\ \A i \in 1..Len(x) + Len(y) : (x \o y)[i] = IF i <= Len(x) THEN x[i] ELSE y[i - Len(x)]
    BY ConcatProperties
  <2>5. \A i \in 1..2 : (x \o y)[i] = z[i]
    <3>1. \A i \in 1..2 : (x \o y)[i] = IF i <= 1 THEN x[i] ELSE y[i - 1]
      BY <2>3, <2>4
    <3>2. (x \o y)[1] = x[1] /\ (x \o y)[2] = y[1]
      <4>1. 1 \in 1..2 /\ 2 \in 1..2 /\ 1 <= 1 /\ ~(2 <= 1) /\ 2 - 1 = 1
        OBVIOUS
      <4>2. (x \o y)[2] = y[2 - 1] /\ (x \o y)[1] = x[1]
        BY <3>1, <4>1, Zenon
      <4> QED BY <4>1, <4>2
    <3>3. \A i \in 1..2 : i = 1 \/ i = 2
      OBVIOUS
    <3> QED BY <2>3, <3>2, <3>3
  <2>6. x \o y = z
    BY <2>3, <2>4, <2>5, SeqEqual
  <2> QED BY <2>1, <2>2, <2>6, Zenon
<1>13. Leads(s, <<b>>, t) /\ Leads(t, <<d>>, Between(ts, Append(w, c), q))
  BY <1>8, <1>9, <1>11, Zenon
<1>14. Leads(s, <<b>> \o <<d>>, Between(ts, Append(w, c), q))
  BY <1>12, <1>13, LeadsOn
<1> QED BY <1>1, <1>11, <1>12, <1>14, Zenon

\* The beginnings of a sequence, one longer than the other.
LEMMA Beginnings ==
  ASSUME NEW S, NEW w \in Seq(S)
  PROVE  /\ SubSeq(w, 1, 0) = <<>> /\ SubSeq(w, 1, Len(w)) = w
         /\ \A i \in 1..Len(w) : Append(SubSeq(w, 1, i - 1), w[i]) = SubSeq(w, 1, i)
<1>1. PICK n \in Nat : n = Len(w)
  BY LenProperties
<1>2. ASSUME NEW i \in 1..n PROVE Append(SubSeq(w, 1, i - 1), w[i]) = SubSeq(w, 1, i)
  <2>1. i - 1 \in 0..n /\ i \in 0..n
    OBVIOUS
  <2>0. w[i] \in S /\ SubSeq(w, 1, i - 1) \in Seq(S) /\ SubSeq(w, 1, i) \in Seq(S)
    BY <1>1, <2>1, ElementOfSeq
  <2>2. PICK a \in Seq(S), b \in Seq(S), c \in S : a = SubSeq(w, 1, i - 1) /\ b = SubSeq(w, 1, i) /\ c = w[i]
    BY <2>0
  <2>3. Len(a) = i - 1 /\ \A j \in 1..i - 1 : a[j] = w[j]
    BY <1>1, <2>1, <2>2
  <2>4. Len(b) = i /\ \A j \in 1..i : b[j] = w[j]
    BY <1>1, <2>1, <2>2
  <2>5. Append(a, c) = b
    <3>1. Append(a, c) \in Seq(S) /\ Len(Append(a, c)) = i
      BY <2>3
    <3>2. \A j \in 1..i : Append(a, c)[j] = b[j]
      BY <2>2, <2>3, <2>4
    <3> QED BY <2>4, <3>1, <3>2, SeqEqual
  <2> QED BY <2>2, <2>5
<1>3. SubSeq(w, 1, 0) = <<>>
  OBVIOUS
<1>4. SubSeq(w, 1, n) = w
  BY <1>1
<1> QED BY <1>1, <1>2, <1>3, <1>4

\* A word written piece by piece is read character by character.
LEMMA EscapedLeads ==
  ASSUME NEW S, NEW w \in Seq(S), NEW chars, chars \subseteq Quotes, NEW ts, NEW q, q # "'",
         \A c \in S : c \notin chars => Plain(q, c)
  PROVE  Leads(Between(ts, <<>>, q), Escaped(w, chars), Between(ts, w, q))
<1>1. PICK n \in Nat : n = Len(w) /\ DOMAIN w = 1..n
  BY LenProperties
<1>2. PICK p : p = Pieces(w, chars)
  OBVIOUS
<1>3. p \in Seq(Seq(S \cup Quotes)) /\ Len(p) = n /\ Escaped(w, chars) = FlattenSeq(p)
  BY <1>1, <1>2, EscapedPieces
<1>4. PICK h : h = [i \in 0..n |-> Between(ts, SubSeq(w, 1, i), q)]
  OBVIOUS
<1>5. ASSUME NEW i \in 1..n PROVE Leads(h[i - 1], p[i], h[i])
  <2>1. PICK c \in S : c = w[i]
    BY <1>1, ElementOfSeq
  <2>2. PICK a : a = SubSeq(w, 1, i - 1)
    OBVIOUS
  <2>3. i - 1 \in 0..n /\ i \in 0..n
    OBVIOUS
  <2>4. Append(a, c) = SubSeq(w, 1, i)
    BY <1>1, <2>1, <2>2, Beginnings
  <2>5. h[i - 1] = Between(ts, a, q) /\ h[i] = Between(ts, Append(a, c), q)
    BY <1>4, <2>2, <2>3, <2>4
  <2>6. CASE c \in chars
    <3>1. p[i] = <<"\\", c>>
      BY <1>1, <1>2, <2>1, <2>6 DEF Pieces
    <3>2. Leads(Between(ts, a, q), <<"\\", c>>, Between(ts, Append(a, c), q))
      BY EscapedScan
    <3> QED BY <2>5, <3>1, <3>2, Zenon
  <2>7. CASE c \notin chars
    <3>1. p[i] = <<c>>
      BY <1>1, <1>2, <2>1, <2>7 DEF Pieces
    <3>2. Scan(Between(ts, a, q), c) = Between(ts, Append(a, c), q)
      BY <2>7, PlainScan
    <3>3. Leads(Between(ts, a, q), <<c>>, Scan(Between(ts, a, q), c))
      BY LeadsOne
    <3> QED BY <2>5, <3>1, <3>2, <3>3, Zenon
  <2> QED BY <2>6, <2>7
<1>6. Leads(h[0], FlattenSeq(p), h[n])
  BY <1>3, <1>5, FlatLeads
<1>7. h[0] = Between(ts, <<>>, q) /\ h[n] = Between(ts, w, q)
  <2>1. 0 \in 0..n /\ n \in 0..n
    OBVIOUS
  <2>2. SubSeq(w, 1, 0) = <<>> /\ SubSeq(w, 1, n) = w
    BY <1>1, Beginnings
  <2> QED BY <1>4, <2>1, <2>2
<1> QED BY <1>3, <1>6, <1>7

\* In single quotes every character but the quote stands for itself.
LEMMA SingleLeads ==
  ASSUME NEW S, NEW w \in Seq(S), NEW ts, \A i \in DOMAIN w : w[i] # "'"
  PROVE  Leads(Between(ts, <<>>, "'"), w, Between(ts, w, "'"))
<1>1. PICK n \in Nat : n = Len(w) /\ DOMAIN w = 1..n
  BY LenProperties
<1>2. PICK h : h = [i \in 0..n |-> Between(ts, SubSeq(w, 1, i), "'")]
  OBVIOUS
<1>3. ASSUME NEW i \in 1..n PROVE h[i] = Scan(h[i - 1], w[i])
  <2>1. PICK c : c = w[i]
    OBVIOUS
  <2>2. PICK a : a = SubSeq(w, 1, i - 1)
    OBVIOUS
  <2>3. i - 1 \in 0..n /\ i \in 0..n
    OBVIOUS
  <2>4. Append(a, c) = SubSeq(w, 1, i)
    BY <1>1, <2>1, <2>2, Beginnings
  <2>5. h[i - 1] = Between(ts, a, "'") /\ h[i] = Between(ts, Append(a, c), "'")
    BY <1>2, <2>2, <2>3, <2>4
  <2>6. Plain("'", c)
    BY <1>1, <2>1 DEF Plain
  <2>7. Scan(Between(ts, a, "'"), c) = Between(ts, Append(a, c), "'")
    BY <2>6, PlainScan
  <2> QED BY <2>1, <2>5, <2>7
<1>4. h[0] = Between(ts, <<>>, "'") /\ h[n] = Between(ts, w, "'")
  <2>1. 0 \in 0..n /\ n \in 0..n
    OBVIOUS
  <2>2. SubSeq(w, 1, 0) = <<>> /\ SubSeq(w, 1, n) = w
    BY <1>1, Beginnings
  <2> QED BY <1>2, <2>1, <2>2
<1>5. h[0] = Between(ts, <<>>, "'") /\ h[Len(w)] = Between(ts, w, "'")
      /\ \A i \in 1..Len(w) : h[i] = Scan(h[i - 1], w[i])
  BY <1>1, <1>3, <1>4
<1> QED BY <1>5 DEF Leads
\* The scanner with one of its parts changed.
Scanner(ts, w, q, e) == [tokens |-> ts, current |-> w, quote |-> q, escaped |-> e]

WithQuote(t, v) == [t EXCEPT !.quote = v]
WithWords(t, v, z) == [t EXCEPT !.tokens = v, !.current = z]

\* The quote opened or closed.
LEMMA QuoteChanged ==
  ASSUME NEW ts, NEW w, NEW q, NEW e, NEW v
  PROVE  WithQuote(Scanner(ts, w, q, e), v) = Scanner(ts, w, v, e)
<1>1. PICK t : t = Scanner(ts, w, q, e)
  OBVIOUS
<1>2. [t EXCEPT !.quote = v] = Scanner(ts, w, v, e)
  BY <1>1 DEF Scanner
<1> QED BY <1>1, <1>2, Zenon DEF WithQuote

\* The word ended.
LEMMA WordsChanged ==
  ASSUME NEW ts, NEW w, NEW q, NEW e, NEW v, NEW z
  PROVE  WithWords(Scanner(ts, w, q, e), v, z) = Scanner(v, z, q, e)
<1>1. PICK t : t = Scanner(ts, w, q, e)
  OBVIOUS
<1>2. PICK u : u = [t EXCEPT !.tokens = v]
  OBVIOUS
<1>3. u = [tokens |-> v, current |-> w, quote |-> q, escaped |-> e]
  BY <1>1, <1>2 DEF Scanner
<1>4. [u EXCEPT !.current = z] = [tokens |-> v, current |-> z, quote |-> q, escaped |-> e]
  BY <1>3
<1>5. [t EXCEPT !.tokens = v, !.current = z] = [u EXCEPT !.current = z]
  BY <1>1, <1>2 DEF Scanner
<1>6. [t EXCEPT !.tokens = v, !.current = z] = Scanner(v, z, q, e)
  BY <1>4, <1>5 DEF Scanner
<1> QED BY <1>1, <1>6, Zenon DEF WithWords

\* A quote opened, or closed.
LEMMA QuoteScan ==
  ASSUME NEW ts, NEW w, NEW c \in {"\"", "'"}
  PROVE  /\ Leads(Between(ts, w, ""), <<c>>, Between(ts, w, c))
         /\ Leads(Between(ts, w, c), <<c>>, Between(ts, w, ""))
<1>1. ASSUME NEW q \in {"", c}, NEW r, r = IF q = c THEN "" ELSE c
      PROVE  Leads(Between(ts, w, q), <<c>>, Between(ts, w, r))
  <2>1. PICK s : s = Between(ts, w, q)
    OBVIOUS
  <2>2. s.quote = q /\ s.escaped = FALSE
    BY <2>1 DEF Between
  <2>3. c # "\\"
    OBVIOUS
  <2>4. Scan(s, c) = [s EXCEPT !.quote = IF @ = c THEN "" ELSE c]
    BY <2>2, <2>3 DEF Scan
  <2>5. Scan(s, c) = WithQuote(s, r)
    BY <1>1, <2>2, <2>4 DEF WithQuote
  <2>e. PICK no : no = FALSE
    OBVIOUS
  <2>6. s = Scanner(ts, w, q, no) /\ Between(ts, w, r) = Scanner(ts, w, r, no)
    BY <2>1, <2>e, Zenon DEF Between, Scanner
  <2>7. WithQuote(Scanner(ts, w, q, no), r) = Scanner(ts, w, r, no)
    <3>1. \A x, y, z : WithQuote(Scanner(ts, w, x, z), y) = Scanner(ts, w, y, z)
      BY QuoteChanged, ZenonT(30)
    <3> QED BY <3>1, Zenon
  <2>8. Scan(s, c) = Between(ts, w, r)
    BY <2>5, <2>6, <2>7, Zenon
  <2> QED BY <2>1, <2>8, LeadsOne
<1>2. Leads(Between(ts, w, ""), <<c>>, Between(ts, w, c))
  <2>1. PICK q, r : q \in {"", c} /\ q = "" /\ r = c /\ r = IF q = c THEN "" ELSE c
    OBVIOUS
  <2>2. Leads(Between(ts, w, q), <<c>>, Between(ts, w, r))
    BY <1>1, <2>1
  <2> QED BY <2>1, <2>2
<1>3. Leads(Between(ts, w, c), <<c>>, Between(ts, w, ""))
  <2>1. PICK q, r : q \in {"", c} /\ q = c /\ r = "" /\ r = IF q = c THEN "" ELSE c
    OBVIOUS
  <2>2. Leads(Between(ts, w, q), <<c>>, Between(ts, w, r))
    BY <1>1, <2>1
  <2> QED BY <2>1, <2>2
<1> QED BY <1>2, <1>3

\* A space outside quotes ends a word.
LEMMA SpaceScan ==
  ASSUME NEW ts, NEW w, w # <<>>
  PROVE  Leads(Between(ts, w, ""), <<" ">>, Between(Append(ts, w), <<>>, ""))
<1>1. PICK s : s = Between(ts, w, "")
  OBVIOUS
<1>2. s.quote = "" /\ s.escaped = FALSE /\ s.current = w /\ s.tokens = ts
  BY <1>1 DEF Between
<1>3. Scan(s, " ") = Ended(s)
  BY <1>2 DEF Scan
<1>4. PICK v : v = Append(ts, w)
  OBVIOUS
<1>5. Ended(s) = WithWords(s, v, <<>>)
  BY <1>2, <1>4 DEF Ended, WithWords
<1>e. PICK no : no = FALSE
  OBVIOUS
<1>6. s = Scanner(ts, w, "", no) /\ Between(v, <<>>, "") = Scanner(v, <<>>, "", no)
  BY <1>1, <1>e, Zenon DEF Between, Scanner
<1>7. WithWords(Scanner(ts, w, "", no), v, <<>>) = Scanner(v, <<>>, "", no)
  <2>1. \A x, y, z : WithWords(Scanner(ts, w, x, z), v, y) = Scanner(v, y, x, z)
    BY WordsChanged
  <2> QED BY <2>1, Zenon
<1>8. Scan(s, " ") = Between(v, <<>>, "")
  BY <1>3, <1>5, <1>6, <1>7, Zenon
<1>9. Leads(s, <<" ">>, Scan(s, " "))
  BY LeadsOne
<1> QED BY <1>1, <1>4, <1>8, <1>9, Zenon

\* However a word is quoted, it is read as it was meant.
LEMMA QuotedLeads ==
  ASSUME NEW S, NEW w \in Seq(S), NEW style \in {"double", "single", "escape"}, NEW ts,
         style = "single" => \A i \in DOMAIN w : w[i] # "'"
  PROVE  Leads(Between(ts, <<>>, ""), Quoted(w, style), Between(ts, w, ""))
<1>1. PICK U : U = S \cup Quotes
  OBVIOUS
<1>2. PICK d \in Seq(U), q \in Seq(U) : d = <<"\"">> /\ q = <<"'">>
  <2>1. "\"" \in U /\ "'" \in U
    BY <1>1 DEF Quotes
  <2>2. PICK x \in U, y \in U : x = "\"" /\ y = "'"
    BY <2>1, Zenon
  <2>3. <<x>> \in Seq(U) /\ <<y>> \in Seq(U)
    OBVIOUS
  <2> QED BY <2>2, <2>3, Zenon
<1>3. CASE style = "double"
  <2>1. PICK m : m = Escaped(w, {"\"", "\\"})
    OBVIOUS
  <2>2. m \in Seq(U)
    BY <1>1, <2>1, EscapedText DEF Quotes
  <2>3. Leads(Between(ts, <<>>, "\""), m, Between(ts, w, "\""))
    <3>1. \A c \in S : c \notin {"\"", "\\"} => Plain("\"", c)
      BY DEF Plain
    <3>2. {"\"", "\\"} \subseteq Quotes /\ "\"" # "'"
      BY DEF Quotes
    <3> QED BY <2>1, <3>1, <3>2, EscapedLeads
  <2>4. /\ Leads(Between(ts, <<>>, ""), d, Between(ts, <<>>, "\""))
        /\ Leads(Between(ts, w, "\""), d, Between(ts, w, ""))
    BY <1>2, QuoteScan
  <2>5. Leads(Between(ts, <<>>, ""), d \o m, Between(ts, w, "\"")) /\ d \o m \in Seq(U)
    BY <2>2, <2>3, <2>4, LeadsOn, ConcatProperties
  <2>6. Leads(Between(ts, <<>>, ""), (d \o m) \o d, Between(ts, w, ""))
    BY <2>4, <2>5, LeadsOn
  <2>7. Quoted(w, style) = (d \o m) \o d
    BY <1>2, <1>3, <2>1 DEF Quoted
  <2> QED BY <2>6, <2>7
<1>4. CASE style = "single"
  <2>1. w \in Seq(U)
    BY <1>1, SeqMonotonic
  <2>2. Leads(Between(ts, <<>>, "'"), w, Between(ts, w, "'"))
    BY <1>4, SingleLeads
  <2>3. /\ Leads(Between(ts, <<>>, ""), q, Between(ts, <<>>, "'"))
        /\ Leads(Between(ts, w, "'"), q, Between(ts, w, ""))
    BY <1>2, QuoteScan
  <2>4. Leads(Between(ts, <<>>, ""), q \o w, Between(ts, w, "'")) /\ q \o w \in Seq(U)
    BY <2>1, <2>2, <2>3, LeadsOn, ConcatProperties
  <2>5. Leads(Between(ts, <<>>, ""), (q \o w) \o q, Between(ts, w, ""))
    BY <2>3, <2>4, LeadsOn
  <2>6. Quoted(w, style) = (q \o w) \o q
    BY <1>2, <1>4 DEF Quoted
  <2> QED BY <2>5, <2>6
<1>5. CASE style = "escape"
  <2>1. \A c \in S : c \notin {" ", "\"", "'", "\\"} => Plain("", c)
    BY DEF Plain
  <2>2. {" ", "\"", "'", "\\"} \subseteq Quotes /\ "" # "'"
    BY DEF Quotes
  <2>3. Leads(Between(ts, <<>>, ""), Escaped(w, {" ", "\"", "'", "\\"}), Between(ts, w, ""))
    BY <2>1, <2>2, EscapedLeads
  <2> QED BY <1>5, <2>3 DEF Quoted
<1> QED BY <1>3, <1>4, <1>5

\* So the words of a line come back from what was written.
LEMMA SheetRead == ASSUME NEW l \in Lines PROVE tokenize(Sheet[l]) = l.words
<1>1. PICK U : U = LineLetters \cup Quotes
  OBVIOUS
<1>2. PICK ws \in Seq(Seq(LineLetters)) : ws = l.words /\ l.style \in {"double", "single", "escape"}
  BY LineAssumption
<1>3. PICK n \in Nat : n = Len(ws) /\ DOMAIN ws = 1..n
  BY LenProperties
<1>4. \A i \in 1..n : /\ ws[i] \in Seq(LineLetters) /\ ws[i] # <<>>
                      /\ l.style = "single" => \A j \in DOMAIN ws[i] : ws[i][j] # "'"
  <2>1. \A i \in 1..n : ws[i] \in Seq(LineLetters)
    BY <1>3, ElementOfSeq
  <2>2. \A i \in 1..n : ws[i] # <<>> /\ (l.style = "single" => "'" \notin Range(ws[i]))
    BY <1>2, <1>3, LineAssumption
  <2> QED BY <2>1, <2>2 DEF Range
<1>5. PICK p \in Seq(Seq(U)) : p = Parts(l) /\ Len(p) = n /\ Sheet[l] = FlattenSeq(p)
  <2>1. Sheet[l] = Written(l)
    BY DEF Sheet
  <2> QED BY <1>1, <1>2, <1>3, <2>1, PartsText, Zenon
<1>6. PICK h : h = [i \in 0..n |-> IF i = 0 THEN ScanStart ELSE Between(SubSeq(ws, 1, i - 1), ws[i], "")]
  OBVIOUS
<1>7. ASSUME NEW i \in 1..n PROVE Leads(h[i - 1], p[i], h[i])
  <2>1. PICK ts : ts = SubSeq(ws, 1, i - 1)
    OBVIOUS
  <2>2. PICK w \in Seq(LineLetters) : w = ws[i]
    BY <1>4
  <2>3. PICK m : m = Quoted(w, l.style)
    OBVIOUS
  <2>4. m \in Seq(U)
    BY <1>1, <1>2, <2>3, QuotedText
  <2>5. Leads(Between(ts, <<>>, ""), m, Between(ts, w, ""))
    <3>1. l.style = "single" => \A j \in DOMAIN w : w[j] # "'"
      BY <1>4, <2>2
    <3> QED BY <1>2, <2>3, <3>1, QuotedLeads
  <2>6. h[i] = Between(ts, w, "")
    <3>1. i \in 0..n /\ i # 0
      OBVIOUS
    <3> QED BY <1>6, <2>1, <2>2, <3>1
  <2>7. PICK b : b = IF i = 1 THEN <<>> ELSE <<" ">>
    OBVIOUS
  <2>8. p[i] = b \o m
    BY <1>2, <1>3, <1>5, <2>2, <2>3, <2>7 DEF Parts
  <2>9. b \in Seq(U) /\ Leads(h[i - 1], b, Between(ts, <<>>, ""))
    <3>1. CASE i = 1
      <4>1. i - 1 = 0 /\ 0 \in 0..n
        BY <3>1
      <4>2. h[i - 1] = ScanStart
        BY <1>6, <4>1
      <4>3. ts = <<>>
        BY <2>1, <4>1
      <4>4. Between(ts, <<>>, "") = ScanStart
        BY <4>3, Zenon DEF Between, ScanStart
      <4>5. b = <<>> /\ <<>> \in Seq(U)
        BY <2>7, <3>1
      <4> QED BY <4>2, <4>4, <4>5, LeadsOne
    <3>2. CASE i # 1
      <4>1. i - 1 \in 0..n /\ i - 1 # 0 /\ i - 1 \in 1..n
        BY <3>2
      <4>2. PICK k \in 1..n : k = i - 1
        BY <4>1
      <4>3. PICK v : v = SubSeq(ws, 1, k - 1)
        OBVIOUS
      <4>4. h[i - 1] = Between(v, ws[k], "")
        BY <1>6, <4>1, <4>2, <4>3
      <4>5. Append(v, ws[k]) = ts
        BY <1>3, <2>1, <4>2, <4>3, Beginnings
      <4>6. Leads(Between(v, ws[k], ""), <<" ">>, Between(Append(v, ws[k]), <<>>, ""))
        BY <1>4, SpaceScan
      <4>7. b = <<" ">>
        BY <2>7, <3>2
      <4>8. <<" ">> \in Seq(U)
        <5>1. " " \in U
          BY <1>1 DEF Quotes
        <5>2. PICK c \in U : c = " "
          BY <5>1, Zenon
        <5>3. <<c>> \in Seq(U)
          OBVIOUS
        <5> QED BY <5>2, <5>3, Zenon
      <4> QED BY <4>4, <4>5, <4>6, <4>7, <4>8, Zenon
    <3> QED BY <3>1, <3>2
  <2>10. Leads(h[i - 1], b \o m, Between(ts, w, ""))
    BY <2>4, <2>5, <2>9, LeadsOn
  <2> QED BY <2>6, <2>8, <2>10
<1>8. Leads(h[0], FlattenSeq(p), h[n])
  BY <1>5, <1>7, FlatLeads
<1>9. PICK x \in Seq(U) : x = Sheet[l]
  BY <1>5, FlatConcat
<1>10. h[0] = ScanStart
  <2>1. 0 \in 0..n
    OBVIOUS
  <2> QED BY <1>6, <2>1
<1>11. Leads(ScanStart, x, h[n])
  BY <1>5, <1>8, <1>9, <1>10
<1>12. Scanned(x)[Len(x)] = h[n]
  BY <1>11, LeadsToScanned
<1>13. Ended(h[n]).tokens = ws
  <2>1. CASE n = 0
    <3>1. h[n] = ScanStart
      BY <1>10, <2>1
    <3>2. Ended(ScanStart).tokens = <<>>
      BY DEF Ended, ScanStart
    <3>3. ws = <<>>
      BY <1>3, <2>1, EmptySeq
    <3> QED BY <3>1, <3>2, <3>3
  <2>2. CASE n # 0
    <3>1. n \in 1..n /\ n \in 0..n
      BY <2>2
    <3>a. PICK ts : ts = SubSeq(ws, 1, n - 1)
      OBVIOUS
    <3>b. PICK w : w = ws[n]
      OBVIOUS
    <3>2. ts = SubSeq(ws, 1, n - 1) /\ w = ws[n] /\ w # <<>>
      BY <1>4, <3>1, <3>a, <3>b
    <3>3. h[n] = Between(ts, w, "")
      BY <1>6, <2>2, <3>1, <3>2
    <3>4. Append(ts, w) = ws
      BY <1>3, <3>1, <3>2, Beginnings
    <3>5. Ended(Between(ts, w, "")).tokens = Append(ts, w)
      BY <3>2 DEF Ended, Between
    <3> QED BY <3>3, <3>4, <3>5
  <2> QED BY <2>1, <2>2
<1> QED BY <1>2, <1>9, <1>12, <1>13 DEF tokenize

-----------------------------------------------------------------------------
(* Commands run as they were meant *)

\* The command that runs is the one its line names.
JobMeant == job # NoJob => job.menu \o tokenize(job.line) = job.node \o job.args

\* What a result consists of.
LEMMA OutcomeParts ==
  \A d, r, x, y : d = Outcome(r, x, y) => d.result = r /\ d.node = x /\ d.args = y
BY DEF Outcome

\* Words after others, cut in two, are still the words after the others.
LEMMA WordsJoined ==
  ASSUME NEW U, NEW m \in Seq(U), NEW ts \in Seq(U), NEW n \in 0..Len(ts)
  PROVE  m \o ts = (m \o SubSeq(ts, 1, n)) \o SubSeq(ts, n + 1, Len(ts))
<1>1. n \in Nat /\ Len(ts) \in Nat /\ n <= Len(ts)
  BY LenProperties
<1>2. ts = SubSeq(ts, 1, n) \o SubSeq(ts, n + 1, Len(ts))
  <2>1. PICK a \in Seq(U), b \in Seq(U) : a = SubSeq(ts, 1, n) /\ b = SubSeq(ts, n + 1, Len(ts))
    <3>1. SubSeq(ts, 1, n) \in Seq(U) /\ SubSeq(ts, n + 1, Len(ts)) \in Seq(U)
      BY <1>1
    <3> QED BY <3>1
  <2>2. /\ Len(a) = n /\ \A i \in 1..n : a[i] = ts[i]
        /\ Len(b) = Len(ts) - n /\ \A i \in 1..Len(ts) - n : b[i] = ts[n + i]
    BY <1>1, <2>1
  <2>3. /\ a \o b \in Seq(U) /\ Len(a \o b) = Len(ts)
        /\ \A i \in 1..Len(ts) : (a \o b)[i] = IF i <= n THEN a[i] ELSE b[i - n]
    <3>1. /\ a \o b \in Seq(U) /\ Len(a \o b) = Len(a) + Len(b)
          /\ \A i \in 1..Len(a) + Len(b) : (a \o b)[i] = IF i <= Len(a) THEN a[i] ELSE b[i - Len(a)]
      BY ConcatProperties
    <3>2. Len(a) + Len(b) = Len(ts)
      BY <1>1, <2>2
    <3> QED BY <2>2, <3>1, <3>2
  <2>4. ASSUME NEW i \in 1..Len(ts) PROVE (a \o b)[i] = ts[i]
    <3>1. CASE i <= n
      <4>1. i \in 1..n
        BY <1>1, <3>1
      <4> QED BY <2>2, <2>3, <3>1, <4>1
    <3>2. CASE ~(i <= n)
      <4>1. i - n \in 1..Len(ts) - n /\ n + (i - n) = i
        BY <1>1, <3>2
      <4> QED BY <2>2, <2>3, <3>2, <4>1
    <3> QED BY <3>1, <3>2
  <2>5. a \o b = ts
    BY <2>3, <2>4, SeqEqual
  <2> QED BY <2>1, <2>5
<1>3. PICK a \in Seq(U), b \in Seq(U), c \in Seq(U) :
        a = m /\ b = SubSeq(ts, 1, n) /\ c = SubSeq(ts, n + 1, Len(ts))
  <2>1. SubSeq(ts, 1, n) \in Seq(U) /\ SubSeq(ts, n + 1, Len(ts)) \in Seq(U)
    BY <1>1
  <2> QED BY <2>1
<1>4. (a \o b) \o c = a \o (b \o c)
  BY ConcatAssociative, SMTT(20)
<1>5. ts = b \o c
  BY <1>2, <1>3, Zenon
<1>6. m \o ts = a \o (b \o c)
  BY <1>3, <1>5, Zenon
<1>7. (m \o SubSeq(ts, 1, n)) \o SubSeq(ts, n + 1, Len(ts)) = (a \o b) \o c
  BY <1>3, Zenon
<1> QED BY <1>4, <1>6, <1>7, Zenon

\* The tokens that lead down the tree, and the others, are the tokens.
LEMMA DispatchMeant ==
  ASSUME NEW m \in Menus, NEW S, NEW line \in Seq(S), NEW d, d = dispatch(m, line), d.result = "Executed"
  PROVE  m \o tokenize(line) = d.node \o d.args
<1>1. PICK ts \in Seq(Seq(S)) : ts = tokenize(line)
  BY TokensTypes
<1>2. PICK n : n = Consumed(m, ts)
  OBVIOUS
<1>3. n \in 0..Len(ts) /\ Len(ts) \in Nat
  BY <1>2, ConsumedNodes, LenProperties
<1>4. d.node = m \o SubSeq(ts, 1, n) /\ d.args = SubSeq(ts, n + 1, Len(ts))
  <2>1. \/ d = Outcome("Executed", m \o SubSeq(ts, 1, n), SubSeq(ts, n + 1, Len(ts)))
        \/ \E w : \E r \in {"Empty", "Exit", "NotFound", "NavigatedUp", "NavigatedMenu"} : d = Outcome(r, w, <<>>)
    BY <1>1, <1>2 DEF dispatch
  <2>2. ASSUME NEW r \in {"Empty", "Exit", "NotFound", "NavigatedUp", "NavigatedMenu"}, NEW w,
               d = Outcome(r, w, <<>>)
        PROVE  FALSE
    <3>1. d.result = r
      BY <2>2 DEF Outcome
    <3> QED BY <3>1
  <2>3. PICK node, args : /\ d = Outcome("Executed", node, args)
                          /\ node = m \o SubSeq(ts, 1, n) /\ args = SubSeq(ts, n + 1, Len(ts))
    BY <2>1, <2>2, Zenon
  <2>4. d.node = node /\ d.args = args
    <3>1. d = Outcome("Executed", node, args)
      BY <2>3, Zenon
    <3> QED BY <3>1, OutcomeParts
  <2> QED BY <2>3, <2>4
<1>5. m \o ts = (m \o SubSeq(ts, 1, n)) \o SubSeq(ts, n + 1, Len(ts))
  <2>1. PICK T : T = Seq(S) \cup Seq(Letters)
    OBVIOUS
  <2>2. m \in Seq(T)
    <3>1. m \in Seq(Seq(Letters))
      BY TreeAssumption DEF Nodes
    <3> QED BY <2>1, <3>1, SeqMonotonic
  <2>3. ts \in Seq(T)
    BY <2>1, SeqMonotonic
  <2> QED BY <1>3, <2>2, <2>3, WordsJoined
<1>6. d.node \o d.args = (m \o SubSeq(ts, 1, n)) \o SubSeq(ts, n + 1, Len(ts))
  BY <1>4, Zenon
<1> QED BY <1>1, <1>5, <1>6, Zenon

\* The command goes on with another prompt, or with none.
LEMMA StartedMeant ==
  ASSUME NEW j, NEW s, GoesOn(j, s), j.menu \o tokenize(j.line) = j.node \o j.args
  PROVE  JobMeant'
<1>1. job' = j
  BY DEF GoesOn
<1>2. job'.menu \o tokenize(job'.line) = job'.node \o job'.args
  BY <1>1
<1> QED BY <1>2 DEF JobMeant

\* No command runs, or still the same.
LEMMA NoneMeant ==
  /\ job' = NoJob => JobMeant'
  /\ JobMeant /\ job' = job => JobMeant'
  /\ \A s : Returned(s) => JobMeant'
<1>1. job' = NoJob => JobMeant'
  BY DEF JobMeant
<1>2. JobMeant /\ job' = job => JobMeant'
  BY DEF JobMeant
<1>3. \A s : Returned(s) => job' = NoJob
  BY DEF Returned
<1> QED BY <1>1, <1>2, <1>3

\* A line sent starts the command it names, or none.
LEMMA SubmitsMeant ==
  ASSUME JobMeant, menu \in Menus, NEW S, NEW line \in Seq(S), NEW s, Submits(line, s)
  PROVE  JobMeant'
<1>1. CASE line = <<>> \/ line = Help
  BY <1>1, NoneMeant DEF Submits
<1>2. CASE ~(line = <<>> \/ line = Help)
  <2>1. PICK d : d = dispatch(menu, line)
    OBVIOUS
  <2>2. \/ d.result = "Executed" /\ Execute(line, d, s)
        \/ Returned(s)
        \/ job' = job
    BY <1>2, <2>1 DEF Submits, Dispatch
  <2>3. CASE d.result = "Executed" /\ Execute(line, d, s)
    <3>1. PICK m \in Menus : m = menu
      OBVIOUS
    <3>2. m \o tokenize(line) = d.node \o d.args
      <4>1. d = dispatch(m, line) /\ d.result = "Executed"
        BY <2>1, <2>3, <3>1
      <4> QED BY <4>1, DispatchMeant
    <3>3. CASE Returned(s)
      BY <3>3, NoneMeant
    <3>4. CASE ~Returned(s)
      <4>1. PICK asks : GoesOn([menu |-> menu, line |-> line, node |-> d.node, args |-> d.args, asks |-> asks], s)
        BY <2>3, <3>4 DEF Execute
      <4>2. PICK j : j = [menu |-> menu, line |-> line, node |-> d.node, args |-> d.args, asks |-> asks]
        OBVIOUS
      <4>3. j.menu = menu /\ j.line = line /\ j.node = d.node /\ j.args = d.args
        BY <4>2
      <4>4. j.menu \o tokenize(j.line) = j.node \o j.args
        BY <3>1, <3>2, <4>3
      <4> QED BY <4>1, <4>2, <4>4, StartedMeant
    <3> QED BY <3>3, <3>4
  <2> QED BY <2>2, <2>3, NoneMeant
<1> QED BY <1>1, <1>2

\* A step keeps the command that was meant.
LEMMA NextMeant == Typed /\ JobMeant /\ [Next]_vars => JobMeant'
<1> SUFFICES ASSUME Typed, JobMeant, [Next]_vars PROVE JobMeant'
  OBVIOUS
<1>1. menu \in Menus /\ DOMAIN job = DOMAIN NoJob /\ (at \in {"text", "password"} => job.node \in Leaves)
  BY DEF Typed, CommandOK
<1>2. PICK S : edit.buffer \in Seq(S)
  BY DEF Typed, TextOK
<1>3. CASE Enter
  BY <1>1, <1>2, <1>3, TrimmedText, SubmitsMeant DEF Enter
<1>4. CASE Interrupt
  <2>1. <<>> \in Seq({"e", "x", "i", "t"}) /\ Exit \in Seq({"e", "x", "i", "t"})
    BY DEF Exit
  <2>2. \E s : \E line \in {<<>>, Exit} : Submits(line, s)
    BY <1>4 DEF Interrupt
  <2> QED BY <1>1, <2>1, <2>2, SubmitsMeant
<1>5. CASE Answer
  <2>1. PICK s, j : j = [job EXCEPT !.asks = Tail(@)] /\ (Returned(s) \/ GoesOn(j, s))
    BY <1>5 DEF Answer
  <2>2. job # NoJob
    <3>1. job.node \in Leaves
      BY <1>1, <1>5 DEF Answer
    <3>2. NoJob.node = <<>> /\ <<>> \notin Leaves
      BY TreeAssumption DEF NoJob
    <3> QED BY <3>1, <3>2, Zenon
  <2>3. j.menu = job.menu /\ j.line = job.line /\ j.node = job.node /\ j.args = job.args
    BY <1>1, <2>1 DEF NoJob
  <2>4. j.menu \o tokenize(j.line) = j.node \o j.args
    BY <2>2, <2>3 DEF JobMeant
  <2> QED BY <2>1, <2>4, StartedMeant, NoneMeant
<1>6. CASE ~(Enter \/ Interrupt \/ Answer) /\ Next
  <2>1. Insert \/ Backspace \/ Delete \/ Move \/ Older \/ Newer \/ Complete \/ Ignore => job' = job
    BY DEF Insert, Backspace, Delete, Move, Older, Newer, Complete, Ignore, Stays
  <2>2. Press \/ Paste \/ ReadByte \/ TimeOut \/ enqueueLog \/ output \/ setSink => job' = job
    BY DEF Press, Paste, ReadByte, TimeOut, Sends, enqueueLog, output, setSink, console
  <2>3. NextLine \/ animationLoop \/ Answered \/ Stopped \/ Throws \/ Destroy \/ Destroyed => job' \in {job, NoJob}
    BY DEF NextLine, animationLoop, Answered, Stopped, Throws, Destroy, Destroyed
  <2>4. job' \in {job, NoJob}
    BY <1>6, <2>1, <2>2, <2>3 DEF Next
  <2> QED BY <2>4, NoneMeant
<1>7. CASE UNCHANGED vars
  BY <1>7, NoneMeant DEF vars, console
<1> QED BY <1>3, <1>4, <1>5, <1>6, <1>7

\* The first character of several texts is that of the first of them.
LEMMA FlatFirst ==
  ASSUME NEW S, NEW s \in Seq(Seq(S)), s # <<>>, s[1] # <<>>
  PROVE  FlattenSeq(s) \in Seq(S) /\ FlattenSeq(s) # <<>> /\ FlattenSeq(s)[1] = s[1][1]
<1>1. PICK x \in Seq(S), t \in Seq(Seq(S)) : x = s[1] /\ t = Tail(s) /\ s = <<x>> \o t
  <2>1. Head(s) \in Seq(S) /\ Tail(s) \in Seq(Seq(S)) /\ Len(s) # 0 /\ s = <<Head(s)>> \o Tail(s) /\ Head(s) = s[1]
    BY HeadTailProperties, EmptySeq
  <2> QED BY <2>1
<1>2. FlattenSeq(s) = x \o FlattenSeq(t) /\ FlattenSeq(t) \in Seq(S)
  <2>1. PICK u \in Seq(Seq(S)) : u = <<x>>
    <3>1. <<x>> \in Seq(Seq(S))
      OBVIOUS
    <3> QED BY <3>1, Zenon
  <2>2. FlattenSeq(u \o t) = FlattenSeq(u) \o FlattenSeq(t) /\ FlattenSeq(t) \in Seq(S)
    BY FlatConcat
  <2> QED BY <1>1, <2>1, <2>2, FlatOne
<1>3. PICK y \in Seq(S) : y = FlattenSeq(t)
  BY <1>2
<1>4. Len(x) \in Nat /\ Len(x) > 0 /\ Len(y) \in Nat
  BY <1>1, LenProperties, EmptySeq
<1>5. x \o y \in Seq(S) /\ Len(x \o y) > 0 /\ (x \o y)[1] = x[1]
  BY <1>4, ConcatProperties
<1>6. x \o y # <<>>
  BY <1>5, EmptySeq
<1> QED BY <1>1, <1>2, <1>3, <1>5, <1>6

\* A word that is quoted does not begin with a space.
LEMMA QuotedBegins ==
  ASSUME NEW S, NEW w \in Seq(S), w # <<>>, NEW style \in {"double", "single", "escape"}
  PROVE  Quoted(w, style) # <<>> /\ Quoted(w, style)[1] # " "
<1>1. PICK U : U = S \cup Quotes
  OBVIOUS
<1>2. ASSUME NEW q \in Quotes, q # " ", NEW t \in Seq(U)
      PROVE  (<<q>> \o t) \o <<q>> # <<>> /\ ((<<q>> \o t) \o <<q>>)[1] # " "
  <2>1. PICK d \in Seq(U) : d = <<q>> /\ Len(d) = 1 /\ d[1] = q
    <3>1. PICK c \in U : c = q
      BY <1>1
    <3>2. <<c>> \in Seq(U) /\ Len(<<c>>) = 1 /\ <<c>>[1] = c
      OBVIOUS
    <3> QED BY <3>1, <3>2, Zenon
  <2>2. d \o t \in Seq(U) /\ Len(d \o t) \in Nat /\ Len(d \o t) > 0 /\ (d \o t)[1] = q
    BY <2>1, ConcatProperties, LenProperties
  <2>3. PICK v \in Seq(U) : v = d \o t /\ Len(v) \in Nat /\ Len(v) > 0 /\ v[1] = q
    BY <2>2
  <2>4. v \o d \in Seq(U) /\ Len(v \o d) > 0 /\ (v \o d)[1] = q
    BY <2>1, <2>3, ConcatProperties
  <2>5. v \o d # <<>>
    BY <2>4, EmptySeq
  <2> QED BY <1>2, <2>1, <2>3, <2>4, <2>5
<1>3. CASE style = "double"
  <2>1. PICK m \in Seq(U) : m = Escaped(w, {"\"", "\\"})
    BY <1>1, EscapedText DEF Quotes
  <2>2. Quoted(w, style) = (<<"\"">> \o m) \o <<"\"">>
    BY <1>3, <2>1 DEF Quoted
  <2>3. "\"" \in Quotes /\ "\"" # " "
    BY DEF Quotes
  <2> QED BY <1>2, <2>2, <2>3
<1>4. CASE style = "single"
  <2>1. w \in Seq(U)
    BY <1>1, SeqMonotonic
  <2>2. Quoted(w, style) = (<<"'">> \o w) \o <<"'">>
    BY <1>4 DEF Quoted
  <2>3. "'" \in Quotes /\ "'" # " "
    BY DEF Quotes
  <2> QED BY <1>2, <2>1, <2>2, <2>3
<1>5. CASE style = "escape"
  <2>1. PICK chars : chars = {" ", "\"", "'", "\\"} /\ chars \subseteq Quotes
    BY DEF Quotes
  <2>2. PICK p \in Seq(Seq(U)) : p = Pieces(w, chars) /\ Len(p) = Len(w) /\ Quoted(w, style) = FlattenSeq(p)
    <3>1. Quoted(w, style) = Escaped(w, chars)
      BY <1>5, <2>1 DEF Quoted
    <3> QED BY <1>1, <2>1, <3>1, EscapedPieces
  <2>3. Len(w) # 0 /\ 1 \in DOMAIN w
    BY EmptySeq, LenProperties
  <2>4. p # <<>>
    BY <2>2, <2>3, EmptySeq
  <2>5. p[1] # <<>> /\ p[1][1] # " "
    <3>1. PICK c : c = w[1]
      OBVIOUS
    <3>2. p[1] = IF c \in chars THEN <<"\\", c>> ELSE <<c>>
      BY <2>2, <2>3, <3>1 DEF Pieces
    <3>3. <<"\\", c>> # <<>> /\ <<"\\", c>>[1] = "\\" /\ <<c>> # <<>> /\ <<c>>[1] = c /\ "\\" # " "
      OBVIOUS
    <3>4. " " \in chars
      BY <2>1
    <3> QED BY <3>2, <3>3, <3>4
  <2> QED BY <2>2, <2>4, <2>5, FlatFirst
<1> QED BY <1>3, <1>4, <1>5

\* Nor does a line; and one of no words is empty.
LEMMA SheetBegins ==
  ASSUME NEW l \in Lines
  PROVE  /\ Sheet[l] \in Seq(LineLetters \cup Quotes)
         /\ Sheet[l] = <<>> \/ Sheet[l][1] # " "
<1>1. PICK ws \in Seq(Seq(LineLetters)) : ws = l.words /\ l.style \in {"double", "single", "escape"}
  BY LineAssumption
<1>2. PICK U : U = LineLetters \cup Quotes
  OBVIOUS
<1>3. PICK p \in Seq(Seq(U)) : p = Parts(l) /\ Len(p) = Len(ws) /\ Sheet[l] = FlattenSeq(p) /\ Sheet[l] \in Seq(U)
  <2>1. Sheet[l] = Written(l)
    BY DEF Sheet
  <2> QED BY <1>1, <1>2, <2>1, PartsText, Zenon
<1>4. CASE ws = <<>>
  <2>1. p = <<>>
    BY <1>3, <1>4, EmptySeq
  <2> QED BY <1>2, <1>3, <2>1, EmptySeq, FlatOne
<1>5. CASE ws # <<>>
  <2>1. Len(ws) # 0 /\ 1 \in DOMAIN ws
    BY <1>5, EmptySeq, LenProperties
  <2>2. PICK w \in Seq(LineLetters) : w = ws[1] /\ w # <<>>
    <3>1. ws[1] \in Seq(LineLetters)
      BY <2>1, ElementOfSeq, LenProperties
    <3>2. ws[1] # <<>>
      BY <1>1, <2>1, LineAssumption
    <3> QED BY <3>1, <3>2
  <2>3. PICK m \in Seq(U) : m = Quoted(w, l.style)
    BY <1>1, <1>2, <2>2, QuotedText
  <2>4. p[1] = m
    <3>1. p[1] = <<>> \o m
      BY <1>1, <1>3, <2>1, <2>2, <2>3 DEF Parts
    <3> QED BY <3>1, ConcatEmptySeq
  <2>5. m # <<>> /\ m[1] # " "
    BY <1>1, <2>2, <2>3, QuotedBegins
  <2>6. p # <<>>
    BY <1>3, <2>1, EmptySeq
  <2> QED BY <1>2, <1>3, <2>4, <2>5, <2>6, FlatFirst
<1> QED BY <1>4, <1>5

\* run() trims nothing off a line without spaces at its ends.
LEMMA TrimmedSame ==
  ASSUME NEW S, NEW s \in Seq(S)
  PROVE  s = <<>> \/ (s[1] # " " /\ s[Len(s)] # " ") => Trimmed(s) = s
<1>1. PICK n \in Nat : n = Len(s) /\ DOMAIN s = 1..n
  BY LenProperties
<1>2. PICK solid : solid = {i \in DOMAIN s : s[i] # " "}
  OBVIOUS
<1>3. CASE s = <<>>
  <2>1. solid = {}
    BY <1>1, <1>2, <1>3, EmptySeq
  <2> QED BY <1>2, <1>3, <2>1 DEF Trimmed
<1>4. CASE s # <<>> /\ s[1] # " " /\ s[Len(s)] # " "
  <2>1. n # 0 /\ 1 \in solid /\ n \in solid
    <3>1. n # 0
      BY <1>1, <1>4, EmptySeq
    <3>2. 1 \in 1..n /\ n \in 1..n
      BY <3>1
    <3>3. s[1] # " " /\ s[n] # " "
      BY <1>1, <1>4
    <3> QED BY <1>1, <1>2, <3>1, <3>2, <3>3, Zenon
  <2>2. solid \subseteq Nat /\ \A i \in solid : 1 <= i /\ i <= n
    <3>1. solid \subseteq 1..n
      BY <1>1, <1>2, Zenon
    <3> QED BY <3>1
  <2>3. PICK lo \in solid, hi \in solid : lo = Min(solid) /\ hi = Max(solid) /\ \A i \in solid : lo <= i /\ i <= hi
    BY <2>1, <2>2, EndsOf
  <2>4. lo = 1 /\ hi = n
    <3>1. lo <= 1 /\ n <= hi /\ 1 <= lo /\ hi <= n
      BY <2>1, <2>2, <2>3
    <3>2. lo \in Nat /\ hi \in Nat
      BY <2>2
    <3> QED BY <3>1, <3>2
  <2>5. Trimmed(s) = SubSeq(s, 1, n)
    BY <1>2, <2>1, <2>3, <2>4 DEF Trimmed
  <2>6. SubSeq(s, 1, n) = s
    BY <1>1, Beginnings
  <2> QED BY <2>5, <2>6
<1> QED BY <1>3, <1>4

\* A line runs the command its words name, with the words that follow as
\* arguments, in any tree of menus and however its words are quoted: what
\* tokenize() undoes is what the quotes and backslashes did, run() trims nothing
\* off the line unless its last character is a space that is escaped, dispatch()
\* loses no word between the path and the arguments, and the prompts that follow
\* leave both alone.
THEOREM CommandsMeant == Spec => []CommandMeant
<1>1. Init => JobMeant
  BY DEF Init, JobMeant
<1>2. JobMeant => CommandMeant
  <2> SUFFICES ASSUME JobMeant, NEW l \in Lines, Last(Sheet[l]) # " " PROVE Meant(l)
    BY DEF CommandMeant
  <2>1. Trimmed(Sheet[l]) = Sheet[l]
    BY SheetBegins, TrimmedSame DEF Last
  <2> QED BY <2>1, SheetRead DEF JobMeant, Meant
<1>3. Typed /\ JobMeant /\ [Next]_vars => JobMeant'
  BY NextMeant
<1> QED BY <1>1, <1>2, <1>3, TypesAlways, PTL DEF Spec
\* Whatever was asked, typed, logged or thrown, when ConsoleUI is destroyed the
\* terminal is out of the raw mode, its cursor is shown, and the spinner's
\* thread has ended: ~Spinner and ~Terminal cover the ways out that stop()
\* and leaveRawMode() do not.
THEOREM LeavesTerminal == Spec => []LeftAsFound
<1>1. TerminalOK => LeftAsFound
  BY DEF TerminalOK, LeftAsFound
<1> QED BY <1>1, Invariant, PTL

\* Leaving the history by its end gives back what was typed, for any history
\* and any edits of its lines: LineEditor saves the text on the first step
\* back only, and no key but Down leaves the history while the line is edited.
THEOREM DraftAlwaysBack == Spec => DraftComesBack
<1>1. TerminalOK /\ DraftOK /\ [Next]_vars =>
        [edit.idx > 0 /\ edit'.idx = 0 /\ at' = at => edit'.buffer = draft]_vars
  BY NextInv DEF Comes
<1> QED BY <1>1, Invariant, PTL DEF Spec, DraftComesBack
=============================================================================
