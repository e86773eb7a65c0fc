--------------------------- MODULE TemplateProofs ---------------------------
(***************************************************************************)
(* Proofs about Template, for any sources, nodes and contexts: loops leave *)
(* the context as it was, names in Pascal case come back from the filters, *)
(* and the parser loses, doubles and moves no text, whatever is wrong with *)
(* the tags.  The induction over data that the last two need is carried    *)
(* out over sets of numbers (Counting).                                    *)
(***************************************************************************)
EXTENDS Template, SequenceTheorems, WellFoundedInduction, TLAPS

-----------------------------------------------------------------------------
(* Counting *)

\* Any set of numbers has a least one.
LEMMA Least ==
  ASSUME NEW T, T \subseteq Nat, T # {}
  PROVE  \E n \in T : \A m \in T : n <= m
<1>1. PICK n \in T : \A m \in T : ~(<<m, n>> \in OpToRel(<, Nat))
  BY NatLessThanWellFounded, WFMin
<1>2. \A m \in T : ~(m < n)
  BY <1>1 DEF OpToRel
<1>3. \A m \in T : m \in Nat /\ n \in Nat
  OBVIOUS
<1> QED BY <1>2, <1>3

\* What holds of zero, and of n + 1 if of n, holds of every number.
LEMMA Counting ==
  ASSUME NEW T, 0 \in T, \A n \in Nat : n \in T => n + 1 \in T
  PROVE  \A n \in Nat : n \in T
<1> SUFFICES ASSUME Nat \ T # {} PROVE FALSE
  OBVIOUS
<1>1. PICK n \in Nat \ T : \A m \in Nat \ T : n <= m
  BY Least
<1>2. n # 0 /\ n - 1 \in Nat /\ ~(n <= n - 1)
  BY <1>1
<1>3. n - 1 \in T
  BY <1>1, <1>2
<1> QED BY <1>1, <1>2, <1>3

-----------------------------------------------------------------------------
(* Sequences put together *)

\* FlattenSeq puts the sequences behind each other, one by one.
LEMMA FlatSteps ==
  ASSUME NEW S, NEW s \in Seq(Seq(S))
  PROVE  \E f : /\ \A i \in 0..Len(s) : f[i] \in Seq(S)
                /\ f[0] = <<>> /\ \A i \in 1..Len(s) : f[i] = f[i - 1] \o s[i]
                /\ FlattenSeq(s) = f[Len(s)]
<1>1. PICK n \in Nat : n = Len(s)
  BY LenProperties
<1>2. ASSUME NEW i \in 1..n PROVE s[i] \in Seq(S)
  BY <1>1, ElementOfSeq
<1> DEFINE Steps(m, f) == /\ \A i \in 0..m : f[i] \in Seq(S)
                          /\ f[0] = <<>> /\ \A i \in 1..m : f[i] = f[i - 1] \o s[i]
<1>3. PICK T : T = {m \in Nat : m <= n => \E f : Steps(m, f)}
  OBVIOUS
<1>4. 0 \in T
  <2>1. PICK f : f = [i \in 0..0 |-> <<>>]
    OBVIOUS
  <2>2. Steps(0, f)
    BY <2>1, EmptySeq
  <2> QED BY <1>3, <2>2
<1>5. ASSUME NEW m \in Nat, m \in T PROVE m + 1 \in T
  <2>1. SUFFICES ASSUME m + 1 <= n PROVE \E g : Steps(m + 1, g)
    <3>1. m + 1 \in Nat
      OBVIOUS
    <3> HIDE DEF Steps
    <3> QED BY <1>3, <3>1
  <2>2. PICK f : Steps(m, f)
    <3>1. m <= n
      BY <2>1
    <3> HIDE DEF Steps
    <3> QED BY <1>3, <1>5, <3>1
  <2>3. m + 1 \in 1..n /\ m \in 0..m
    BY <2>1
  <2>4. PICK last : last = f[m] \o s[m + 1]
    OBVIOUS
  <2>5. last \in Seq(S)
    BY <1>2, <2>2, <2>3, <2>4, ConcatProperties
  <2>6. PICK g : g = [i \in 0..m + 1 |-> IF i = m + 1 THEN last ELSE f[i]]
    OBVIOUS
  <2>7. ASSUME NEW i \in 0..m + 1 PROVE g[i] \in Seq(S)
    <3>1. i # m + 1 => i \in 0..m
      OBVIOUS
    <3> QED BY <2>2, <2>5, <2>6, <3>1
  <2>8. g[0] = <<>>
    <3>1. 0 # m + 1 /\ 0 \in 0..m + 1
      OBVIOUS
    <3> QED BY <2>2, <2>6, <3>1
  <2>9. ASSUME NEW i \in 1..m + 1 PROVE g[i] = g[i - 1] \o s[i]
    <3>1. i - 1 \in 0..m + 1 /\ i - 1 # m + 1 /\ i \in 0..m + 1
      OBVIOUS
    <3>2. CASE i = m + 1
      <4>1. i - 1 = m
        BY <3>2
      <4> QED BY <2>4, <2>6, <3>1, <3>2, <4>1
    <3>3. CASE i # m + 1
      <4>1. i \in 1..m
        BY <3>3
      <4> QED BY <2>2, <2>6, <3>1, <3>3, <4>1
    <3> QED BY <3>2, <3>3
  <2> QED BY <2>7, <2>8, <2>9
<1>6. \A m \in Nat : m \in T
  <2> HIDE DEF Steps
  <2> QED BY <1>4, <1>5, Counting
<1>7. PICK f : Steps(n, f)
  <2>1. n \in T /\ n <= n
    BY <1>6
  <2> QED BY <1>3, <2>1
<1> DEFINE Flat(h) == h = [i \in 1..Len(s) |-> IF i = 1 THEN s[i] ELSE h[i - 1] \o s[i]]
<1>8. CASE n = 0
  <2>1. FlattenSeq(s) = s /\ s = <<>>
    BY <1>1, <1>8, EmptySeq DEF FlattenSeq
  <2> QED BY <1>1, <1>7, <1>8, <2>1
<1>9. CASE n # 0
  <2>1. PICK h : Flat(h) /\ FlattenSeq(s) = h[n]
    <3>1. PICK g : g = [i \in 1..n |-> f[i]]
      OBVIOUS
    <3>2. \A i \in 1..n : f[i] = IF i = 1 THEN s[i] ELSE g[i - 1] \o s[i]
      <4>1. ASSUME NEW i \in 1..n PROVE f[i] = IF i = 1 THEN s[i] ELSE g[i - 1] \o s[i]
        <5>1. CASE i = 1
          <6>1. i - 1 = 0
            BY <5>1
          <6>2. f[i] = f[i - 1] \o s[i] /\ f[0] = <<>> /\ s[i] \in Seq(S)
            BY <1>2, <1>7
          <6>3. f[i] = <<>> \o s[i]
            BY <6>1, <6>2
          <6> QED BY <5>1, <6>2, <6>3, ConcatEmptySeq
        <5>2. CASE i # 1
          <6>1. i - 1 \in 1..n
            BY <5>2
          <6> QED BY <1>7, <3>1, <5>2, <6>1
        <5> QED BY <5>1, <5>2
      <4> QED BY <4>1
    <3>3. Flat(g)
      BY <1>1, <3>1, <3>2
    <3>4. FlattenSeq(s) = (CHOOSE h : Flat(h))[n]
      BY <1>1, <1>9 DEF FlattenSeq
    <3> HIDE DEF Flat
    <3> QED BY <3>3, <3>4
  <2>2. PICK Z : Z = {m \in Nat : m + 1 \in 1..n => h[m + 1] = f[m + 1]}
    OBVIOUS
  <2>3. 0 \in Z
    <3>1. 1 \in 1..n /\ 0 + 1 = 1 /\ 1 - 1 = 0
      BY <1>9
    <3>2. h[1] = s[1]
      BY <1>1, <2>1, <3>1
    <3>3. f[1] = <<>> \o s[1]
      BY <1>7, <3>1
    <3>4. <<>> \o s[1] = s[1]
      BY <1>2, <3>1, ConcatEmptySeq
    <3> QED BY <2>2, <3>1, <3>2, <3>3, <3>4
  <2>4. ASSUME NEW m \in Nat, m \in Z PROVE m + 1 \in Z
    <3>1. SUFFICES ASSUME (m + 1) + 1 \in 1..n PROVE h[(m + 1) + 1] = f[(m + 1) + 1]
      BY <2>2
    <3>2. m + 1 \in 1..n /\ ((m + 1) + 1) - 1 = m + 1 /\ (m + 1) + 1 # 1
      BY <3>1
    <3>3. h[m + 1] = f[m + 1]
      BY <2>2, <2>4, <3>2
    <3>4. h[(m + 1) + 1] = h[m + 1] \o s[(m + 1) + 1]
      BY <1>1, <2>1, <3>1, <3>2
    <3>5. f[(m + 1) + 1] = f[m + 1] \o s[(m + 1) + 1]
      BY <1>7, <3>1, <3>2
    <3> QED BY <3>3, <3>4, <3>5
  <2>5. n - 1 \in Z
    <3>1. n - 1 \in Nat
      BY <1>9
    <3> HIDE DEF Flat, Steps
    <3> QED BY <2>3, <2>4, <3>1, Counting
  <2>6. h[n] = f[n]
    <3>1. (n - 1) + 1 = n /\ n \in 1..n
      BY <1>9
    <3> QED BY <2>2, <2>5, <3>1
  <2> QED BY <1>1, <1>7, <2>1, <2>6
<1> QED BY <1>8, <1>9

\* What is behind each other comes out behind each other.
LEMMA FlatConcat ==
  ASSUME NEW S, NEW s \in Seq(Seq(S)), NEW t \in Seq(Seq(S))
  PROVE  /\ FlattenSeq(s) \in Seq(S) /\ FlattenSeq(t) \in Seq(S)
         /\ FlattenSeq(s \o t) = FlattenSeq(s) \o FlattenSeq(t)
<1>1. PICK m \in Nat, n \in Nat : m = Len(s) /\ n = Len(t)
  BY LenProperties
<1>2. /\ s \o t \in Seq(Seq(S)) /\ Len(s \o t) = m + n
      /\ \A i \in 1..m + n : (s \o t)[i] = IF i <= m THEN s[i] ELSE t[i - m]
  BY <1>1, ConcatProperties
<1>3. PICK f : /\ \A i \in 0..m : f[i] \in Seq(S)
               /\ f[0] = <<>> /\ \A i \in 1..m : f[i] = f[i - 1] \o s[i]
               /\ FlattenSeq(s) = f[m]
  BY <1>1, FlatSteps
<1>4. PICK g : /\ \A i \in 0..n : g[i] \in Seq(S)
               /\ g[0] = <<>> /\ \A i \in 1..n : g[i] = g[i - 1] \o t[i]
               /\ FlattenSeq(t) = g[n]
  BY <1>1, FlatSteps
<1>5. PICK h : /\ \A i \in 0..m + n : h[i] \in Seq(S)
               /\ h[0] = <<>> /\ \A i \in 1..m + n : h[i] = h[i - 1] \o (s \o t)[i]
               /\ FlattenSeq(s \o t) = h[m + n]
  <2>1. \E h : /\ \A i \in 0..Len(s \o t) : h[i] \in Seq(S)
               /\ h[0] = <<>> /\ \A i \in 1..Len(s \o t) : h[i] = h[i - 1] \o (s \o t)[i]
               /\ FlattenSeq(s \o t) = h[Len(s \o t)]
    BY <1>2, FlatSteps
  <2> QED BY <1>2, <2>1
<1>6. h[m] = f[m]
  <2>1. PICK T : T = {i \in Nat : i <= m => h[i] = f[i]}
    OBVIOUS
  <2>2. 0 \in T
    BY <1>3, <1>5, <2>1
  <2>3. ASSUME NEW i \in Nat, i \in T PROVE i + 1 \in T
    <3>1. SUFFICES ASSUME i + 1 <= m PROVE h[i + 1] = f[i + 1]
      BY <2>1
    <3>2. i + 1 \in 1..m /\ i + 1 \in 1..m + n /\ (i + 1) - 1 = i /\ i <= m
      BY <3>1
    <3>3. h[i] = f[i] /\ (s \o t)[i + 1] = s[i + 1]
      BY <1>2, <2>1, <2>3, <3>1, <3>2
    <3>4. h[i + 1] = h[i] \o (s \o t)[i + 1]
      BY <1>5, <3>2
    <3>5. f[i + 1] = f[i] \o s[i + 1]
      BY <1>3, <3>2
    <3> QED BY <3>3, <3>4, <3>5
  <2>4. \A i \in Nat : i \in T
    BY <2>2, <2>3, Counting
  <2>5. m \in T /\ m <= m
    BY <2>4
  <2> QED BY <2>1, <2>5
<1>7. h[m + n] = f[m] \o g[n]
  <2>1. PICK T : T = {i \in Nat : i <= n => h[m + i] = f[m] \o g[i]}
    OBVIOUS
  <2>2. 0 \in T
    <3>1. m + 0 = m /\ m \in 0..m
      OBVIOUS
    <3>2. f[m] \o <<>> = f[m]
      BY <1>3, <3>1, ConcatEmptySeq
    <3> QED BY <1>4, <1>6, <2>1, <3>1, <3>2
  <2>3. ASSUME NEW i \in Nat, i \in T PROVE i + 1 \in T
    <3>1. SUFFICES ASSUME i + 1 <= n PROVE h[m + (i + 1)] = f[m] \o g[i + 1]
      <4>1. i + 1 \in Nat
        OBVIOUS
      <4> QED BY <2>1, <4>1, Zenon
    <3>2. /\ i + 1 \in 1..n /\ m + (i + 1) \in 1..m + n /\ (m + (i + 1)) - 1 = m + i /\ i <= n
          /\ ~(m + (i + 1) <= m) /\ (m + (i + 1)) - m = i + 1 /\ (i + 1) - 1 = i /\ i \in 0..n /\ m \in 0..m
      BY <3>1
    <3>3. h[m + i] = f[m] \o g[i]
      BY <2>1, <2>3, <3>2
    <3>4. (s \o t)[m + (i + 1)] = t[i + 1]
      BY <1>2, <3>2
    <3>5. h[m + (i + 1)] = h[m + i] \o (s \o t)[m + (i + 1)]
      BY <1>5, <3>2
    <3>6. g[i + 1] = g[i] \o t[i + 1]
      BY <1>4, <3>2
    <3>7. f[m] \in Seq(S) /\ g[i] \in Seq(S) /\ t[i + 1] \in Seq(S)
      BY <1>1, <1>3, <1>4, <3>2, ElementOfSeq
    <3>8. (f[m] \o g[i]) \o t[i + 1] = f[m] \o (g[i] \o t[i + 1])
      <4>1. PICK a \in Seq(S), b \in Seq(S), c \in Seq(S) : a = f[m] /\ b = g[i] /\ c = t[i + 1]
        BY <3>7
      <4>2. (a \o b) \o c = a \o (b \o c)
        BY ConcatAssociative, SMTT(20)
      <4> QED BY <4>1, <4>2
    <3>9. h[m + (i + 1)] = (f[m] \o g[i]) \o t[i + 1]
      BY <3>3, <3>4, <3>5
    <3>10. h[m + (i + 1)] = f[m] \o g[i + 1]
      BY <3>6, <3>8, <3>9, Zenon
    <3> QED BY <3>10
  <2>4. \A i \in Nat : i \in T
    BY <2>2, <2>3, Counting
  <2>5. n \in T /\ n <= n
    BY <2>4
  <2> QED BY <2>1, <2>5
<1>8. f[m] \in Seq(S) /\ g[n] \in Seq(S)
  <2>1. m \in 0..m /\ n \in 0..n
    OBVIOUS
  <2> QED BY <1>3, <1>4, <2>1
<1> QED BY <1>3, <1>4, <1>5, <1>7, <1>8

\* None, and one.
LEMMA FlatOne ==
  ASSUME NEW S, NEW x \in Seq(S)
  PROVE  FlattenSeq(<<>>) = <<>> /\ FlattenSeq(<<x>>) = x
<1>1. FlattenSeq(<<>>) = <<>>
  BY EmptySeq DEF FlattenSeq
<1>2. PICK s \in Seq(Seq(S)) : s = <<x>> /\ Len(s) = 1 /\ s[1] = x
  <2>1. <<x>> \in Seq(Seq(S)) /\ Len(<<x>>) = 1 /\ <<x>>[1] = x
    OBVIOUS
  <2> QED BY <2>1, Zenon
<1>3. PICK f : /\ f[0] = <<>> /\ \A i \in 1..1 : f[i] = f[i - 1] \o s[i]
               /\ FlattenSeq(s) = f[1]
  BY <1>2, FlatSteps
<1>4. f[1] = <<>> \o x
  <2>1. 1 \in 1..1 /\ 1 - 1 = 0
    OBVIOUS
  <2> QED BY <1>2, <1>3, <2>1
<1>5. <<>> \o x = x
  BY ConcatEmptySeq
<1> QED BY <1>1, <1>2, <1>3, <1>4, <1>5

-----------------------------------------------------------------------------
(* The calls of the renderer, and what they hide *)

\* A frame with all its fields.
IsFrame(f) ==
  f = [kind |-> f.kind, todo |-> f.todo, node |-> f.node, list |-> f.list, round |-> f.round,
       var |-> f.var, loop |-> f.loop]

\* The calls in progress: the template's own block is the outermost.
Framed ==
  /\ frames \in Seq(Range(frames))
  /\ \A k \in 1..Len(frames) : IsFrame(frames[k])
  /\ at = "render" => frames # <<>> /\ frames[1].kind = "block"
  /\ at = "rendered" => frames = <<>>

\* A loop keeps what its variable and "loop" were; the outermost loop over a
\* name keeps what was given, and no loop over it leaves it as it was given.
Saves(f, name) == f.kind = "for" /\ name \in {f.node.name, "loop"}
Saved(f, name) == IF name = "loop" THEN f.loop ELSE f.var
First(fs, name, k) == Saves(fs[k], name) /\ \A j \in 1..k - 1 : ~Saves(fs[j], name)
Restored(fs, c, g, name) ==
  /\ (\A k \in 1..Len(fs) : ~Saves(fs[k], name)) => Lookup(c, name) = Lookup(g, name)
  /\ \A k \in 1..Len(fs) : First(fs, name, k) => Saved(fs[k], name) = Lookup(g, name)
Restoring ==
  at \in {"render", "rendered"} => \A name : name \notin assigned => Restored(frames, context, given, name)

\* The calls an action leaves, by what the names depend on.
Alike(f, g) == f.kind = g.kind /\ f.node = g.node /\ f.var = g.var /\ f.loop = g.loop
SameFrames(fs, gs) == Len(gs) = Len(fs) /\ \A k \in 1..Len(fs) : Alike(fs[k], gs[k])

-----------------------------------------------------------------------------
(* What a name is given *)

LEMMA SetOne ==
  ASSUME NEW c, NEW n, NEW v, NEW m
  PROVE  Lookup(Set(c, n, v), m) = IF m = n THEN v ELSE Lookup(c, m)
BY DEF Set, Lookup

\* Sequences of what they hold.
LEMMA Added ==
  ASSUME NEW s, s \in Seq(Range(s)), NEW e
  PROVE  LET t == Append(s, e)
         IN /\ t \in Seq(Range(t)) /\ t # <<>> /\ Len(t) = Len(s) + 1 /\ Len(s) \in Nat
            /\ \A j \in 1..Len(s) : t[j] = s[j]
            /\ t[Len(s) + 1] = e
<1>1. PICK S : S = Range(s) \cup {e}
  OBVIOUS
<1>2. s \in Seq(S)
  BY <1>1, SeqMonotonic
<1>3. PICK t : t = Append(s, e)
  OBVIOUS
<1>4. /\ t \in Seq(S) /\ t # <<>> /\ Len(t) = Len(s) + 1 /\ Len(s) \in Nat
      /\ \A j \in 1..Len(s) : t[j] = s[j]
      /\ t[Len(s) + 1] = e
  BY <1>1, <1>2, <1>3, AppendProperties, LenProperties
<1>5. t \in Seq(Range(t))
  BY <1>4, SeqOfRange
<1> QED BY <1>3, <1>4, <1>5

LEMMA Shortened ==
  ASSUME NEW s, s \in Seq(Range(s)), s # <<>>
  PROVE  LET t == Front(s)
         IN /\ t \in Seq(Range(t)) /\ Len(t) = Len(s) - 1 /\ Len(s) \in Nat \ {0}
            /\ \A j \in 1..Len(t) : t[j] = s[j]
<1>1. Len(s) \in Nat \ {0}
  BY EmptySeq
<1>2. PICK n \in Nat : n = Len(s) - 1
  BY <1>1
<1>3. \A i \in 1..n : s[i] \in Range(s)
  BY <1>2, ElementOfSeq
<1>4. PICK t : t = SubSeq(s, 1, n)
  OBVIOUS
<1>5. t \in Seq(Range(s)) /\ Len(t) = n /\ \A j \in 1..n : t[j] = s[j]
  <2>1. /\ t \in Seq(Range(s)) /\ Len(t) = IF 1 <= n THEN n - 1 + 1 ELSE 0
        /\ \A j \in 1..n - 1 + 1 : t[j] = s[1 + j - 1]
    BY <1>3, <1>4, SubSeqProperties
  <2> QED BY <2>1
<1>6. t \in Seq(Range(t)) /\ t = Front(s)
  BY <1>2, <1>4, <1>5, SeqOfRange DEF Front
<1> QED BY <1>1, <1>2, <1>5, <1>6

-----------------------------------------------------------------------------
(* What names get back *)

LEMMA SavesAlike ==
  ASSUME NEW f, NEW g, Alike(f, g), NEW name
  PROVE  Saves(g, name) = Saves(f, name) /\ Saved(g, name) = Saved(f, name)
BY DEF Alike, Saves, Saved

\* The same calls, and another value only for what one of them saves.
LEMMA RestoredSame ==
  ASSUME NEW fs, NEW gs, NEW c, NEW d, NEW g, NEW name, SameFrames(fs, gs), Restored(fs, c, g, name),
         Len(fs) \in Nat,
         (\A k \in 1..Len(fs) : ~Saves(fs[k], name)) => Lookup(d, name) = Lookup(c, name)
  PROVE  Restored(gs, d, g, name)
<1>1. \A k \in 1..Len(fs) : Saves(gs[k], name) = Saves(fs[k], name) /\ Saved(gs[k], name) = Saved(fs[k], name)
  BY SavesAlike DEF SameFrames
<1>2. Len(gs) = Len(fs)
  BY DEF SameFrames
<1>3. (\A k \in 1..Len(gs) : ~Saves(gs[k], name)) => Lookup(d, name) = Lookup(g, name)
  BY <1>1, <1>2 DEF Restored
<1>4. ASSUME NEW k \in 1..Len(gs), First(gs, name, k) PROVE Saved(gs[k], name) = Lookup(g, name)
  <2>1. \A j \in 1..k - 1 : j \in 1..Len(fs)
    BY <1>2
  <2>2. First(fs, name, k)
    BY <1>1, <1>2, <1>4, <2>1 DEF First
  <2> QED BY <1>1, <1>2, <2>2 DEF Restored
<1> QED BY <1>3, <1>4 DEF Restored

\* One more call, which saves what is there.
LEMMA RestoredMore ==
  ASSUME NEW fs, NEW gs, NEW c, NEW g, NEW name, NEW n \in Nat, Len(fs) = n, Len(gs) = n + 1,
         \A k \in 1..n : Alike(fs[k], gs[k]), Restored(fs, c, g, name),
         Saves(gs[n + 1], name) => Saved(gs[n + 1], name) = Lookup(c, name)
  PROVE  Restored(gs, c, g, name)
<1>1. \A k \in 1..n : Saves(gs[k], name) = Saves(fs[k], name) /\ Saved(gs[k], name) = Saved(fs[k], name)
  BY SavesAlike
<1>2. ASSUME \A k \in 1..n + 1 : ~Saves(gs[k], name) PROVE Lookup(c, name) = Lookup(g, name)
  <2>1. \A k \in 1..n : ~Saves(fs[k], name)
    <3>1. \A k \in 1..n : k \in 1..n + 1
      OBVIOUS
    <3> QED BY <1>1, <1>2, <3>1
  <2> QED BY <2>1 DEF Restored
<1>3. ASSUME NEW k \in 1..n + 1, First(gs, name, k) PROVE Saved(gs[k], name) = Lookup(g, name)
  <2>1. CASE k = n + 1
    <3>1. \A j \in 1..n : ~Saves(fs[j], name)
      BY <1>1, <1>3, <2>1 DEF First
    <3>2. Lookup(c, name) = Lookup(g, name)
      BY <3>1 DEF Restored
    <3> QED BY <1>3, <2>1, <3>2 DEF First
  <2>2. CASE k \in 1..n
    <3>1. \A j \in 1..k - 1 : j \in 1..n
      BY <2>2
    <3>2. First(fs, name, k)
      BY <1>1, <1>3, <2>2, <3>1 DEF First
    <3> QED BY <1>1, <2>2, <3>2 DEF Restored
  <2> QED BY <2>1, <2>2
<1> QED BY <1>2, <1>3 DEF Restored

\* The latest call has ended, and what it saved is back.
LEMMA RestoredLess ==
  ASSUME NEW fs, NEW gs, NEW c, NEW d, NEW g, NEW name, NEW n \in Nat, Len(fs) = n + 1, Len(gs) = n,
         \A k \in 1..n : gs[k] = fs[k], Restored(fs, c, g, name),
         Lookup(d, name) = IF Saves(fs[n + 1], name) THEN Saved(fs[n + 1], name) ELSE Lookup(c, name)
  PROVE  Restored(gs, d, g, name)
<1>1. ASSUME \A k \in 1..n : ~Saves(gs[k], name) PROVE Lookup(d, name) = Lookup(g, name)
  <2>1. \A k \in 1..n : ~Saves(fs[k], name)
    BY <1>1
  <2>2. CASE Saves(fs[n + 1], name)
    <3>1. First(fs, name, n + 1) /\ n + 1 \in 1..Len(fs)
      BY <2>1, <2>2 DEF First
    <3> QED BY <2>2, <3>1 DEF Restored
  <2>3. CASE ~Saves(fs[n + 1], name)
    <3>1. \A k \in 1..Len(fs) : ~Saves(fs[k], name)
      BY <2>1, <2>3
    <3> QED BY <2>3, <3>1 DEF Restored
  <2> QED BY <2>2, <2>3
<1>2. ASSUME NEW k \in 1..n, First(gs, name, k) PROVE Saved(gs[k], name) = Lookup(g, name)
  <2>1. \A j \in 1..k - 1 : j \in 1..n
    OBVIOUS
  <2>2. First(fs, name, k) /\ k \in 1..Len(fs)
    BY <1>2, <2>1 DEF First
  <2> QED BY <2>2 DEF Restored
<1> QED BY <1>1, <1>2 DEF Restored

-----------------------------------------------------------------------------
(* The renderer's calls *)

\* The latest call goes on with what is left of its nodes, in its round.
LEMMA GoesOn ==
  ASSUME Framed, at = "render", NEW e, IsFrame(e), Alike(Latest, e), NEW gs,
         gs = [frames EXCEPT ![Len(frames)] = e]
  PROVE  /\ gs \in Seq(Range(gs)) /\ SameFrames(frames, gs) /\ gs # <<>>
         /\ \A k \in 1..Len(gs) : IsFrame(gs[k])
         /\ gs[1].kind = "block"
<1>1. Len(frames) \in 1..Len(frames) /\ Len(frames) \in Nat /\ 1 \in 1..Len(frames)
  BY EmptySeq DEF Framed
<1>2. frames \in Seq(Range(frames))
  BY DEF Framed
<1>3. /\ gs \in Seq(Range(gs)) /\ Len(gs) = Len(frames)
      /\ \A j \in 1..Len(frames) : gs[j] = IF j = Len(frames) THEN e ELSE frames[j]
  <2>1. PICK S : S = Range(frames) \cup {e}
    OBVIOUS
  <2>2. frames \in Seq(S) /\ e \in S
    BY <1>2, <2>1, SeqMonotonic
  <2>3. /\ gs \in Seq(S) /\ Len(gs) = Len(frames)
        /\ \A j \in 1..Len(frames) : gs[j] = IF j = Len(frames) THEN e ELSE frames[j]
    BY <1>1, <2>2, ExceptSeq
  <2>4. gs \in Seq(Range(gs))
    BY <2>3, SeqOfRange
  <2> QED BY <2>3, <2>4
<1>4. \A k \in 1..Len(frames) : IsFrame(gs[k]) /\ Alike(frames[k], gs[k])
  BY <1>3 DEF Framed, Alike, Latest
<1>5. gs # <<>>
  BY <1>1, <1>3, EmptySeq
<1>6. gs[1].kind = "block"
  BY <1>1, <1>4 DEF Framed, Alike
<1> QED BY <1>3, <1>4, <1>5, <1>6 DEF SameFrames

LEMMA GoneOn ==
  ASSUME Framed, at = "render"
  PROVE  /\ Onwards \in Seq(Range(Onwards)) /\ SameFrames(frames, Onwards) /\ Onwards # <<>>
         /\ \A k \in 1..Len(Onwards) : IsFrame(Onwards[k])
         /\ Onwards[1].kind = "block"
<1>1. PICK e : e = [Latest EXCEPT !.todo = Tail(@)]
  OBVIOUS
<1>2. IsFrame(Latest)
  <2>1. Len(frames) \in 1..Len(frames)
    BY EmptySeq DEF Framed
  <2> QED BY <2>1 DEF Framed, Latest
<1>3. IsFrame(e) /\ Alike(Latest, e)
  BY <1>1, <1>2 DEF IsFrame, Alike
<1>4. Onwards = [frames EXCEPT ![Len(frames)] = e]
  BY <1>1 DEF Onwards, Latest
<1> QED BY <1>3, <1>4, GoesOn

\* A frame more on top of them.
LEMMA Called ==
  ASSUME Framed, at = "render", NEW f, IsFrame(f)
  PROVE  LET gs == Append(Onwards, f)
         IN /\ gs \in Seq(Range(gs)) /\ gs # <<>> /\ Len(gs) = Len(frames) + 1 /\ Len(frames) \in Nat
            /\ \A k \in 1..Len(gs) : IsFrame(gs[k])
            /\ gs[1].kind = "block" /\ gs[Len(frames) + 1] = f
            /\ \A k \in 1..Len(frames) : Alike(frames[k], gs[k])
<1>1. /\ Onwards \in Seq(Range(Onwards)) /\ SameFrames(frames, Onwards) /\ Onwards # <<>>
      /\ \A k \in 1..Len(Onwards) : IsFrame(Onwards[k])
      /\ Onwards[1].kind = "block"
  BY GoneOn
<1>2. PICK gs : gs = Append(Onwards, f)
  OBVIOUS
<1>3. /\ gs \in Seq(Range(gs)) /\ gs # <<>> /\ Len(gs) = Len(Onwards) + 1 /\ Len(Onwards) \in Nat
      /\ \A j \in 1..Len(Onwards) : gs[j] = Onwards[j]
      /\ gs[Len(Onwards) + 1] = f
  BY <1>1, <1>2, Added
<1>4. Len(Onwards) = Len(frames) /\ 1 \in 1..Len(Onwards)
  BY <1>1, <1>3, EmptySeq DEF SameFrames
<1> HIDE DEF Onwards
<1>5. \A k \in 1..Len(gs) : IsFrame(gs[k])
  <2>1. ASSUME NEW k \in 1..Len(gs) PROVE IsFrame(gs[k])
    <3>1. k = Len(Onwards) + 1 \/ k \in 1..Len(Onwards)
      BY <1>3
    <3> QED BY <1>1, <1>3, <3>1
  <2> QED BY <2>1
<1>6. gs[1].kind = "block"
  BY <1>1, <1>3, <1>4
<1>7. \A k \in 1..Len(frames) : Alike(frames[k], gs[k])
  BY <1>1, <1>3, <1>4 DEF SameFrames
<1> QED BY <1>2, <1>3, <1>4, <1>5, <1>6, <1>7

-----------------------------------------------------------------------------
(* Every step *)

FrameInv == Framed /\ Restoring

LEMMA FrameInit == Init => FrameInv
<1> SUFFICES ASSUME Init PROVE FrameInv
  OBVIOUS
<1>1. frames = <<>> /\ at = "new"
  BY DEF Init
<1>2. frames \in Seq(Range(frames)) /\ Len(frames) = 0
  BY <1>1, EmptySeq
<1> QED BY <1>1, <1>2 DEF FrameInv, Framed, Restoring

LEMMA FrameNext == FrameInv /\ [Next]_vars => FrameInv'
<1> SUFFICES ASSUME FrameInv, [Next]_vars PROVE FrameInv'
  OBVIOUS
<1> USE DEF FrameInv
\* What the frames and the context keep.
<1> DEFINE Still == UNCHANGED <<frames, context, given, assigned>>
<1>1. ASSUME Still, at' \in {"new", "tokenize", "parse", "made", at} PROVE FrameInv'
  BY <1>1 DEF Framed, Restoring, Restored, First, Saves, Saved, IsFrame, Lookup
<1>2. CASE Construct
  BY <1>1, <1>2 DEF Construct, renderVars
<1>3. CASE Cuts
  BY <1>1, <1>3 DEF Cuts, CutRest, CutUnclosed, CutDelimited, Cut, Tokenized, renderVars
<1>4. CASE Parses
  <2>1. Still
    BY <1>4 DEF Parses, ParseText, ParseOutput, parseIf, parseFor, parseSet, ParseOther, Elif, Else, EndIf, EndFor,
      EndParse, Add, Enter, Turn, Parse, renderVars
  <2>2. at' \in {at, "made"}
    BY <1>4 DEF Parses, ParseText, ParseOutput, parseIf, parseFor, parseSet, ParseOther, Elif, Else, EndIf, EndFor,
      EndParse, Add, Enter, Turn, Parse
  <2> QED BY <1>1, <2>1, <2>2
<1>5. CASE UNCHANGED vars
  BY <1>1, <1>5 DEF vars, renderVars
<1>6. CASE render
  <2>1. /\ frames' = <<BlockFrame(nodes)>> /\ context' = given' /\ at' = "render"
    BY <1>6 DEF render
  <2>2. IsFrame(BlockFrame(nodes)) /\ BlockFrame(nodes).kind = "block"
    BY DEF IsFrame, BlockFrame
  <2>3. /\ frames' \in Seq(Range(frames')) /\ frames' # <<>> /\ Len(frames') = 1
        /\ frames'[1] = BlockFrame(nodes)
    <3>1. PICK f : f = BlockFrame(nodes)
      OBVIOUS
    <3>2. <<f>> \in Seq({f}) /\ <<f>> # <<>> /\ Len(<<f>>) = 1 /\ <<f>>[1] = f
      OBVIOUS
    <3>3. <<f>> \in Seq(Range(<<f>>))
      BY <3>2, SeqOfRange
    <3> QED BY <2>1, <3>1, <3>2, <3>3
  <2>4. Framed'
    BY <2>1, <2>2, <2>3 DEF Framed
  <2>5. Restoring'
    BY <2>1, <2>2, <2>3 DEF Restoring, Restored, First, Saves
  <2> QED BY <2>4, <2>5
<1>7. ASSUME at = "render", at' = "render", given' = given, frames' = Onwards,
             assigned \subseteq assigned', \A m : m \notin assigned' => Lookup(context', m) = Lookup(context, m)
      PROVE  FrameInv'
  <2>1. /\ Onwards \in Seq(Range(Onwards)) /\ SameFrames(frames, Onwards) /\ Onwards # <<>>
        /\ \A k \in 1..Len(Onwards) : IsFrame(Onwards[k])
        /\ Onwards[1].kind = "block"
    BY <1>7, GoneOn
  <2>2. Framed'
    BY <1>7, <2>1 DEF Framed, IsFrame
  <2>3. ASSUME NEW m, m \notin assigned' PROVE Restored(Onwards, context', given, m)
    <3>1. Restored(frames, context, given, m) /\ Lookup(context', m) = Lookup(context, m)
      BY <1>7, <2>3 DEF Restoring
    <3>2. Len(frames) \in Nat
      BY EmptySeq DEF Framed
    <3> QED BY <2>1, <3>1, <3>2, RestoredSame
  <2>4. Restoring'
    BY <1>7, <2>3 DEF Restoring
  <2> QED BY <2>2, <2>4
\* A call more: its frame, which saves what is there.
<1>8. ASSUME at = "render", at' = "render", UNCHANGED <<context, given, assigned>>,
             NEW f, IsFrame(f), frames' = Append(Onwards, f),
             \A m : Saves(f, m) => Saved(f, m) = Lookup(context, m)
      PROVE  FrameInv'
  <2>1. PICK gs : gs = Append(Onwards, f)
    OBVIOUS
  <2>2. /\ gs \in Seq(Range(gs)) /\ gs # <<>> /\ Len(gs) = Len(frames) + 1 /\ Len(frames) \in Nat
        /\ \A k \in 1..Len(gs) : IsFrame(gs[k])
        /\ gs[1].kind = "block" /\ gs[Len(frames) + 1] = f
        /\ \A k \in 1..Len(frames) : Alike(frames[k], gs[k])
    BY <1>8, <2>1, Called
  <2>3. Framed'
    BY <1>8, <2>1, <2>2 DEF Framed, IsFrame
  <2>4. ASSUME NEW m, m \notin assigned PROVE Restored(gs, context, given, m)
    <3>1. Restored(frames, context, given, m)
      BY <1>8, <2>4 DEF Restoring
    <3> QED BY <1>8, <2>2, <3>1, RestoredMore
  <2>5. Restoring'
    BY <1>8, <2>1, <2>4 DEF Restoring
  <2> QED BY <2>3, <2>5
\* A call less: what it saved is back.
<1>9. ASSUME at = "render", UNCHANGED <<given, assigned>>, frames' = Front(frames),
             at' = IF Len(frames) = 1 THEN "rendered" ELSE "render",
             \A m : Lookup(context', m) = IF Saves(Latest, m) THEN Saved(Latest, m) ELSE Lookup(context, m)
      PROVE  FrameInv'
  <2>1. PICK gs : gs = Front(frames)
    OBVIOUS
  <2>2. /\ gs \in Seq(Range(gs)) /\ Len(gs) = Len(frames) - 1 /\ Len(frames) \in Nat \ {0}
        /\ \A j \in 1..Len(gs) : gs[j] = frames[j]
    BY <1>9, <2>1, Shortened DEF Framed
  <2>3. \A k \in 1..Len(gs) : IsFrame(gs[k])
    BY <2>2 DEF Framed
  <2>4. Len(frames) = 1 => gs = <<>>
    BY <2>2, EmptySeq
  <2>5. Len(frames) # 1 => gs # <<>> /\ gs[1].kind = "block"
    <3>1. SUFFICES ASSUME Len(frames) # 1 PROVE gs # <<>> /\ gs[1].kind = "block"
      OBVIOUS
    <3>2. 1 \in 1..Len(gs) /\ Len(gs) # 0
      BY <2>2, <3>1
    <3>3. gs # <<>>
      BY <3>2, EmptySeq
    <3> QED BY <1>9, <2>2, <3>2, <3>3 DEF Framed
  <2>6. Framed'
    BY <1>9, <2>1, <2>2, <2>3, <2>4, <2>5 DEF Framed, IsFrame
  <2>7. ASSUME NEW m, m \notin assigned PROVE Restored(gs, context', given, m)
    <3>1. Restored(frames, context, given, m)
      BY <1>9, <2>7 DEF Restoring
    <3>2. PICK n \in Nat : n = Len(frames) - 1
      BY <2>2
    <3>3. n + 1 = Len(frames) /\ Latest = frames[n + 1] /\ Len(gs) = n
      BY <2>2, <3>2 DEF Latest
    <3>4. Lookup(context', m) = IF Saves(frames[n + 1], m) THEN Saved(frames[n + 1], m) ELSE Lookup(context, m)
      BY <1>9, <3>3
    <3>5. \A k \in 1..n : gs[k] = frames[k]
      BY <2>2, <3>3
    <3>6. Len(frames) = n + 1
      BY <3>3
    <3> QED BY <3>1, <3>3, <3>4, <3>5, <3>6, RestoredLess
  <2>8. Restoring'
    BY <1>9, <2>1, <2>7 DEF Restoring
  <2> QED BY <2>6, <2>8
<1>10. CASE RenderText
  BY <1>7, <1>10 DEF RenderText, renderNode, Rendering
<1>11. CASE RenderOutput
  BY <1>7, <1>11 DEF RenderOutput, renderNode, Rendering
<1>12. CASE RenderSet
  <2>1. \A m : m \notin assigned' => Lookup(context', m) = Lookup(context, m)
    <3>1. PICK v : v = Eval(Upcoming.expr, context)
      OBVIOUS
    <3>2. context' = Set(context, Upcoming.name, v) /\ assigned' = assigned \cup {Upcoming.name}
      BY <1>12, <3>1 DEF RenderSet
    <3> QED BY <3>2, SetOne
  <2> QED BY <1>7, <1>12, <2>1 DEF RenderSet, renderNode, Rendering
<1>13. CASE renderIf
  <2>1. PICK f : f = BlockFrame(Taken(Upcoming))
    OBVIOUS
  <2>2. IsFrame(f) /\ \A m : ~Saves(f, m)
    BY <2>1 DEF BlockFrame, IsFrame, Saves
  <2>3. /\ at = "render" /\ at' = "render" /\ UNCHANGED <<context, given, assigned>>
        /\ frames' = Append(Onwards, f)
    BY <1>13, <2>1 DEF renderIf, renderNode, Rendering
  <2> QED BY <1>8, <2>2, <2>3
<1>14. CASE renderFor
  <2>1. PICK f : f = ForFrame(Upcoming)
    OBVIOUS
  <2>2. IsFrame(f) /\ \A m : Saves(f, m) => Saved(f, m) = Lookup(context, m)
    BY <2>1 DEF ForFrame, IsFrame, Saves, Saved
  <2>3. /\ at = "render" /\ at' = "render" /\ UNCHANGED <<context, given, assigned>>
        /\ frames' = Append(Onwards, f)
    BY <1>14, <2>1 DEF renderFor, renderNode, Rendering
  <2> QED BY <1>8, <2>2, <2>3
<1>15. CASE NextRound
  <2>1. PICK i : i = Latest.round + 1
    OBVIOUS
  <2>2. PICK e : e = [[Latest EXCEPT !.round = i] EXCEPT !.todo = Latest.node.kids]
    OBVIOUS
  <2>3. PICK v, w : v = Latest.list[i] /\ w = loopVar(i, Len(Latest.list))
    OBVIOUS
  <2>4. /\ at = "render" /\ at' = "render" /\ UNCHANGED <<given, assigned>> /\ Latest.kind = "for"
        /\ context' = Set(Set(context, Latest.node.name, v), "loop", w)
        /\ frames' = [frames EXCEPT ![Len(frames)].round = i, ![Len(frames)].todo = Latest.node.kids]
    BY <1>15, <2>1, <2>3 DEF NextRound, Rendering
  <2>5. Len(frames) \in 1..Len(frames) /\ Len(frames) \in Nat /\ frames \in Seq(Range(frames))
    BY <2>4, EmptySeq DEF Framed
  <2>6. IsFrame(Latest)
    BY <2>5 DEF Framed, Latest
  <2>7. IsFrame(e) /\ Alike(Latest, e)
    BY <2>2, <2>6 DEF IsFrame, Alike
  <2>8. frames' = [frames EXCEPT ![Len(frames)] = e]
    BY <2>2, <2>4, <2>5 DEF Latest
  <2>9. PICK gs : gs = [frames EXCEPT ![Len(frames)] = e]
    OBVIOUS
  <2>10. /\ gs \in Seq(Range(gs)) /\ SameFrames(frames, gs) /\ gs # <<>>
         /\ \A k \in 1..Len(gs) : IsFrame(gs[k])
         /\ gs[1].kind = "block"
    BY <2>4, <2>7, <2>9, GoesOn
  <2>11. Framed'
    BY <2>4, <2>8, <2>9, <2>10 DEF Framed, IsFrame
  <2>12. ASSUME NEW m, m \notin assigned PROVE Restored(gs, context', given, m)
    <3>1. Restored(frames, context, given, m)
      BY <2>4, <2>12 DEF Restoring
    <3>2. ASSUME \A k \in 1..Len(frames) : ~Saves(frames[k], m) PROVE Lookup(context', m) = Lookup(context, m)
      <4>1. ~Saves(Latest, m)
        BY <2>5, <3>2 DEF Latest
      <4>2. m # Latest.node.name /\ m # "loop"
        BY <2>4, <4>1 DEF Saves
      <4> QED BY <2>4, <4>2, SetOne
    <3> QED BY <2>5, <2>10, <3>1, <3>2, RestoredSame
  <2>13. Restoring'
    BY <2>4, <2>8, <2>9, <2>12 DEF Restoring
  <2> QED BY <2>11, <2>13
<1>16. CASE EndRounds
  <2>1. /\ at = "render" /\ at' = "render" /\ UNCHANGED <<given, assigned>> /\ frames' = Front(frames)
        /\ Latest.kind = "for"
        /\ context' = Set(Set(context, Latest.node.name, Latest.var), "loop", Latest.loop)
    BY <1>16 DEF EndRounds, Rendering
  <2>2. Len(frames) # 1
    BY <2>1 DEF Framed, Latest
  <2>3. ASSUME NEW m PROVE Lookup(context', m) = IF Saves(Latest, m) THEN Saved(Latest, m) ELSE Lookup(context, m)
    BY <2>1, SetOne DEF Saves, Saved
  <2> QED BY <1>9, <2>1, <2>2, <2>3
<1>17. CASE EndBlock
  <2>1. \A m : ~Saves(Latest, m)
    BY <1>17 DEF EndBlock, Saves
  <2> QED BY <1>9, <1>17, <2>1 DEF EndBlock
<1> QED
  BY <1>2, <1>3, <1>4, <1>5, <1>6, <1>10, <1>11, <1>12, <1>13, <1>14, <1>15, <1>16, <1>17 DEF Next, Renders

\* Loops leave no trace: every render gives back what its loops hid.
THEOREM NoTraceLeft == Spec => []LoopsLeaveNoTrace
<1>1. FrameInv => LoopsLeaveNoTrace
  <2>1. SUFFICES ASSUME FrameInv, at = "rendered", NEW name \in (DOMAIN context \cup DOMAIN given) \ assigned
        PROVE  Lookup(context, name) = Lookup(given, name)
    BY DEF LoopsLeaveNoTrace
  <2>2. frames = <<>> /\ Restored(frames, context, given, name)
    BY <2>1 DEF FrameInv, Framed, Restoring
  <2>3. \A k \in 1..Len(frames) : ~Saves(frames[k], name)
    BY <2>2, EmptySeq
  <2> QED BY <2>2, <2>3 DEF Restored
<1> QED BY <1>1, FrameInit, FrameNext, PTL DEF Spec

-----------------------------------------------------------------------------
(* The case of names *)

\* Characters, and their other cases.
Cased(U) == "_" \in U /\ \A c \in U : toUpper(c) \in U /\ toLower(c) \in U
LEMMA AllCases ==
  ASSUME NEW S
  PROVE  \E U : S \subseteq U /\ Cased(U)
<1>1. DOMAIN Letters = {"u", "v", "w"} /\ Letters["u"] = "U" /\ Letters["v"] = "V" /\ Letters["w"] = "W"
  BY DEF Letters
<1>2. PICK U : U = S \cup {"_", "u", "v", "w", "U", "V", "W"}
  OBVIOUS
<1>3. ASSUME NEW c \in U PROVE toUpper(c) \in U
  BY <1>1, <1>2 DEF toUpper
<1>4. ASSUME NEW c \in U PROVE toLower(c) \in U
  <2>1. IsUpper(c) => toLower(c) \in DOMAIN Letters
    BY DEF toLower, IsUpper
  <2> QED BY <1>1, <1>2, <2>1 DEF toLower
<1> QED BY <1>2, <1>3, <1>4 DEF Cased

LEMMA Cases ==
  ASSUME NEW c
  PROVE  /\ IsUpper(c) => toUpper(toLower(c)) = c /\ ~IsGap(toLower(c))
         /\ ~IsUpper(c) => toLower(c) = c
         /\ c \notin DOMAIN Letters => toUpper(c) = c
<1>1. DOMAIN Letters = {"u", "v", "w"}
  BY DEF Letters
<1>2. ASSUME IsUpper(c) PROVE toLower(c) \in DOMAIN Letters /\ Letters[toLower(c)] = c
  BY <1>2 DEF toLower, IsUpper
<1>3. IsUpper(c) => toUpper(toLower(c)) = c /\ ~IsGap(toLower(c))
  <2>1. SUFFICES ASSUME IsUpper(c) PROVE toUpper(toLower(c)) = c /\ ~IsGap(toLower(c))
    OBVIOUS
  <2>2. PICK l : l = toLower(c)
    OBVIOUS
  <2>3. l \in DOMAIN Letters /\ Letters[l] = c
    BY <1>2, <2>1, <2>2
  <2>4. toUpper(l) = c
    BY <2>3 DEF toUpper
  <2>5. ~IsGap(l)
    BY <1>1, <2>3 DEF IsGap
  <2> QED BY <2>2, <2>4, <2>5
<1>4. ~IsUpper(c) => toLower(c) = c
  BY DEF toLower
<1>5. c \notin DOMAIN Letters => toUpper(c) = c
  BY DEF toUpper
<1> QED BY <1>3, <1>4, <1>5

\* What pascal_case makes of each character.
Pascal(s, i) == IF IsGap(s[i]) THEN <<>> ELSE <<IF StartsPart(s, i) THEN toUpper(s[i]) ELSE toLower(s[i])>>
LEMMA PascalType ==
  ASSUME NEW U, Cased(U), NEW s \in Seq(U), NEW i \in 1..Len(s)
  PROVE  Pascal(s, i) \in Seq(U)
<1>1. s[i] \in U
  BY ElementOfSeq
<1>2. PICK c \in U : c = IF StartsPart(s, i) THEN toUpper(s[i]) ELSE toLower(s[i])
  BY <1>1 DEF Cased
<1> QED BY <1>2 DEF Pascal

LEMMA PascalMore ==
  ASSUME NEW U, Cased(U), NEW u \in Seq(U), NEW v \in Seq(U)
  PROVE  /\ u \o v \in Seq(U) /\ pascal_case(u) \in Seq(U)
         /\ pascal_case(u \o v) = pascal_case(u) \o FlattenSeq([j \in 1..Len(v) |-> Pascal(u \o v, Len(u) + j)])
<1>1. PICK m \in Nat, n \in Nat : m = Len(u) /\ n = Len(v)
  BY LenProperties
<1>2. PICK w : w = u \o v
  OBVIOUS
<1>3. /\ w \in Seq(U) /\ Len(w) = m + n
      /\ \A i \in 1..m + n : w[i] = IF i <= m THEN u[i] ELSE v[i - m]
  BY <1>1, <1>2, ConcatProperties
<1>4. PICK a : a = [i \in 1..m |-> Pascal(u, i)]
  OBVIOUS
<1>5. PICK b : b = [j \in 1..n |-> Pascal(w, m + j)]
  OBVIOUS
<1>6. a \in Seq(Seq(U)) /\ Len(a) = m
  <2>1. \A i \in 1..m : Pascal(u, i) \in Seq(U)
    BY <1>1, PascalType
  <2> QED BY <1>4, <2>1
<1>7. b \in Seq(Seq(U)) /\ Len(b) = n
  <2>1. \A j \in 1..n : m + j \in 1..Len(w)
    BY <1>3
  <2>2. \A j \in 1..n : Pascal(w, m + j) \in Seq(U)
    BY <1>3, <2>1, PascalType
  <2> QED BY <1>5, <2>2
<1>8. \A i \in 1..m : Pascal(w, i) = Pascal(u, i)
  <2>1. ASSUME NEW i \in 1..m PROVE w[i] = u[i] /\ (i # 1 => w[i - 1] = u[i - 1])
    <3>1. i \in 1..m + n /\ i <= m /\ (i # 1 => i - 1 \in 1..m + n /\ i - 1 <= m)
      OBVIOUS
    <3> QED BY <1>3, <3>1
  <2> QED BY <2>1 DEF Pascal, StartsPart
<1>9. [i \in 1..m + n |-> Pascal(w, i)] = a \o b
  <2>1. PICK c : c = a \o b
    OBVIOUS
  <2>2. /\ c \in Seq(Seq(U)) /\ Len(c) = m + n
        /\ \A i \in 1..m + n : c[i] = IF i <= m THEN a[i] ELSE b[i - m]
    BY <1>6, <1>7, <2>1, ConcatProperties
  <2>3. ASSUME NEW i \in 1..m + n PROVE c[i] = Pascal(w, i)
    <3>1. CASE i <= m
      <4>1. i \in 1..m
        BY <3>1
      <4> QED BY <1>4, <1>8, <2>2, <3>1, <4>1
    <3>2. CASE ~(i <= m)
      <4>1. i - m \in 1..n /\ m + (i - m) = i
        BY <3>2
      <4> QED BY <1>5, <2>2, <3>2, <4>1
    <3> QED BY <3>1, <3>2
  <2>4. c = [i \in 1..m + n |-> c[i]]
    BY <2>2
  <2> QED BY <2>1, <2>3, <2>4
<1>10. /\ FlattenSeq(a) \in Seq(U) /\ FlattenSeq(b) \in Seq(U)
       /\ FlattenSeq(a \o b) = FlattenSeq(a) \o FlattenSeq(b)
  BY <1>6, <1>7, FlatConcat
<1>11. DOMAIN u = 1..m /\ DOMAIN w = 1..m + n
  BY <1>1, <1>3, LenProperties
<1>12. pascal_case(u) = FlattenSeq(a)
  BY <1>4, <1>11 DEF pascal_case, Pascal
<1>13. pascal_case(w) = FlattenSeq(a \o b)
  BY <1>9, <1>11 DEF pascal_case, Pascal
<1> QED BY <1>1, <1>2, <1>3, <1>5, <1>10, <1>12, <1>13

LEMMA PascalOne ==
  ASSUME NEW U, Cased(U), NEW u \in Seq(U), NEW c \in U, ~IsGap(c)
  PROVE  /\ u \o <<c>> \in Seq(U)
         /\ pascal_case(u \o <<c>>)
              = pascal_case(u) \o <<IF u = <<>> \/ IsGap(u[Len(u)]) THEN toUpper(c) ELSE toLower(c)>>
<1>1. PICK v \in Seq(U) : v = <<c>> /\ Len(v) = 1 /\ v[1] = c
  <2>1. <<c>> \in Seq(U) /\ Len(<<c>>) = 1 /\ <<c>>[1] = c
    OBVIOUS
  <2> QED BY <2>1, Zenon
<1>2. PICK m \in Nat : m = Len(u)
  BY LenProperties
<1>3. PICK w : w = u \o v
  OBVIOUS
<1>4. /\ w \in Seq(U) /\ \A i \in 1..m + 1 : w[i] = IF i <= m THEN u[i] ELSE v[i - m]
  BY <1>1, <1>2, <1>3, ConcatProperties
<1>5. w[m + 1] = c /\ (m # 0 => w[m] = u[m])
  <2>1. m + 1 \in 1..m + 1 /\ ~(m + 1 <= m) /\ (m + 1) - m = 1
    OBVIOUS
  <2>2. m # 0 => m \in 1..m + 1 /\ m <= m
    OBVIOUS
  <2> QED BY <1>1, <1>4, <2>1, <2>2
<1>6. m = 0 <=> u = <<>>
  BY <1>2, EmptySeq
<1>7. PICK d : d = IF u = <<>> \/ IsGap(u[m]) THEN toUpper(c) ELSE toLower(c)
  OBVIOUS
<1>8. Pascal(w, m + 1) = <<d>>
  <2>1. (m + 1) - 1 = m /\ (m + 1 = 1 <=> m = 0)
    OBVIOUS
  <2>2. StartsPart(w, m + 1) <=> (u = <<>> \/ IsGap(u[m]))
    BY <1>5, <1>6, <2>1 DEF StartsPart
  <2> QED BY <1>5, <1>7, <2>2 DEF Pascal
<1>9. PICK b : b = [j \in 1..Len(v) |-> Pascal(w, m + j)]
  OBVIOUS
<1>10. d \in U
  BY <1>7 DEF Cased
<1>11. b = << <<d>> >>
  <2>1. b = [j \in 1..1 |-> Pascal(w, m + 1)]
    BY <1>1, <1>9
  <2> QED BY <1>8, <2>1
<1>12. FlattenSeq(b) = <<d>>
  <2>1. <<d>> \in Seq(U)
    BY <1>10
  <2>2. PICK x \in Seq(U) : x = <<d>>
    BY <2>1, Zenon
  <2>3. FlattenSeq(<<x>>) = x
    BY FlatOne
  <2> QED BY <1>11, <2>2, <2>3, Zenon
<1>13. pascal_case(w) = pascal_case(u) \o FlattenSeq(b)
  <2>1. pascal_case(u \o v) = pascal_case(u) \o FlattenSeq([j \in 1..Len(v) |-> Pascal(u \o v, Len(u) + j)])
    BY PascalMore
  <2> QED BY <1>2, <1>3, <1>9, <2>1, Zenon
<1> QED BY <1>1, <1>2, <1>3, <1>4, <1>7, <1>12, <1>13

LEMMA PascalGap ==
  ASSUME NEW U, Cased(U), NEW u \in Seq(U), NEW c \in U, IsGap(c)
  PROVE  /\ u \o <<c>> \in Seq(U)
         /\ pascal_case(u \o <<c>>) = pascal_case(u)
<1>1. PICK v \in Seq(U) : v = <<c>> /\ Len(v) = 1 /\ v[1] = c
  <2>1. <<c>> \in Seq(U) /\ Len(<<c>>) = 1 /\ <<c>>[1] = c
    OBVIOUS
  <2> QED BY <2>1, Zenon
<1>2. PICK m \in Nat : m = Len(u)
  BY LenProperties
<1>3. PICK w : w = u \o v
  OBVIOUS
<1>4. /\ w \in Seq(U) /\ \A i \in 1..m + 1 : w[i] = IF i <= m THEN u[i] ELSE v[i - m]
  BY <1>1, <1>2, <1>3, ConcatProperties
<1>5. w[m + 1] = c
  <2>1. m + 1 \in 1..m + 1 /\ ~(m + 1 <= m) /\ (m + 1) - m = 1
    OBVIOUS
  <2> QED BY <1>1, <1>4, <2>1
<1>6. PICK b : b = [j \in 1..Len(v) |-> Pascal(w, m + j)]
  OBVIOUS
<1>7. b = << <<>> >>
  <2>1. b = [j \in 1..1 |-> Pascal(w, m + 1)]
    BY <1>1, <1>6
  <2>2. Pascal(w, m + 1) = <<>>
    BY <1>5 DEF Pascal
  <2> QED BY <2>1, <2>2
<1>8. FlattenSeq(b) = <<>>
  BY <1>7, EmptySeq, FlatOne
<1>9. pascal_case(w) = pascal_case(u) \o FlattenSeq(b) /\ pascal_case(u) \in Seq(U)
  <2>1. /\ pascal_case(u) \in Seq(U)
        /\ pascal_case(u \o v) = pascal_case(u) \o FlattenSeq([j \in 1..Len(v) |-> Pascal(u \o v, Len(u) + j)])
    BY PascalMore
  <2> QED BY <1>2, <1>3, <1>6, <2>1, Zenon
<1> QED BY <1>1, <1>3, <1>4, <1>8, <1>9, ConcatEmptySeq

\* What snake_case makes of each character.
Snake(s, i) ==
  IF IsUpper(s[i]) THEN (IF i > 1 THEN <<"_">> ELSE <<>>) \o <<toLower(s[i])>> ELSE <<s[i]>>

\* A name in Pascal case comes back.
LEMMA ComesBack ==
  ASSUME NEW S, NEW s \in Seq(S), \A i \in 1..Len(s) : ~IsGap(s[i]), s # <<>> => s[1] \notin DOMAIN Letters
  PROVE  pascal_case(snake_case(s)) = s
<1>1. PICK U : S \subseteq U /\ Cased(U)
  BY AllCases
<1>2. PICK n \in Nat : n = Len(s) /\ DOMAIN s = 1..n /\ s \in Seq(U)
  BY <1>1, LenProperties, SeqMonotonic
<1>3. PICK gap \in U : gap = "_"
  BY <1>1, Zenon DEF Cased
<1>4. IsGap(gap)
  BY <1>3, Zenon DEF IsGap
<1>5. PICK p : p = [i \in 1..n |-> Snake(s, i)]
  OBVIOUS
<1>6. \A i \in 1..n : s[i] \in U /\ toLower(s[i]) \in U /\ ~IsGap(s[i])
  BY <1>1, <1>2, ElementOfSeq DEF Cased
<1>7. ASSUME NEW i \in 1..n
      PROVE  /\ p[i] \in Seq(U)
             /\ ~IsUpper(s[i]) => p[i] = <<s[i]>>
             /\ IsUpper(s[i]) => p[i] = IF i = 1 THEN <<toLower(s[i])>> ELSE <<gap>> \o <<toLower(s[i])>>
  <2>1. PICK l \in U : l = toLower(s[i])
    BY <1>6
  <2>2. <<l>> \in Seq(U) /\ <<gap>> \in Seq(U) /\ <<s[i]>> \in Seq(U) /\ <<>> \o <<l>> = <<l>>
        /\ <<gap>> \o <<l>> \in Seq(U)
    BY <1>6
  <2>3. p[i] = Snake(s, i)
    BY <1>5
  <2>4. ~IsUpper(s[i]) => p[i] = <<s[i]>>
    BY <2>3, Zenon DEF Snake
  <2>5. IsUpper(s[i]) /\ i > 1 => p[i] = <<gap>> \o <<l>>
    BY <1>3, <2>1, <2>3, Zenon DEF Snake
  <2>6. IsUpper(s[i]) /\ ~(i > 1) => p[i] = <<l>>
    BY <2>1, <2>2, <2>3, Zenon DEF Snake
  <2>7. i > 1 <=> i # 1
    OBVIOUS
  <2> QED BY <2>1, <2>2, <2>4, <2>5, <2>6, <2>7, Zenon
<1>8. p \in Seq(Seq(U)) /\ Len(p) = n
  <2>1. \A i \in 1..n : p[i] \in Seq(U)
    BY <1>7, Zenon
  <2>2. PICK W : W = Seq(U)
    OBVIOUS
  <2>3. p = [i \in 1..n |-> p[i]] /\ \A i \in 1..n : p[i] \in W
    BY <1>5, <2>1, <2>2, Zenon
  <2>4. p \in Seq(W) /\ Len(p) = n
    BY <2>3
  <2> QED BY <2>2, <2>4
<1>9. PICK f : /\ \A i \in 0..n : f[i] \in Seq(U)
               /\ f[0] = <<>> /\ \A i \in 1..n : f[i] = f[i - 1] \o p[i]
               /\ FlattenSeq(p) = f[n]
  <2>1. \E f : /\ \A i \in 0..Len(p) : f[i] \in Seq(U)
               /\ f[0] = <<>> /\ \A i \in 1..Len(p) : f[i] = f[i - 1] \o p[i]
               /\ FlattenSeq(p) = f[Len(p)]
    BY <1>8, FlatSteps
  <2> QED BY <1>8, <2>1
<1>10. snake_case(s) = f[n]
  BY <1>2, <1>5, <1>9, Zenon DEF snake_case, Snake
<1> DEFINE Back(i) == /\ pascal_case(f[i]) = SubSeq(s, 1, i)
                      /\ i # 0 => f[i] # <<>> /\ ~IsGap(f[i][Len(f[i])])
<1>11. PICK T : T = {i \in Nat : i <= n => Back(i)}
  OBVIOUS
<1>12. 0 \in T
  <2>1. PICK e \in Seq(U) : e = <<>>
    BY EmptySeq
  <2>2. pascal_case(e) = <<>>
    <3>1. DOMAIN e = {} /\ Len(e) = 0
      BY <2>1
    <3>2. PICK h : h = [i \in DOMAIN e |-> Pascal(e, i)]
      OBVIOUS
    <3>3. h = <<>>
      BY <3>1, <3>2
    <3>4. FlattenSeq(h) = <<>>
      BY <3>3, EmptySeq, FlatOne
    <3> QED BY <3>2, <3>4, Zenon DEF pascal_case, Pascal
  <2>3. SubSeq(s, 1, 0) = <<>>
    BY SubSeqEmpty
  <2>4. Back(0)
    BY <1>9, <2>1, <2>2, <2>3
  <2> HIDE DEF Back
  <2> QED BY <1>11, <2>4
<1>13. ASSUME NEW i \in Nat, i \in T PROVE i + 1 \in T
  <2>1. SUFFICES ASSUME i + 1 <= n PROVE Back(i + 1)
    <3>1. i + 1 \in Nat
      OBVIOUS
    <3> HIDE DEF Back
    <3> QED BY <1>11, <3>1
  <2>2. i + 1 \in 1..n /\ i <= n /\ i \in 0..n /\ (i + 1) - 1 = i /\ i + 1 # 0 /\ (i + 1 = 1 <=> i = 0)
    BY <2>1
  <2>3. Back(i)
    <3> HIDE DEF Back
    <3> QED BY <1>11, <1>13, <2>2
  <2>4. PICK u \in Seq(U) : u = f[i]
    BY <1>9, <2>2
  <2>5. f[i + 1] = u \o p[i + 1] /\ f[i + 1] \in Seq(U)
    <3>1. i + 1 \in 0..n
      BY <2>2
    <3> QED BY <1>9, <2>2, <2>4, <3>1
  <2>6. PICK c \in U : c = s[i + 1]
    BY <1>6, <2>2
  <2>7. PICK l \in U : l = toLower(c)
    BY <1>6, <2>2, <2>6
  <2>8. ~IsGap(c)
    BY <1>6, <2>2, <2>6
  <2>9. SubSeq(s, 1, i + 1) = SubSeq(s, 1, i) \o <<c>>
    BY <1>2, <2>2, <2>6, SubSeqRecursiveSecond
  <2>10. pascal_case(u) = SubSeq(s, 1, i) /\ (i # 0 => u # <<>> /\ ~IsGap(u[Len(u)])) /\ (i = 0 => u = <<>>)
    BY <1>9, <2>3, <2>4
  \* What is put behind, if pascal_case makes the character of it.
  <2>11. ASSUME NEW v \in Seq(U), NEW d \in U, ~IsGap(d), f[i + 1] = v \o <<d>>,
                pascal_case(v \o <<d>>) = pascal_case(u) \o <<c>>
         PROVE  Back(i + 1)
    <3>1. pascal_case(f[i + 1]) = SubSeq(s, 1, i + 1)
      BY <2>9, <2>10, <2>11, Zenon
    <3>2. PICK w : w = v \o <<d>>
      OBVIOUS
    <3>3. w \in Seq(U) /\ w # <<>> /\ w[Len(w)] = d
      BY <3>2
    <3> QED BY <2>11, <3>1, <3>2, <3>3, Zenon
  <2> HIDE DEF Back
  <2>12. CASE ~IsUpper(c)
    <3>1. f[i + 1] = u \o <<c>> /\ toLower(c) = c
      BY <1>7, <2>2, <2>5, <2>6, <2>12, Cases, Zenon
    <3>2. i = 0 => toUpper(c) = c
      <4>1. SUFFICES ASSUME i = 0 PROVE toUpper(c) = c
        OBVIOUS
      <4>2. c = s[1] /\ s # <<>>
        BY <1>2, <2>2, <2>6, <4>1
      <4> QED BY <4>2, Cases, Zenon
    <3>3. pascal_case(u \o <<c>>)
            = pascal_case(u) \o <<IF u = <<>> \/ IsGap(u[Len(u)]) THEN toUpper(c) ELSE toLower(c)>>
      BY <1>1, <2>8, PascalOne
    <3>4. (IF u = <<>> \/ IsGap(u[Len(u)]) THEN toUpper(c) ELSE toLower(c)) = c
      BY <2>10, <3>1, <3>2, Zenon
    <3>5. pascal_case(u \o <<c>>) = pascal_case(u) \o <<c>>
      BY <3>3, <3>4, Zenon
    <3> QED BY <2>8, <2>11, <3>1, <3>5, Zenon
  <2>13. CASE IsUpper(c)
    <3>1. ~IsGap(l) /\ toUpper(l) = c
      BY <2>7, <2>13, Cases, Zenon
    <3>2. CASE i = 0
      <4>1. f[i + 1] = u \o <<l>>
        BY <1>7, <2>2, <2>5, <2>6, <2>7, <2>13, <3>2, Zenon
      <4>2. pascal_case(u \o <<l>>)
              = pascal_case(u) \o <<IF u = <<>> \/ IsGap(u[Len(u)]) THEN toUpper(l) ELSE toLower(l)>>
        BY <1>1, <3>1, PascalOne
      <4>3. (IF u = <<>> \/ IsGap(u[Len(u)]) THEN toUpper(l) ELSE toLower(l)) = c
        BY <2>10, <3>1, <3>2, Zenon
      <4>4. pascal_case(u \o <<l>>) = pascal_case(u) \o <<c>>
        BY <4>2, <4>3, Zenon
      <4> QED BY <2>11, <3>1, <4>1, <4>4, Zenon
    <3>3. CASE i # 0
      <4>1. f[i + 1] = u \o (<<gap>> \o <<l>>)
        BY <1>7, <2>2, <2>5, <2>6, <2>7, <2>13, <3>3, Zenon
      <4>2. PICK v \in Seq(U) : v = u \o <<gap>>
        <5>1. u \o <<gap>> \in Seq(U)
          <6>1. <<gap>> \in Seq(U)
            OBVIOUS
          <6> QED BY <6>1, ConcatProperties
        <5> QED BY <5>1, Zenon
      <4>3. f[i + 1] = v \o <<l>>
        <5>1. (u \o <<gap>>) \o <<l>> = u \o (<<gap>> \o <<l>>)
          BY ConcatAssociative
        <5> QED BY <4>1, <4>2, <5>1, Zenon
      <4>4. pascal_case(v) = pascal_case(u)
        BY <1>1, <1>4, <4>2, PascalGap
      <4>5. v # <<>> /\ IsGap(v[Len(v)])
        <5>1. v # <<>> /\ v[Len(v)] = gap
          BY <4>2
        <5> QED BY <1>4, <5>1, Zenon
      <4>6. pascal_case(v \o <<l>>)
              = pascal_case(v) \o <<IF v = <<>> \/ IsGap(v[Len(v)]) THEN toUpper(l) ELSE toLower(l)>>
        BY <1>1, <3>1, PascalOne
      <4>7. (IF v = <<>> \/ IsGap(v[Len(v)]) THEN toUpper(l) ELSE toLower(l)) = c
        BY <3>1, <4>5, Zenon
      <4>8. pascal_case(v \o <<l>>) = pascal_case(u) \o <<c>>
        BY <4>4, <4>6, <4>7, Zenon
      <4> QED BY <2>11, <3>1, <4>3, <4>8, Zenon
    <3> QED BY <3>2, <3>3
  <2> QED BY <2>12, <2>13
<1>14. n \in T
  <2> HIDE DEF Back
  <2>1. \A i \in Nat : i \in T
    BY <1>12, <1>13, Counting
  <2> QED BY <2>1
<1>15. pascal_case(f[n]) = SubSeq(s, 1, n)
  BY <1>11, <1>14
<1> QED BY <1>2, <1>10, <1>15, SubSeqFull

-----------------------------------------------------------------------------
(* A name rendered *)

NameText == ToText(Lookup(given, "n"))
NameInv ==
  nodes = NameTemplate /\ at \in {"render", "rendered"} =>
    /\ given \in Contexts
    /\ at = "render" =>
         /\ Len(frames) = 1 /\ frames[1].kind = "block"
         /\ \/ frames[1].todo = NameTemplate /\ text = <<>> /\ context = given
            \/ frames[1].todo = <<>> /\ text = NameText
    /\ at = "rendered" => text = NameText

LEMMA NameRendered ==
  ASSUME NEW c \in Contexts
  PROVE  <<>> \o ToText(Eval(NameExpr, c)) = ToText(Lookup(c, "n"))
<1>1. PICK s : s = ToText(Lookup(c, "n"))
  OBVIOUS
<1>2. PICK S : S = STRING
  OBVIOUS
<1>3. /\ s \in Seq(S) /\ \A i \in DOMAIN s : ~IsGap(s[i])
      /\ s # <<>> => s[1] \notin DOMAIN Letters
      /\ ToText(Eval(NameExpr, c)) = pascal_case(snake_case(s))
  BY <1>1, <1>2, NameAssumption, Zenon DEF InPascalCase
<1>4. DOMAIN s = 1..Len(s)
  BY <1>3, LenProperties
<1>5. pascal_case(snake_case(s)) = s
  <2>1. \A i \in 1..Len(s) : ~IsGap(s[i])
    BY <1>3, <1>4, Zenon
  <2> QED BY <1>3, <2>1, ComesBack
<1>6. <<>> \o s = s
  BY <1>3, ConcatEmptySeq
<1> QED BY <1>1, <1>3, <1>5, <1>6, Zenon

LEMMA NameNext == FrameInv /\ NameInv /\ [Next]_vars => NameInv'
<1> SUFFICES ASSUME FrameInv, NameInv, [Next]_vars, nodes' = NameTemplate, at' \in {"render", "rendered"}
    PROVE  NameInv'
  BY DEF NameInv
<1>1. Len(NameTemplate) = 1 /\ NameTemplate[1].type = "Output" /\ NameTemplate[1].expr = NameExpr
      /\ Tail(NameTemplate) = <<>> /\ NameTemplate # <<>>
  <2>1. PICK n : n = [Node("Output") EXCEPT !.expr = NameExpr]
    OBVIOUS
  <2>2. n.type = "Output" /\ n.expr = NameExpr
    BY <2>1 DEF Node
  <2>3. Len(<<n>>) = 1 /\ <<n>>[1] = n /\ <<n>> # <<>>
    OBVIOUS
  <2>4. Tail(<<n>>) = <<>>
    <3>1. <<n>> \in Seq({n})
      OBVIOUS
    <3>2. Tail(<<n>>) \in Seq({n}) /\ Len(Tail(<<n>>)) = 0
      BY <2>3, <3>1, HeadTailProperties
    <3> QED BY <3>2, EmptySeq
  <2>5. NameTemplate = <<n>>
    BY <2>1, Zenon DEF NameTemplate
  <2> QED BY <2>2, <2>3, <2>4, <2>5
<1>2. ASSUME UNCHANGED <<at, nodes, given, frames, context, text>> PROVE NameInv'
  BY <1>2 DEF NameInv, NameText, Lookup
<1>3. CASE render
  <2>1. /\ frames' = <<BlockFrame(nodes)>> /\ context' = given' /\ at' = "render" /\ text' = <<>>
        /\ given' \in Contexts /\ nodes' = nodes
    BY <1>3 DEF render
  <2> QED BY <2>1 DEF NameInv, BlockFrame
<1>4. CASE Renders /\ at = "render"
  <2>1. nodes = NameTemplate /\ given' = given
    BY <1>4 DEF Renders, render, RenderText, RenderOutput, RenderSet, renderIf, renderFor, NextRound, EndRounds,
      EndBlock, renderNode, Rendering
  <2>2. /\ given \in Contexts /\ Len(frames) = 1 /\ frames[1].kind = "block"
        /\ \/ frames[1].todo = NameTemplate /\ text = <<>> /\ context = given
           \/ frames[1].todo = <<>> /\ text = NameText
    BY <1>4, <2>1 DEF NameInv
  <2>3. CASE frames[1].todo = NameTemplate /\ text = <<>> /\ context = given
    <3>1. RenderOutput
      BY <1>1, <1>4, <2>2, <2>3 DEF Renders, render, RenderText, RenderSet, renderIf, renderFor, NextRound, EndRounds,
        EndBlock, renderNode, Rendering, Latest, Upcoming
    <3>2. text' = <<>> \o ToText(Eval(NameExpr, given)) /\ frames' = Onwards /\ at' = "render"
      BY <1>1, <2>2, <2>3, <3>1 DEF RenderOutput, renderNode, Rendering, Latest, Upcoming
    <3>3. IsFrame(frames[1]) /\ frames \in Seq(Range(frames))
      BY <1>4, <2>2 DEF FrameInv, Framed
    <3>4. Onwards[1].todo = <<>> /\ Onwards[1].kind = "block" /\ Len(Onwards) = 1
      BY <1>1, <2>2, <2>3, <3>3 DEF Onwards, IsFrame
    <3>5. text' = NameText
      BY <2>2, <3>2, NameRendered DEF NameText
    <3> QED BY <2>1, <2>2, <3>2, <3>4, <3>5 DEF NameInv, NameText, Lookup
  <2>4. CASE frames[1].todo = <<>> /\ text = NameText
    <3>1. EndBlock
      BY <1>1, <1>4, <2>2, <2>4 DEF Renders, render, RenderText, RenderOutput, RenderSet, renderIf, renderFor,
        NextRound, EndRounds, renderNode, Rendering, Latest, Upcoming
    <3>2. text' = text /\ at' = "rendered"
      BY <2>2, <3>1 DEF EndBlock
    <3> QED BY <2>1, <2>2, <2>4, <3>2 DEF NameInv, NameText, Lookup
  <2> QED BY <2>2, <2>3, <2>4
<1>5. CASE Construct \/ Cuts \/ Parses
  BY <1>5 DEF Construct, Cuts, CutRest, CutUnclosed, CutDelimited, Cutting, Cut, Tokenized, Parses, ParseText,
    ParseOutput, parseIf, parseFor, parseSet, ParseOther, Elif, Else, EndIf, EndFor, EndParse, Add, Enter, Turn, Parse,
    Goes, Stops
<1>6. at = "render" \/ ~Renders \/ render
  BY DEF Renders, RenderText, RenderOutput, RenderSet, renderIf, renderFor, NextRound, EndRounds,
    EndBlock, renderNode, Rendering
<1> QED BY <1>2, <1>3, <1>4, <1>5, <1>6 DEF Next, vars, renderVars

\* Names in Pascal case are rendered as themselves after snake_case and
\* pascal_case.
THEOREM NamesSurvive == Spec => []NamesComeBack
<1>1. Init => NameInv
  BY DEF Init, NameInv
<1>2. NameInv => NamesComeBack
  BY DEF NameInv, NamesComeBack, NameText
<1> QED BY <1>1, <1>2, FrameInit, FrameNext, NameNext, PTL DEF Spec

-----------------------------------------------------------------------------
(* Nodes spelled out *)

\* Every level is spelled from the one above it.
OutLevels(ns, m, f) == f = [i \in 0..m |-> IF i = 0 THEN ns ELSE Spell(f[i - 1])]
LEMMA LevelsAlike ==
  ASSUME NEW ns, NEW m \in Nat, NEW n \in Nat, m <= n, NEW f, OutLevels(ns, m, f), NEW g, OutLevels(ns, n, g)
  PROVE  f[m] = g[m]
<1>1. PICK T : T = {i \in Nat : i <= m => f[i] = g[i]}
  OBVIOUS
<1>2. 0 \in T
  <2>1. 0 \in 0..m /\ 0 \in 0..n
    OBVIOUS
  <2>2. f[0] = ns /\ g[0] = ns
    BY <2>1, Zenon DEF OutLevels
  <2> QED BY <1>1, <2>2
<1>3. ASSUME NEW i \in Nat, i \in T PROVE i + 1 \in T
  <2>1. SUFFICES ASSUME i + 1 <= m PROVE f[i + 1] = g[i + 1]
    BY <1>1
  <2>2. i + 1 \in 0..m /\ i + 1 \in 0..n /\ i + 1 # 0 /\ (i + 1) - 1 = i /\ i <= m
    BY <2>1
  <2>3. f[i] = g[i]
    BY <1>1, <1>3, <2>2
  <2>4. f[i + 1] = Spell(f[i])
    BY <2>2, Zenon DEF OutLevels
  <2>5. g[i + 1] = Spell(g[i])
    BY <2>2, Zenon DEF OutLevels
  <2> QED BY <2>3, <2>4, <2>5
<1>4. m \in T
  BY <1>2, <1>3, Counting
<1> QED BY <1>1, <1>4

LEMMA LevelsExist ==
  ASSUME NEW ns, NEW m \in Nat
  PROVE  \E f : OutLevels(ns, m, f)
<1>1. PICK T : T = {n \in Nat : \E f : OutLevels(ns, n, f)}
  OBVIOUS
<1>2. 0 \in T
  <2>1. PICK f : f = [i \in 0..0 |-> ns]
    OBVIOUS
  <2>2. \A i \in 0..0 : i = 0
    OBVIOUS
  <2>3. OutLevels(ns, 0, f)
    BY <2>1, <2>2 DEF OutLevels
  <2> QED BY <1>1, <2>3
<1>3. ASSUME NEW n \in Nat, n \in T PROVE n + 1 \in T
  <2>1. PICK f : OutLevels(ns, n, f)
    BY <1>1, <1>3
  <2>2. PICK last : last = Spell(f[n])
    OBVIOUS
  <2>3. PICK g : g = [i \in 0..n + 1 |-> IF i = n + 1 THEN last ELSE f[i]]
    OBVIOUS
  <2>4. ASSUME NEW i \in 0..n + 1 PROVE g[i] = IF i = 0 THEN ns ELSE Spell(g[i - 1])
    <3>1. CASE i = 0
      <4>1. i # n + 1 /\ i \in 0..n
        BY <3>1
      <4>2. g[i] = f[i]
        BY <2>3, <4>1
      <4>3. f[i] = ns
        BY <2>1, <3>1, <4>1, Zenon DEF OutLevels
      <4> QED BY <3>1, <4>2, <4>3
    <3>2. CASE i # 0 /\ i # n + 1
      <4>1. i \in 0..n /\ i - 1 \in 0..n + 1 /\ i - 1 # n + 1
        BY <3>2
      <4>2. g[i] = f[i] /\ g[i - 1] = f[i - 1]
        BY <2>3, <3>2, <4>1
      <4>3. f[i] = Spell(f[i - 1])
        BY <2>1, <3>2, <4>1, Zenon DEF OutLevels
      <4> QED BY <3>2, <4>2, <4>3
    <3>3. CASE i = n + 1
      <4>1. i - 1 = n /\ n \in 0..n + 1 /\ n # n + 1 /\ i # 0
        BY <3>3
      <4>2. g[i] = last /\ g[i - 1] = f[n]
        BY <2>3, <3>3, <4>1
      <4> QED BY <2>2, <4>1, <4>2
    <3> QED BY <3>1, <3>2, <3>3
  <2>5. g = [i \in 0..n + 1 |-> g[i]]
    BY <2>3
  <2>6. OutLevels(ns, n + 1, g)
    BY <2>4, <2>5, Zenon DEF OutLevels
  <2>7. n + 1 \in Nat
    OBVIOUS
  <2> QED BY <1>1, <2>6, <2>7
<1>4. m \in T
  BY <1>2, <1>3, Counting
<1> QED BY <1>1, <1>4

LEMMA SpelledLevels ==
  ASSUME NEW ns, NEW d \in Nat
  PROVE  SpelledOut(ns, 0) = ns /\ SpelledOut(ns, d + 1) = Spell(SpelledOut(ns, d))
<1> DEFINE All(g) == g = [i \in Nat |-> IF i = 0 THEN ns ELSE Spell(g[i - 1])]
<1>1. PICK h : h = [m \in Nat |-> CHOOSE f : OutLevels(ns, m, f)]
  OBVIOUS
<1>2. ASSUME NEW m \in Nat PROVE OutLevels(ns, m, h[m])
  BY <1>1, LevelsExist, Zenon
<1>3. PICK g : g = [m \in Nat |-> h[m][m]]
  OBVIOUS
<1>4. ASSUME NEW i \in Nat PROVE g[i] = IF i = 0 THEN ns ELSE Spell(g[i - 1])
  <2>1. CASE i = 0
    <3>1. 0 \in 0..0 /\ 0 \in Nat
      OBVIOUS
    <3>2. h[0][0] = ns
      BY <1>2, <3>1, Zenon DEF OutLevels
    <3> QED BY <1>3, <2>1, <3>2
  <2>2. CASE i # 0
    <3>1. i - 1 \in Nat /\ i - 1 <= i /\ i \in 0..i
      BY <2>2
    <3>2. h[i][i] = Spell(h[i][i - 1])
      BY <1>2, <2>2, <3>1, Zenon DEF OutLevels
    <3>3. h[i - 1][i - 1] = h[i][i - 1]
      BY <1>2, <3>1, LevelsAlike
    <3>4. g[i] = h[i][i] /\ g[i - 1] = h[i - 1][i - 1]
      BY <1>3, <3>1
    <3> QED BY <2>2, <3>2, <3>3, <3>4
  <2> QED BY <2>1, <2>2
<1>5. All(g)
  <2>1. g = [i \in Nat |-> g[i]]
    BY <1>3
  <2> QED BY <1>4, <2>1, Zenon
<1>6. PICK out : All(out) /\ \A e : SpelledOut(ns, e) = out[e]
  <2>1. PICK out : out = CHOOSE f : All(f)
    OBVIOUS
  <2>2. All(out)
    <3> HIDE DEF All
    <3> QED BY <1>5, <2>1
  <2>3. \A e : SpelledOut(ns, e) = out[e]
    BY <2>1, Zenon DEF SpelledOut
  <2> HIDE DEF All
  <2> QED BY <2>2, <2>3
<1>7. out[0] = ns /\ out[d + 1] = Spell(out[d])
  <2>1. 0 \in Nat /\ d + 1 \in Nat /\ d + 1 # 0 /\ (d + 1) - 1 = d
    OBVIOUS
  <2>2. out[0] = ns
    BY <1>6, <2>1, Zenon
  <2>3. out[d + 1] = Spell(out[(d + 1) - 1])
    BY <1>6, <2>1, Zenon
  <2> QED BY <2>1, <2>2, <2>3
<1> QED BY <1>6, <1>7

-----------------------------------------------------------------------------
(* Sequences made of what each of a sequence stands for *)

FlatMap(F, s) == FlattenSeq([i \in DOMAIN s |-> F[s[i]]])
Splits(F, S, a, b) ==
  /\ FlatMap(F, a) \in Seq(S) /\ FlatMap(F, b) \in Seq(S)
  /\ FlatMap(F, a \o b) = FlatMap(F, a) \o FlatMap(F, b)

LEMMA FlatMapConcat ==
  ASSUME NEW V, NEW S, NEW F \in [V -> Seq(S)], NEW a \in Seq(V), NEW b \in Seq(V)
  PROVE  Splits(F, S, a, b)
<1>1. PICK W : W = Seq(S)
  OBVIOUS
<1>2. PICK m \in Nat, n \in Nat : m = Len(a) /\ n = Len(b)
  BY LenProperties
<1>3. DOMAIN a = 1..m /\ DOMAIN b = 1..n
  BY <1>2, LenProperties
<1>4. PICK c : c = a \o b
  OBVIOUS
<1>5. /\ c \in Seq(V) /\ Len(c) = m + n
      /\ \A i \in 1..m + n : c[i] = IF i <= m THEN a[i] ELSE b[i - m]
  BY <1>2, <1>4, ConcatProperties
<1>6. DOMAIN c = 1..m + n
  BY <1>5, LenProperties
<1>7. PICK fa, fb, fc : /\ fa = [i \in 1..m |-> F[a[i]]] /\ fb = [i \in 1..n |-> F[b[i]]]
                        /\ fc = [i \in 1..m + n |-> F[c[i]]]
  OBVIOUS
<1>8. fa \in Seq(W) /\ Len(fa) = m
  <2>1. \A i \in 1..m : F[a[i]] \in W
    BY <1>1, <1>2, ElementOfSeq
  <2> QED BY <1>7, <2>1
<1>9. fb \in Seq(W) /\ Len(fb) = n
  <2>1. \A i \in 1..n : F[b[i]] \in W
    BY <1>1, <1>2, ElementOfSeq
  <2> QED BY <1>7, <2>1
<1>10. fc = fa \o fb
  <2>1. PICK d : d = fa \o fb
    OBVIOUS
  <2>2. /\ d \in Seq(W) /\ Len(d) = m + n
        /\ \A i \in 1..m + n : d[i] = IF i <= m THEN fa[i] ELSE fb[i - m]
    BY <1>8, <1>9, <2>1, ConcatProperties
  <2>3. ASSUME NEW i \in 1..m + n PROVE d[i] = F[c[i]]
    <3>1. CASE i <= m
      <4>1. i \in 1..m
        BY <3>1
      <4> QED BY <1>5, <1>7, <2>2, <3>1, <4>1
    <3>2. CASE ~(i <= m)
      <4>1. i - m \in 1..n
        BY <3>2
      <4> QED BY <1>5, <1>7, <2>2, <3>2, <4>1
    <3> QED BY <3>1, <3>2
  <2>4. d = [i \in 1..m + n |-> d[i]]
    BY <2>2
  <2> QED BY <1>7, <2>1, <2>3, <2>4
<1>11. /\ FlattenSeq(fa) \in Seq(S) /\ FlattenSeq(fb) \in Seq(S)
       /\ FlattenSeq(fa \o fb) = FlattenSeq(fa) \o FlattenSeq(fb)
  BY <1>1, <1>8, <1>9, FlatConcat
<1>12. FlatMap(F, a) = FlattenSeq(fa) /\ FlatMap(F, b) = FlattenSeq(fb) /\ FlatMap(F, c) = FlattenSeq(fc)
  BY <1>3, <1>6, <1>7, Zenon DEF FlatMap
<1> QED BY <1>4, <1>10, <1>11, <1>12, Zenon DEF Splits

LEMMA FlatMapOne ==
  ASSUME NEW V, NEW S, NEW F \in [V -> Seq(S)], NEW x \in V
  PROVE  FlatMap(F, <<>>) = <<>> /\ FlatMap(F, <<x>>) = F[x]
<1>1. FlatMap(F, <<>>) = <<>>
  <2>1. PICK e : e = [i \in DOMAIN <<>> |-> F[<<>>[i]]]
    OBVIOUS
  <2>2. e = <<>>
    BY <2>1
  <2>3. FlattenSeq(e) = <<>>
    BY <2>2, EmptySeq, FlatOne
  <2> QED BY <2>1, <2>3, Zenon DEF FlatMap
<1>2. PICK y \in Seq(S) : y = F[x]
  OBVIOUS
<1>3. [i \in DOMAIN <<x>> |-> F[<<x>>[i]]] = <<y>>
  BY <1>2
<1>4. FlattenSeq(<<y>>) = y
  BY FlatOne
<1> QED BY <1>1, <1>2, <1>3, <1>4, Zenon DEF FlatMap

-----------------------------------------------------------------------------
(* Spelling lists of nodes *)

IsSeq(s) == s \in Seq(Range(s))
LEMMA SeqIs ==
  ASSUME NEW S, NEW s \in Seq(S)
  PROVE  IsSeq(s)
BY SeqOfRange DEF IsSeq

LEMMA SeqTwo ==
  ASSUME NEW a, NEW b, IsSeq(a), IsSeq(b)
  PROVE  \E S : a \in Seq(S) /\ b \in Seq(S)
<1>1. PICK S : S = Range(a) \cup Range(b)
  OBVIOUS
<1>2. a \in Seq(S) /\ b \in Seq(S)
  BY <1>1, SeqMonotonic DEF IsSeq
<1> QED BY <1>2

\* Nodes that are written as a list, and whose text is one.
Sound(n) == IsSeq(Spelled(n)) /\ (n.type = "Text" => n.text \in Seq(STRING))
SoundAll(s) == IsSeq(s) /\ \A i \in 1..Len(s) : Sound(s[i])

LEMMA SoundConcat ==
  ASSUME NEW a, NEW b, SoundAll(a), SoundAll(b)
  PROVE  /\ SoundAll(a \o b)
         /\ IsSeq(Spell(a)) /\ IsSeq(Spell(b)) /\ Spell(a \o b) = Spell(a) \o Spell(b)
         /\ TextIn(a) \in Seq(STRING) /\ TextIn(b) \in Seq(STRING) /\ TextIn(a \o b) = TextIn(a) \o TextIn(b)
<1>1. IsSeq(a) /\ IsSeq(b) /\ (\A i \in 1..Len(a) : Sound(a[i])) /\ (\A i \in 1..Len(b) : Sound(b[i]))
  BY DEF SoundAll
<1>2. PICK V0 : a \in Seq(V0) /\ b \in Seq(V0)
  BY <1>1, SeqTwo
<1>3. PICK V : V = {v \in V0 : Sound(v)}
  OBVIOUS
<1>4. a \in Seq(V) /\ b \in Seq(V)
  <2>1. \A i \in 1..Len(a) : a[i] \in V
    BY <1>1, <1>2, <1>3, ElementOfSeq
  <2>2. \A i \in 1..Len(b) : b[i] \in V
    BY <1>1, <1>2, <1>3, ElementOfSeq
  <2> QED BY <1>2, <2>1, <2>2
<1>5. a \o b \in Seq(V)
  BY <1>4, ConcatProperties
<1>6. SoundAll(a \o b)
  <2>1. IsSeq(a \o b)
    BY <1>5, SeqIs
  <2>2. \A i \in 1..Len(a \o b) : (a \o b)[i] \in V
    BY <1>5, ElementOfSeq
  <2>3. \A v \in V : Sound(v)
    BY <1>3
  <2> QED BY <2>1, <2>2, <2>3 DEF SoundAll
<1>7. PICK S : S = UNION {Range(Spelled(v)) : v \in V}
  OBVIOUS
<1>8. PICK F : F = [v \in V |-> Spelled(v)]
  OBVIOUS
<1>9. F \in [V -> Seq(S)]
  <2>1. ASSUME NEW v \in V PROVE Spelled(v) \in Seq(S)
    <3>1. Spelled(v) \in Seq(Range(Spelled(v)))
      BY <1>3 DEF Sound, IsSeq
    <3>2. Range(Spelled(v)) \subseteq S
      BY <1>7
    <3> QED BY <3>1, <3>2, SeqMonotonic
  <2> QED BY <1>8, <2>1
<1>10. \A s \in Seq(V) : Spell(s) = FlatMap(F, s)
  <2>1. ASSUME NEW s \in Seq(V) PROVE Spell(s) = FlatMap(F, s)
    <3>1. \A i \in DOMAIN s : s[i] \in V
      BY LenProperties, ElementOfSeq
    <3>2. \A v \in V : F[v] = Spelled(v)
      BY <1>8, Zenon
    <3>4. \A i \in DOMAIN s : F[s[i]] = Spelled(s[i])
      BY <3>1, <3>2, Zenon
    <3>3. [i \in DOMAIN s |-> F[s[i]]] = [i \in DOMAIN s |-> Spelled(s[i])]
      BY <3>4
    <3> QED BY <3>3, Zenon DEF Spell, FlatMap
  <2> QED BY <2>1
<1>11. /\ Spell(a) \in Seq(S) /\ Spell(b) \in Seq(S) /\ Spell(a \o b) = Spell(a) \o Spell(b)
  <2>1. /\ FlatMap(F, a) \in Seq(S) /\ FlatMap(F, b) \in Seq(S)
        /\ FlatMap(F, a \o b) = FlatMap(F, a) \o FlatMap(F, b)
    <3>1. Splits(F, S, a, b)
      BY <1>4, <1>9, FlatMapConcat, Zenon
    <3> QED BY <3>1, Zenon DEF Splits
  <2> QED BY <1>4, <1>5, <1>10, <2>1, Zenon
<1>12. PICK C : C = STRING
  OBVIOUS
<1>13. PICK G : G = [v \in V |-> IF v.type = "Text" THEN v.text ELSE <<>>]
  OBVIOUS
<1>14. G \in [V -> Seq(C)]
  <2>1. ASSUME NEW v \in V PROVE (IF v.type = "Text" THEN v.text ELSE <<>>) \in Seq(C)
    <3>1. v.type = "Text" => v.text \in Seq(C)
      BY <1>3, <1>12, Zenon DEF Sound
    <3>2. <<>> \in Seq(C)
      BY EmptySeq
    <3> QED BY <3>1, <3>2, Zenon
  <2> QED BY <1>13, <2>1
<1>15. \A s \in Seq(V) : TextIn(s) = FlatMap(G, s)
  <2>1. ASSUME NEW s \in Seq(V) PROVE TextIn(s) = FlatMap(G, s)
    <3>1. \A i \in DOMAIN s : s[i] \in V
      BY LenProperties, ElementOfSeq
    <3>2. \A v \in V : G[v] = IF v.type = "Text" THEN v.text ELSE <<>>
      BY <1>13, Zenon
    <3>4. \A i \in DOMAIN s : G[s[i]] = IF s[i].type = "Text" THEN s[i].text ELSE <<>>
      BY <3>1, <3>2, Zenon
    <3>3. [i \in DOMAIN s |-> G[s[i]]] = [i \in DOMAIN s |-> IF s[i].type = "Text" THEN s[i].text ELSE <<>>]
      BY <3>4
    <3> QED BY <3>3, Zenon DEF TextIn, FlatMap
  <2> QED BY <2>1
<1>16. TextIn(a) \in Seq(C) /\ TextIn(b) \in Seq(C) /\ TextIn(a \o b) = TextIn(a) \o TextIn(b)
  <2>1. /\ FlatMap(G, a) \in Seq(C) /\ FlatMap(G, b) \in Seq(C)
        /\ FlatMap(G, a \o b) = FlatMap(G, a) \o FlatMap(G, b)
    <3>1. Splits(G, C, a, b)
      BY <1>4, <1>14, FlatMapConcat, Zenon
    <3> QED BY <3>1, Zenon DEF Splits
  <2> QED BY <1>4, <1>5, <1>15, <2>1, Zenon
<1>17. IsSeq(Spell(a)) /\ IsSeq(Spell(b))
  BY <1>11, SeqIs
<1> QED BY <1>6, <1>11, <1>12, <1>16, <1>17, Zenon

-----------------------------------------------------------------------------
(* What nodes become when they are spelled out deep enough *)

Deep(ns) == \A d \in Nat : SoundAll(SpelledOut(ns, d))
Becomes(ns, d, out) == Deep(ns) /\ \A e \in Nat : e >= d => SpelledOut(ns, e) = out

LEMMA OutConcat ==
  ASSUME NEW a, NEW b, Deep(a), Deep(b), NEW n \in Nat
  PROVE  SpelledOut(a \o b, n) = SpelledOut(a, n) \o SpelledOut(b, n)
<1>1. PICK T : T = {d \in Nat : SpelledOut(a \o b, d) = SpelledOut(a, d) \o SpelledOut(b, d)}
  OBVIOUS
<1>2. 0 \in T
  <2>1. 0 \in Nat
    OBVIOUS
  <2>2. SpelledOut(a \o b, 0) = a \o b /\ SpelledOut(a, 0) = a /\ SpelledOut(b, 0) = b
    BY <2>1, SpelledLevels, Zenon
  <2>3. SpelledOut(a \o b, 0) = SpelledOut(a, 0) \o SpelledOut(b, 0)
    BY <2>2, Zenon
  <2> QED BY <1>1, <2>1, <2>3
<1>3. ASSUME NEW d \in Nat, d \in T PROVE d + 1 \in T
  <2>1. PICK x, y : x = SpelledOut(a, d) /\ y = SpelledOut(b, d)
    OBVIOUS
  <2>2. SoundAll(x) /\ SoundAll(y)
    BY <2>1 DEF Deep
  <2>3. Spell(x \o y) = Spell(x) \o Spell(y)
    BY <2>2, SoundConcat, Zenon
  <2>4. SpelledOut(a \o b, d) = x \o y
    BY <1>1, <1>3, <2>1, Zenon
  <2>5. /\ SpelledOut(a \o b, d + 1) = Spell(SpelledOut(a \o b, d))
        /\ SpelledOut(a, d + 1) = Spell(x) /\ SpelledOut(b, d + 1) = Spell(y)
    BY <2>1, SpelledLevels, Zenon
  <2>6. SpelledOut(a \o b, d + 1) = SpelledOut(a, d + 1) \o SpelledOut(b, d + 1)
    BY <2>3, <2>4, <2>5, Zenon
  <2>7. d + 1 \in Nat
    OBVIOUS
  <2> QED BY <1>1, <2>6, <2>7, Zenon
<1>4. n \in T
  BY <1>2, <1>3, Counting
<1> QED BY <1>1, <1>4, Zenon

LEMMA DeepConcat ==
  ASSUME NEW a, NEW b, Deep(a), Deep(b)
  PROVE  Deep(a \o b)
<1>1. SUFFICES ASSUME NEW d \in Nat PROVE SoundAll(SpelledOut(a \o b, d))
  BY DEF Deep
<1>2. SoundAll(SpelledOut(a, d)) /\ SoundAll(SpelledOut(b, d))
  BY Zenon DEF Deep
<1>3. SpelledOut(a \o b, d) = SpelledOut(a, d) \o SpelledOut(b, d)
  BY OutConcat, Zenon
<1>4. PICK x, y : x = SpelledOut(a, d) /\ y = SpelledOut(b, d)
  OBVIOUS
<1>5. SoundAll(x) /\ SoundAll(y)
  BY <1>2, <1>4
<1>6. SoundAll(x \o y)
  BY <1>5, SoundConcat, Zenon
<1> QED BY <1>3, <1>4, <1>6, Zenon

LEMMA BecomesBoth ==
  ASSUME NEW a, NEW b, NEW d \in Nat, NEW x, NEW y, Becomes(a, d, x), Becomes(b, d, y)
  PROVE  /\ Becomes(a \o b, d, x \o y)
         /\ TextIn(x) \in Seq(STRING) /\ TextIn(y) \in Seq(STRING) /\ TextIn(x \o y) = TextIn(x) \o TextIn(y)
<1>1. Deep(a) /\ Deep(b) /\ (\A e \in Nat : e >= d => SpelledOut(a, e) = x /\ SpelledOut(b, e) = y)
  BY Zenon DEF Becomes
<1>2. ASSUME NEW e \in Nat, e >= d PROVE SpelledOut(a \o b, e) = x \o y
  <2>1. SpelledOut(a, e) = x /\ SpelledOut(b, e) = y
    BY <1>1, <1>2, Zenon
  <2>2. SpelledOut(a \o b, e) = SpelledOut(a, e) \o SpelledOut(b, e)
    BY <1>1, OutConcat, Zenon
  <2> QED BY <2>1, <2>2, Zenon
<1>3. Becomes(a \o b, d, x \o y)
  BY <1>1, <1>2, DeepConcat, Zenon DEF Becomes
<1>4. d >= d
  OBVIOUS
<1>5. SoundAll(x) /\ SoundAll(y)
  <2>1. SpelledOut(a, d) = x /\ SpelledOut(b, d) = y
    BY <1>1, <1>4, Zenon
  <2>2. SoundAll(SpelledOut(a, d)) /\ SoundAll(SpelledOut(b, d))
    BY <1>1, Zenon DEF Deep
  <2> QED BY <2>1, <2>2, Zenon
<1>6. TextIn(x) \in Seq(STRING) /\ TextIn(y) \in Seq(STRING) /\ TextIn(x \o y) = TextIn(x) \o TextIn(y)
  BY <1>5, SoundConcat, Zenon
<1> QED BY <1>3, <1>6, Zenon

LEMMA BecomesLater ==
  ASSUME NEW a, NEW d \in Nat, NEW n \in Nat, d <= n, NEW x, Becomes(a, d, x)
  PROVE  Becomes(a, n, x)
<1>1. \A e \in Nat : e >= n => e >= d
  OBVIOUS
<1>2. Deep(a) /\ (\A e \in Nat : e >= d => SpelledOut(a, e) = x)
  BY Zenon DEF Becomes
<1>3. \A e \in Nat : e >= n => SpelledOut(a, e) = x
  BY <1>1, <1>2, Zenon
<1> QED BY <1>2, <1>3, Zenon DEF Becomes

LEMMA SpellOne ==
  ASSUME NEW n, IsSeq(Spelled(n))
  PROVE  Spell(<<n>>) = Spelled(n)
<1>1. PICK S : S = Range(Spelled(n))
  OBVIOUS
<1>2. PICK m \in Seq(S) : m = Spelled(n)
  BY <1>1, Zenon DEF IsSeq
<1>3. [i \in DOMAIN <<n>> |-> Spelled(<<n>>[i])] = <<m>>
  <2>1. DOMAIN <<n>> = 1..1 /\ <<n>>[1] = n
    OBVIOUS
  <2>2. \A i \in 1..1 : i = 1
    OBVIOUS
  <2>3. \A i \in 1..1 : Spelled(<<n>>[i]) = m
    BY <1>2, <2>1, <2>2, Zenon
  <2>4. [i \in DOMAIN <<n>> |-> Spelled(<<n>>[i])] = [i \in 1..1 |-> m]
    BY <2>1, <2>3
  <2>5. [i \in 1..1 |-> m] = <<m>>
    OBVIOUS
  <2> QED BY <2>4, <2>5, Zenon
<1>4. FlattenSeq(<<m>>) = m
  BY FlatOne
<1> QED BY <1>2, <1>3, <1>4, Zenon DEF Spell

LEMMA SpellNone == Spell(<<>>) = <<>> /\ TextIn(<<>>) = <<>>
<1>1. [i \in DOMAIN <<>> |-> Spelled(<<>>[i])] = <<>>
  OBVIOUS
<1>2. [i \in DOMAIN <<>> |-> IF <<>>[i].type = "Text" THEN <<>>[i].text ELSE <<>>] = <<>>
  OBVIOUS
<1>3. FlattenSeq(<<>>) = <<>>
  BY EmptySeq, FlatOne
<1> QED BY <1>1, <1>2, <1>3, Zenon DEF Spell, TextIn

\* What spells as itself stays.
LEMMA BecomesSame ==
  ASSUME NEW s, Spell(s) = s, SoundAll(s)
  PROVE  Becomes(s, 0, s)
<1>1. PICK T : T = {d \in Nat : SpelledOut(s, d) = s}
  OBVIOUS
<1>2. 0 \in T
  <2>1. 0 \in Nat
    OBVIOUS
  <2> QED BY <1>1, <2>1, SpelledLevels, Zenon
<1>3. ASSUME NEW d \in Nat, d \in T PROVE d + 1 \in T
  <2>1. d + 1 \in Nat
    OBVIOUS
  <2> QED BY <1>1, <1>3, <2>1, SpelledLevels, Zenon
<1>4. \A d \in Nat : SpelledOut(s, d) = s
  <2>1. \A d \in Nat : d \in T
    BY <1>2, <1>3, Counting
  <2> QED BY <1>1, <2>1, Zenon
<1> QED BY <1>4, Zenon DEF Becomes, Deep

LEMMA BecomesNone == Becomes(<<>>, 0, <<>>)
<1>1. SoundAll(<<>>)
  <2>1. IsSeq(<<>>)
    BY EmptySeq, SeqIs
  <2>2. \A i \in 1..Len(<<>>) : Sound(<<>>[i])
    OBVIOUS
  <2> QED BY <2>1, <2>2 DEF SoundAll
<1> QED BY <1>1, SpellNone, BecomesSame, Zenon

IsLeaf(n) == n.type \notin {"For", "If"}
LEMMA BecomesLeaf ==
  ASSUME NEW n, IsLeaf(n), n.type = "Text" => n.text \in Seq(STRING)
  PROVE  /\ Becomes(<<n>>, 0, <<n>>)
         /\ TextIn(<<n>>) = IF n.type = "Text" THEN n.text ELSE <<>>
<1>1. Spelled(n) = <<n>>
  BY Zenon DEF Spelled, IsLeaf
<1>2. <<n>> \in Seq({n}) /\ Len(<<n>>) = 1 /\ <<n>>[1] = n
  OBVIOUS
<1>3. IsSeq(<<n>>)
  BY <1>2, SeqIs
<1>4. Spell(<<n>>) = <<n>>
  BY <1>1, <1>3, SpellOne, Zenon
<1>5. Sound(n)
  BY <1>1, <1>3, Zenon DEF Sound
<1>6. SoundAll(<<n>>)
  <2>1. \A i \in 1..Len(<<n>>) : <<n>>[i] = n
    BY <1>2
  <2> QED BY <1>3, <1>5, <2>1, Zenon DEF SoundAll
<1>7. Becomes(<<n>>, 0, <<n>>)
  BY <1>4, <1>6, BecomesSame, Zenon
<1>8. PICK t : t = IF n.type = "Text" THEN n.text ELSE <<>>
  OBVIOUS
<1>9. PICK C : C = STRING
  OBVIOUS
<1>10. t \in Seq(C)
  <2>1. <<>> \in Seq(C)
    BY EmptySeq
  <2> QED BY <1>8, <1>9, <2>1, Zenon
<1>11. [i \in DOMAIN <<n>> |-> IF <<n>>[i].type = "Text" THEN <<n>>[i].text ELSE <<>>] = <<t>>
  <2>1. DOMAIN <<n>> = 1..1 /\ \A i \in 1..1 : <<n>>[i] = n
    OBVIOUS
  <2>2. \A i \in 1..1 : (IF <<n>>[i].type = "Text" THEN <<n>>[i].text ELSE <<>>) = t
    BY <1>8, <2>1, Zenon
  <2>3. [i \in DOMAIN <<n>> |-> IF <<n>>[i].type = "Text" THEN <<n>>[i].text ELSE <<>>] = [i \in 1..1 |-> t]
    BY <2>1, <2>2
  <2>4. [i \in 1..1 |-> t] = <<t>>
    OBVIOUS
  <2> QED BY <2>3, <2>4, Zenon
<1>12. FlattenSeq(<<t>>) = t
  BY <1>10, FlatOne
<1> QED BY <1>7, <1>8, <1>11, <1>12, Zenon DEF TextIn

\* A level more, from outside.
LEMMA OutShift ==
  ASSUME NEW s, NEW n \in Nat
  PROVE  SpelledOut(s, n + 1) = SpelledOut(Spell(s), n)
<1>1. PICK T : T = {d \in Nat : SpelledOut(s, d + 1) = SpelledOut(Spell(s), d)}
  OBVIOUS
<1>2. 0 \in T
  <2>1. 0 \in Nat
    OBVIOUS
  <2>2. SpelledOut(s, 0 + 1) = Spell(s) /\ SpelledOut(Spell(s), 0) = Spell(s)
    BY <2>1, SpelledLevels, Zenon
  <2> QED BY <1>1, <2>1, <2>2, Zenon
<1>3. ASSUME NEW d \in Nat, d \in T PROVE d + 1 \in T
  <2>1. d + 1 \in Nat
    OBVIOUS
  <2>2. SpelledOut(s, d + 1) = SpelledOut(Spell(s), d)
    BY <1>1, <1>3, Zenon
  <2>3. SpelledOut(s, (d + 1) + 1) = Spell(SpelledOut(s, d + 1))
    BY <2>1, SpelledLevels, Zenon
  <2>4. SpelledOut(Spell(s), d + 1) = Spell(SpelledOut(Spell(s), d))
    BY SpelledLevels, Zenon
  <2> QED BY <1>1, <2>1, <2>2, <2>3, <2>4, Zenon
<1>4. n \in T
  BY <1>2, <1>3, Counting
<1> QED BY <1>1, <1>4, Zenon

\* A block becomes what its tags and bodies become.
LEMMA BecomesBlock ==
  ASSUME NEW n, n.type # "Text", NEW d \in Nat, NEW x, Becomes(Spelled(n), d, x)
  PROVE  Becomes(<<n>>, d + 1, x)
<1>1. Deep(Spelled(n))
  BY Zenon DEF Becomes
<1>2. 0 \in Nat /\ SpelledOut(Spelled(n), 0) = Spelled(n)
  BY SpelledLevels
<1>3. IsSeq(Spelled(n))
  BY <1>1, <1>2, Zenon DEF Deep, SoundAll
<1>4. Spell(<<n>>) = Spelled(n)
  BY <1>3, SpellOne, Zenon
<1>5. SoundAll(<<n>>)
  <2>1. <<n>> \in Seq({n}) /\ \A i \in 1..Len(<<n>>) : <<n>>[i] = n
    OBVIOUS
  <2>2. IsSeq(<<n>>)
    BY <2>1, SeqIs
  <2> QED BY <1>3, <2>1, <2>2, Zenon DEF SoundAll, Sound
<1>6. ASSUME NEW e \in Nat PROVE SpelledOut(<<n>>, e + 1) = SpelledOut(Spelled(n), e)
  BY <1>4, OutShift, Zenon
<1>7. Deep(<<n>>)
  <2>1. SUFFICES ASSUME NEW e \in Nat PROVE SoundAll(SpelledOut(<<n>>, e))
    BY DEF Deep
  <2>2. CASE e = 0
    BY <1>2, <1>5, <2>2, SpelledLevels, Zenon
  <2>3. CASE e # 0
    <3>1. PICK k \in Nat : e = k + 1
      <4>1. e - 1 \in Nat /\ e = (e - 1) + 1
        BY <2>3
      <4> QED BY <4>1, Zenon
    <3> QED BY <1>1, <1>6, <3>1, Zenon DEF Deep
  <2> QED BY <2>2, <2>3
<1>8. ASSUME NEW e \in Nat, e >= d + 1 PROVE SpelledOut(<<n>>, e) = x
  <2>1. PICK k \in Nat : e = k + 1 /\ k >= d
    <3>1. e - 1 \in Nat /\ e = (e - 1) + 1 /\ e - 1 >= d
      BY <1>8
    <3> QED BY <3>1, Zenon
  <2>2. SpelledOut(Spelled(n), k) = x
    BY <2>1, Zenon DEF Becomes
  <2> QED BY <1>6, <2>1, <2>2, Zenon
<1> QED BY <1>7, <1>8, Zenon DEF Becomes

-----------------------------------------------------------------------------
(* What is parsed of the chunks *)

Strings == Seq(STRING)
ChunkText(c) == IF c.type = "Text" THEN c.content ELSE <<>>
TextBefore(cs, n) == TextOf(SubSeq(cs, 1, n - 1))
Cleanly(cs) == IsSeq(cs) /\ \A i \in 1..Len(cs) : ChunkText(cs[i]) \in Strings

\* Nodes whose text, spelled out, is t.
HasText(ns, d, t) == \E out : Becomes(ns, d, out) /\ TextIn(out) = t

\* What a body under way is spelled after.
Lead(b) ==
  IF b.part = "loop" THEN <<ForTag(b.node)>>
  ELSE IF b.part = "branch" THEN SpelledBranches(b.node.branches) \o <<BranchTag(Len(b.node.branches) + 1, b.cond)>>
  ELSE IF b.part = "else" THEN SpelledBranches(b.node.branches)
  ELSE <<>>
BlockText(b, d, p, q) ==
  \E t1 \in Strings, t2 \in Strings : HasText(Lead(b), d, t1) /\ HasText(b.nodes, d, t2) /\ q = (p \o t1) \o t2

GoodBranches(bs) == IsSeq(bs) /\ \A i \in 1..Len(bs) : IsSeq(bs[i].body)
GoodBlock(b) ==
  /\ b = [part |-> b.part, node |-> b.node, cond |-> b.cond, nodes |-> b.nodes]
  /\ b.node = [type |-> b.node.type, text |-> b.node.text, expr |-> b.node.expr, name |-> b.node.name,
               branches |-> b.node.branches, kids |-> b.node.kids]
  /\ \/ b.part = "top"
     \/ b.part = "loop" /\ b.node.type = "For"
     \/ b.part \in {"branch", "else"} /\ b.node.type = "If" /\ GoodBranches(b.node.branches) /\ b.node.kids = <<>>

Open(bs, n, cs) ==
  /\ IsSeq(bs) /\ bs # <<>> /\ n \in Nat /\ Len(bs) <= n /\ n <= Len(cs) + 1
  /\ \A k \in 1..Len(bs) : GoodBlock(bs[k]) /\ (bs[k].part = "top" <=> k = 1)
\* The text before each block, and what the blocks add to it.
Kept(bs, n, cs) ==
  \E P \in [Nat -> Strings] :
    /\ P[1] = <<>> /\ P[Len(bs) + 1] = TextBefore(cs, n)
    /\ \A k \in 1..Len(bs) : BlockText(bs[k], n - k, P[k], P[k + 1])

TextInv ==
  /\ at = "new" => chunks = <<>> /\ pos = 1 /\ next = 1
  /\ at = "tokenize" => source \in Strings /\ pos \in Nat \ {0} /\ next = 1 /\ Cleanly(chunks)
  /\ at = "parse" => Cleanly(chunks) /\ Open(blocks, next, chunks) /\ Kept(blocks, next, chunks)
  /\ TextKept

LEMMA Strung ==
  /\ <<>> \in Strings
  /\ \A a, b \in Strings : a \o b \in Strings /\ a \o <<>> = a /\ <<>> \o a = a
<1>1. PICK C : C = STRING
  OBVIOUS
<1>2. Strings = Seq(C)
  BY <1>1, Zenon DEF Strings
<1> QED BY <1>2

LEMMA Regroup ==
  ASSUME NEW a \in Strings, NEW b \in Strings, NEW c \in Strings
  PROVE  (a \o b) \o c = a \o (b \o c)
<1>1. PICK C : C = STRING
  OBVIOUS
<1>2. a \in Seq(C) /\ b \in Seq(C) /\ c \in Seq(C)
  BY <1>1, Zenon DEF Strings
<1> QED BY <1>2

LEMMA TextParts ==
  ASSUME NEW a, NEW d \in Nat, NEW t, HasText(a, d, t)
  PROVE  IsSeq(a) /\ t \in Strings
<1>1. PICK x : Becomes(a, d, x) /\ TextIn(x) = t
  BY Zenon DEF HasText
<1>2. TextIn(x) \in Strings
  BY <1>1, BecomesBoth, Zenon DEF Strings
<1>3. 0 \in Nat /\ SpelledOut(a, 0) = a
  BY SpelledLevels
<1>4. IsSeq(a)
  BY <1>1, <1>3, Zenon DEF Becomes, Deep, SoundAll
<1> QED BY <1>1, <1>2, <1>4, Zenon

LEMMA BothText ==
  ASSUME NEW a, NEW b, NEW d \in Nat, NEW t, NEW u, HasText(a, d, t), HasText(b, d, u)
  PROVE  HasText(a \o b, d, t \o u)
<1>1. PICK x : Becomes(a, d, x) /\ TextIn(x) = t
  BY Zenon DEF HasText
<1>2. PICK y : Becomes(b, d, y) /\ TextIn(y) = u
  BY Zenon DEF HasText
<1>3. Becomes(a \o b, d, x \o y) /\ TextIn(x \o y) = TextIn(x) \o TextIn(y)
  <2>1. Becomes(a, d, x) /\ Becomes(b, d, y)
    BY <1>1, <1>2
  <2> QED BY <2>1, BecomesBoth, SMTT(60)
<1>4. TextIn(x \o y) = t \o u
  BY <1>1, <1>2, <1>3, Zenon
<1> QED BY <1>3, <1>4, Zenon DEF HasText

LEMMA LaterText ==
  ASSUME NEW a, NEW d \in Nat, NEW n \in Nat, d <= n, NEW t, HasText(a, d, t)
  PROVE  HasText(a, n, t)
BY BecomesLater, Zenon DEF HasText

LEMMA NoneText ==
  ASSUME NEW d \in Nat
  PROVE  HasText(<<>>, d, <<>>) /\ \A t : HasText(<<>>, d, t) => t = <<>>
<1>1. 0 \in Nat /\ 0 <= d /\ d >= d
  OBVIOUS
<1>2. Becomes(<<>>, d, <<>>)
  BY <1>1, BecomesNone, BecomesLater, Zenon
<1>3. SpelledOut(<<>>, d) = <<>>
  BY <1>1, <1>2, Zenon DEF Becomes
<1>4. ASSUME NEW t, HasText(<<>>, d, t) PROVE t = <<>>
  <2>1. PICK x : Becomes(<<>>, d, x) /\ TextIn(x) = t
    BY <1>4, Zenon DEF HasText
  <2>2. SpelledOut(<<>>, d) = x
    BY <1>1, <2>1, Zenon DEF Becomes
  <2> QED BY <1>3, <2>1, <2>2, SpellNone, Zenon
<1> QED BY <1>2, <1>4, SpellNone, Zenon DEF HasText

LEMMA LeafText ==
  ASSUME NEW n, IsLeaf(n), n.type = "Text" => n.text \in Strings, NEW d \in Nat
  PROVE  HasText(<<n>>, d, IF n.type = "Text" THEN n.text ELSE <<>>)
<1>1. 0 \in Nat /\ 0 <= d
  OBVIOUS
<1>2. n.type = "Text" => n.text \in Seq(STRING)
  BY Zenon DEF Strings
<1>3. Becomes(<<n>>, 0, <<n>>) /\ TextIn(<<n>>) = IF n.type = "Text" THEN n.text ELSE <<>>
  BY <1>2, BecomesLeaf, Zenon
<1>4. HasText(<<n>>, 0, IF n.type = "Text" THEN n.text ELSE <<>>)
  BY <1>3, Zenon DEF HasText
<1> QED BY <1>1, <1>4, LaterText, Zenon

LEMMA TagText ==
  ASSUME NEW c, NEW d \in Nat
  PROVE  HasText(<<TagNode(c)>>, d, <<>>)
<1>1. TagNode(c).type = "Tag"
  BY DEF TagNode, Node
<1>2. IsLeaf(TagNode(c)) /\ TagNode(c).type # "Text"
  BY <1>1 DEF IsLeaf
<1> QED BY <1>2, LeafText, Zenon

LEMMA InnerText ==
  ASSUME NEW n, n.type # "Text", NEW d \in Nat, NEW t, HasText(Spelled(n), d, t)
  PROVE  HasText(<<n>>, d + 1, t)
BY BecomesBlock, Zenon DEF HasText

LEMMA BlockLater ==
  ASSUME NEW b, NEW d \in Nat, NEW n \in Nat, d <= n, NEW p, NEW q, BlockText(b, d, p, q)
  PROVE  BlockText(b, n, p, q)
<1>1. PICK t1 \in Strings, t2 \in Strings : HasText(Lead(b), d, t1) /\ HasText(b.nodes, d, t2) /\ q = (p \o t1) \o t2
  BY Zenon DEF BlockText
<1>2. HasText(Lead(b), n, t1) /\ HasText(b.nodes, n, t2)
  BY <1>1, LaterText, Zenon
<1> QED BY <1>1, <1>2, Zenon DEF BlockText

LEMMA BlockGrows ==
  ASSUME NEW b, NEW c, NEW d \in Nat, NEW p \in Strings, NEW q, BlockText(b, d, p, q), NEW n, NEW u,
         HasText(<<n>>, d, u), Lead(c) = Lead(b), c.nodes = b.nodes \o <<n>>
  PROVE  BlockText(c, d, p, q \o u)
<1>1. PICK t1 \in Strings, t2 \in Strings : HasText(Lead(b), d, t1) /\ HasText(b.nodes, d, t2) /\ q = (p \o t1) \o t2
  BY Zenon DEF BlockText
<1>2. HasText(c.nodes, d, t2 \o u) /\ u \in Strings
  BY <1>1, BothText, TextParts, Zenon
<1>3. t2 \o u \in Strings /\ p \o t1 \in Strings
  BY <1>2, Strung, Zenon
<1>4. q \o u = (p \o t1) \o (t2 \o u)
  <2>1. PICK r \in Strings : r = p \o t1
    BY <1>3, Zenon
  <2>2. (r \o t2) \o u = r \o (t2 \o u)
    BY <1>2, Regroup, Zenon
  <2> QED BY <1>1, <2>1, <2>2, Zenon
<1> QED BY <1>1, <1>2, <1>3, <1>4, Zenon DEF BlockText

\* The text before a chunk.
LEMMA TextMore ==
  ASSUME NEW cs, Cleanly(cs)
  PROVE  /\ TextBefore(cs, 1) = <<>> /\ TextBefore(cs, Len(cs) + 1) = TextOf(cs)
         /\ \A n \in 1..Len(cs) : /\ TextBefore(cs, n) \in Strings
                                  /\ TextBefore(cs, n + 1) = TextBefore(cs, n) \o ChunkText(cs[n])
<1>1. PICK V0 : cs \in Seq(V0)
  BY DEF Cleanly, IsSeq
<1>2. PICK V : V = {v \in V0 : ChunkText(v) \in Strings}
  OBVIOUS
<1>3. cs \in Seq(V)
  <2>1. \A i \in 1..Len(cs) : cs[i] \in V
    BY <1>1, <1>2, ElementOfSeq DEF Cleanly
  <2> QED BY <1>1, <2>1
<1>4. PICK C : C = STRING
  OBVIOUS
<1>5. Strings = Seq(C)
  BY <1>4, Zenon DEF Strings
<1>6. PICK F : F = [v \in V |-> ChunkText(v)]
  OBVIOUS
<1>7. F \in [V -> Seq(C)] /\ \A v \in V : F[v] = ChunkText(v)
  BY <1>2, <1>5, <1>6
<1>8. ASSUME NEW s \in Seq(V) PROVE TextOf(s) = FlatMap(F, s)
  <2>1. \A i \in DOMAIN s : s[i] \in V
    BY LenProperties, ElementOfSeq
  <2>2. \A i \in DOMAIN s : F[s[i]] = IF s[i].type = "Text" THEN s[i].content ELSE <<>>
    BY <1>7, <2>1, Zenon DEF ChunkText
  <2>3. [i \in DOMAIN s |-> F[s[i]]] = [i \in DOMAIN s |-> IF s[i].type = "Text" THEN s[i].content ELSE <<>>]
    BY <2>2
  <2> QED BY <2>3, Zenon DEF TextOf, FlatMap
<1>9. TextBefore(cs, 1) = <<>>
  <2>1. SubSeq(cs, 1, 1 - 1) = <<>>
    BY SubSeqEmpty
  <2>2. <<>> \in Seq(V)
    BY EmptySeq
  <2>3. TextOf(<<>>) = FlatMap(F, <<>>)
    BY <1>8, <2>2, Zenon
  <2>4. FlatMap(F, <<>>) = <<>>
    <3>1. [i \in DOMAIN <<>> |-> F[<<>>[i]]] = <<>>
      OBVIOUS
    <3>2. FlattenSeq(<<>>) = <<>>
      BY EmptySeq, FlatOne
    <3> QED BY <3>1, <3>2, Zenon DEF FlatMap
  <2> QED BY <2>1, <2>3, <2>4, Zenon DEF TextBefore
<1>10. TextBefore(cs, Len(cs) + 1) = TextOf(cs)
  <2>1. Len(cs) \in Nat
    BY <1>3, LenProperties
  <2>2. SubSeq(cs, 1, (Len(cs) + 1) - 1) = cs
    BY <1>3, <2>1, SubSeqFull
  <2> QED BY <2>2, Zenon DEF TextBefore
<1>11. ASSUME NEW n \in 1..Len(cs)
       PROVE  /\ TextBefore(cs, n) \in Strings
              /\ TextBefore(cs, n + 1) = TextBefore(cs, n) \o ChunkText(cs[n])
  <2>1. Len(cs) \in Nat
    BY <1>3, LenProperties
  <2>2. PICK a : a = SubSeq(cs, 1, n - 1)
    OBVIOUS
  <2>3. PICK x \in V : x = cs[n]
    BY <1>3, ElementOfSeq
  <2>4. a \in Seq(V)
    <3>1. \A i \in 1..n - 1 : cs[i] \in V
      BY <1>3, <2>1, ElementOfSeq
    <3>2. 1 \in Int /\ n - 1 \in Int
      BY <2>1
    <3> QED BY <2>2, <3>1, <3>2, SubSeqProperties
  <2>5. SubSeq(cs, 1, (n + 1) - 1) = a \o <<x>>
    <3>1. (n + 1) - 1 = n /\ 1 \in 1..Len(cs) /\ n \in 1..Len(cs)
      BY <2>1
    <3>2. SubSeq(cs, 1, n) = SubSeq(cs, 1, n - 1) \o <<cs[n]>>
      BY <1>3, <3>1, SubSeqRecursiveSecond
    <3> QED BY <2>2, <2>3, <3>1, <3>2
  <2>6. <<x>> \in Seq(V) /\ a \o <<x>> \in Seq(V)
    BY <2>4
  <2>7. Splits(F, C, a, <<x>>)
    BY <1>7, <2>4, <2>6, FlatMapConcat, Zenon
  <2>8. /\ FlatMap(F, a) \in Seq(C) /\ FlatMap(F, a \o <<x>>) = FlatMap(F, a) \o FlatMap(F, <<x>>)
    BY <2>7, Zenon DEF Splits
  <2>9. FlatMap(F, <<x>>) = ChunkText(x)
    <3>1. FlatMap(F, <<x>>) = F[x]
      BY <1>7, FlatMapOne
    <3> QED BY <1>7, <3>1, Zenon
  <2>10. TextOf(a) \in Strings /\ TextOf(a \o <<x>>) = TextOf(a) \o ChunkText(x)
    <3>1. TextOf(a) = FlatMap(F, a) /\ TextOf(a \o <<x>>) = FlatMap(F, a \o <<x>>)
      BY <1>8, <2>4, <2>6, Zenon
    <3> QED BY <1>5, <2>8, <2>9, <3>1, Zenon
  <2> QED BY <2>2, <2>3, <2>5, <2>10, Zenon DEF TextBefore
<1> QED BY <1>9, <1>10, <1>11, Zenon

\* A branch more.
LEMMA BranchMore ==
  ASSUME NEW bs, GoodBranches(bs), NEW c, IsSeq(c.body)
  PROVE  /\ GoodBranches(Append(bs, c))
         /\ SpelledBranches(Append(bs, c)) = (SpelledBranches(bs) \o <<BranchTag(Len(bs) + 1, c.cond)>>) \o c.body
<1>1. PICK V : V = Range(bs) \cup {c}
  OBVIOUS
<1>2. bs \in Seq(V) /\ c \in V
  BY <1>1, SeqMonotonic DEF GoodBranches, IsSeq
<1>3. PICK n \in Nat : n = Len(bs)
  BY <1>2, LenProperties
<1>4. PICK cs : cs = Append(bs, c)
  OBVIOUS
<1>5. cs \in Seq(V) /\ Len(cs) = n + 1 /\ cs[n + 1] = c /\ \A i \in 1..n : cs[i] = bs[i]
  BY <1>2, <1>3, <1>4, AppendProperties
<1>6. \A i \in 1..n + 1 : IsSeq(cs[i].body)
  <2>1. ASSUME NEW i \in 1..n + 1 PROVE IsSeq(cs[i].body)
    <3>1. CASE i \in 1..n
      <4>1. cs[i] = bs[i]
        BY <1>5, <3>1
      <4>2. IsSeq(bs[i].body)
        BY <1>3, <3>1, Zenon DEF GoodBranches
      <4> QED BY <4>1, <4>2, Zenon
    <3>2. CASE i = n + 1
      BY <1>5, <3>2, Zenon
    <3> QED BY <3>1, <3>2
  <2> QED BY <2>1
<1>7. GoodBranches(cs)
  BY <1>5, <1>6, SeqIs DEF GoodBranches
<1>8. PICK e : e = [i \in 1..n + 1 |-> <<BranchTag(i, cs[i].cond)>> \o cs[i].body]
  OBVIOUS
<1>9. PICK S : /\ \A i \in 1..n + 1 : e[i] \in Seq(S)
               /\ <<BranchTag(n + 1, c.cond)>> \in Seq(S) /\ c.body \in Seq(S)
  <2>1. PICK S : S = UNION {{BranchTag(i, cs[i].cond)} \cup Range(cs[i].body) : i \in 1..n + 1}
    OBVIOUS
  <2>2. ASSUME NEW i \in 1..n + 1 PROVE e[i] \in Seq(S)
    <3>1. PICK t, b : t = BranchTag(i, cs[i].cond) /\ b = cs[i].body
      OBVIOUS
    <3>2. t \in S /\ Range(b) \subseteq S
      BY <2>1, <3>1
    <3>3. b \in Seq(S)
      BY <1>6, <3>1, <3>2, SeqMonotonic DEF IsSeq
    <3>4. <<t>> \o b \in Seq(S)
      BY <3>2, <3>3
    <3> QED BY <1>8, <3>1, <3>4
  <2>3. PICK t, b : t = BranchTag(n + 1, c.cond) /\ b = c.body
    OBVIOUS
  <2>4. n + 1 \in 1..n + 1
    OBVIOUS
  <2>5. t \in S /\ Range(b) \subseteq S
    BY <1>5, <2>1, <2>3, <2>4
  <2>6. b \in Seq(S)
    BY <2>3, <2>5, SeqMonotonic DEF IsSeq
  <2>7. <<t>> \in Seq(S)
    BY <2>5
  <2> QED BY <2>2, <2>3, <2>6, <2>7, Zenon
<1>10. PICK d : d = [i \in 1..n |-> e[i]]
  OBVIOUS
<1>11. PICK W : W = Seq(S)
  OBVIOUS
<1>12. d \in Seq(W) /\ Len(d) = n /\ e[n + 1] \in W
  BY <1>9, <1>10, <1>11
<1>13. e = d \o <<e[n + 1]>>
  <2>1. PICK f : f = d \o <<e[n + 1]>>
    OBVIOUS
  <2>2. <<e[n + 1]>> \in Seq(W) /\ Len(<<e[n + 1]>>) = 1 /\ <<e[n + 1]>>[1] = e[n + 1]
    BY <1>12
  <2>3. f \in Seq(W) /\ Len(f) = n + 1 /\ \A i \in 1..n + 1 : f[i] = IF i <= n THEN d[i] ELSE <<e[n + 1]>>[i - n]
    BY <1>12, <2>1, <2>2, ConcatProperties
  <2>4. \A i \in 1..n + 1 : f[i] = e[i]
    <3>1. ASSUME NEW i \in 1..n + 1 PROVE f[i] = e[i]
      <4>1. CASE i <= n
        BY <1>10, <2>3, <4>1
      <4>2. CASE i = n + 1
        BY <2>2, <2>3, <4>2
      <4> QED BY <4>1, <4>2
    <3> QED BY <3>1
  <2>5. f = [i \in 1..n + 1 |-> f[i]]
    BY <2>3
  <2>6. e = [i \in 1..n + 1 |-> e[i]]
    BY <1>8
  <2>7. [i \in 1..n + 1 |-> f[i]] = [i \in 1..n + 1 |-> e[i]]
    BY <2>4
  <2> QED BY <2>1, <2>5, <2>6, <2>7, Zenon
<1>14. FlattenSeq(e) = FlattenSeq(d) \o e[n + 1] /\ FlattenSeq(d) \in Seq(S)
  <2>1. PICK x \in Seq(S) : x = e[n + 1]
    BY <1>11, <1>12, Zenon
  <2>2. <<x>> \in Seq(Seq(S)) /\ d \in Seq(Seq(S))
    <3>1. <<x>> \in Seq(W)
      BY <1>12, <2>1
    <3> QED BY <1>11, <1>12, <3>1, Zenon
  <2>3. FlattenSeq(d \o <<x>>) = FlattenSeq(d) \o FlattenSeq(<<x>>) /\ FlattenSeq(d) \in Seq(S)
    BY <2>2, FlatConcat, Zenon
  <2>4. FlattenSeq(<<x>>) = x
    BY FlatOne, Zenon
  <2> QED BY <1>13, <2>1, <2>3, <2>4, Zenon
<1>15. SpelledBranches(cs) = FlattenSeq(e)
  <2>1. DOMAIN cs = 1..n + 1
    BY <1>5, LenProperties
  <2> QED BY <1>8, <2>1, Zenon DEF SpelledBranches
<1>16. SpelledBranches(bs) = FlattenSeq(d)
  <2>1. DOMAIN bs = 1..n
    BY <1>2, <1>3, LenProperties
  <2>2. \A i \in 1..n : i \in 1..n + 1
    OBVIOUS
  <2>3. \A i \in 1..n : e[i] = <<BranchTag(i, bs[i].cond)>> \o bs[i].body
    BY <1>5, <1>8, <2>2, Zenon
  <2>4. d = [i \in 1..n |-> <<BranchTag(i, bs[i].cond)>> \o bs[i].body]
    BY <1>10, <2>3
  <2> QED BY <2>1, <2>4, Zenon DEF SpelledBranches
<1>17. e[n + 1] = <<BranchTag(n + 1, c.cond)>> \o c.body
  <2>1. n + 1 \in 1..n + 1
    OBVIOUS
  <2> QED BY <1>5, <1>8, <2>1, Zenon
<1>18. FlattenSeq(d) \o (<<BranchTag(n + 1, c.cond)>> \o c.body)
         = (FlattenSeq(d) \o <<BranchTag(n + 1, c.cond)>>) \o c.body
  <2>1. PICK x, y, z : x = FlattenSeq(d) /\ y = <<BranchTag(n + 1, c.cond)>> /\ z = c.body
    OBVIOUS
  <2>2. x \in Seq(S) /\ y \in Seq(S) /\ z \in Seq(S)
    BY <1>9, <1>14, <2>1, Zenon
  <2>3. x \o (y \o z) = (x \o y) \o z
    BY <2>2
  <2> QED BY <2>1, <2>3, Zenon
<1> QED BY <1>3, <1>4, <1>7, <1>14, <1>15, <1>16, <1>17, <1>18, Zenon

-----------------------------------------------------------------------------
(* The open blocks *)

LEMMA GrownBlock ==
  ASSUME NEW b, GoodBlock(b), IsSeq(b.nodes), NEW n, NEW c, c = [b EXCEPT !.nodes = Append(@, n)]
  PROVE  GoodBlock(c) /\ c.part = b.part /\ Lead(c) = Lead(b) /\ c.nodes = b.nodes \o <<n>>
<1>1. b = [part |-> b.part, node |-> b.node, cond |-> b.cond, nodes |-> b.nodes]
  BY DEF GoodBlock
<1>2. c = [part |-> b.part, node |-> b.node, cond |-> b.cond, nodes |-> Append(b.nodes, n)]
  BY <1>1
<1>3. c.part = b.part /\ c.node = b.node /\ c.cond = b.cond /\ c.nodes = Append(b.nodes, n)
  BY <1>2
<1>4. PICK S : S = Range(b.nodes) \cup {n}
  OBVIOUS
<1>5. b.nodes \in Seq(S) /\ n \in S
  BY <1>4, SeqMonotonic DEF IsSeq
<1>6. Append(b.nodes, n) = b.nodes \o <<n>>
  BY <1>5, AppendIsConcat
<1>7. GoodBlock(c)
  BY <1>2, <1>3, Zenon DEF GoodBlock
<1>8. Lead(c) = Lead(b)
  BY <1>3 DEF Lead
<1> QED BY <1>3, <1>6, <1>7, <1>8, Zenon

Adds(b, c, d, u) == \A p \in Strings, q \in Strings : BlockText(b, d, p, q) => BlockText(c, d, p, q \o u)
Closes(b, w, d) ==
  \A p \in Strings, q \in Strings :
    BlockText(b, d, p, q) => \E t \in Strings : HasText(Spelled(w), d, t) /\ q = p \o t

\* The latest block takes the text of a chunk.
LEMMA KeptOn ==
  ASSUME NEW bs, NEW n, NEW cs, Cleanly(cs), Open(bs, n, cs), Kept(bs, n, cs), n <= Len(cs),
         NEW K, K = Len(bs), NEW c, GoodBlock(c), c.part = "top" <=> K = 1,
         Adds(bs[K], c, (n + 1) - K, ChunkText(cs[n])),
         NEW gs, gs = [bs EXCEPT ![K] = c]
  PROVE  Open(gs, n + 1, cs) /\ Kept(gs, n + 1, cs)
<1>1. PICK S : S = Range(bs) \cup {c}
  OBVIOUS
<1>2. bs \in Seq(S) /\ c \in S /\ n \in Nat
  BY <1>1, SeqMonotonic DEF Open, IsSeq
<1>3. PICK m \in Nat : m = Len(cs)
  BY LenProperties DEF Cleanly, IsSeq
<1>4. K \in Nat \ {0} /\ K <= n /\ n <= m
  BY <1>2, <1>3, EmptySeq DEF Open
<1>5. gs \in Seq(S) /\ Len(gs) = K /\ \A j \in 1..K : gs[j] = IF j = K THEN c ELSE bs[j]
  BY <1>2, <1>4, ExceptSeq
<1>6. Open(gs, n + 1, cs)
  <2>1. \A k \in 1..K : GoodBlock(bs[k]) /\ (bs[k].part = "top" <=> k = 1)
    BY DEF Open
  <2>2. ASSUME NEW k \in 1..K PROVE GoodBlock(gs[k]) /\ (gs[k].part = "top" <=> k = 1)
    <3>1. CASE k = K
      BY <1>5, <3>1, Zenon
    <3>2. CASE k # K
      BY <1>5, <2>1, <3>2, Zenon
    <3> QED BY <3>1, <3>2
  <2>3. IsSeq(gs) /\ gs # <<>>
    BY <1>4, <1>5, SeqIs, EmptySeq
  <2>4. n + 1 \in Nat /\ K <= n + 1 /\ n + 1 <= Len(cs) + 1
    BY <1>2, <1>3, <1>4
  <2> QED BY <1>5, <2>2, <2>3, <2>4, Zenon DEF Open
<1>7. PICK P \in [Nat -> Strings] :
        /\ P[1] = <<>> /\ P[K + 1] = TextBefore(cs, n)
        /\ \A k \in 1..K : BlockText(bs[k], n - k, P[k], P[k + 1])
  BY Zenon DEF Kept
<1>8. PICK q \in Strings : q = TextBefore(cs, n) \o ChunkText(cs[n]) /\ q = TextBefore(cs, n + 1)
  <2>1. n \in 1..Len(cs)
    BY <1>2, <1>3, <1>4
  <2>2. TextBefore(cs, n) \in Strings /\ ChunkText(cs[n]) \in Strings
    BY <2>1, TextMore, Zenon DEF Cleanly
  <2>3. TextBefore(cs, n) \o ChunkText(cs[n]) \in Strings
    BY <2>2, Strung, Zenon
  <2> QED BY <2>1, <2>3, TextMore, Zenon
<1>9. PICK Q : Q = [P EXCEPT ![K + 1] = q]
  OBVIOUS
<1>10. Q \in [Nat -> Strings] /\ Q[K + 1] = q /\ \A k \in 1..K : Q[k] = P[k]
  BY <1>4, <1>8, <1>9
<1>11. ASSUME NEW k \in 1..K PROVE BlockText(gs[k], (n + 1) - k, Q[k], Q[k + 1])
  <2>1. n - k \in Nat /\ (n + 1) - k \in Nat /\ n - k <= (n + 1) - k /\ k + 1 \in Nat
    BY <1>2, <1>4
  <2>5. BlockText(bs[k], n - k, P[k], P[k + 1])
    BY <1>7, Zenon
  <2>2. BlockText(bs[k], (n + 1) - k, P[k], P[k + 1])
    BY <2>1, <2>5, BlockLater
  <2>3. CASE k = K
    <3>1. P[K] \in Strings /\ P[K + 1] \in Strings
      BY <1>4, <1>7
    <3>2. BlockText(c, (n + 1) - K, P[K], P[K + 1] \o ChunkText(cs[n]))
      BY <2>2, <2>3, <3>1, Zenon DEF Adds
    <3>3. gs[k] = c /\ Q[k + 1] = P[K + 1] \o ChunkText(cs[n]) /\ Q[k] = P[K]
      BY <1>5, <1>7, <1>8, <1>10, <2>3, Zenon
    <3> QED BY <2>3, <3>2, <3>3, Zenon
  <2>4. CASE k # K
    <3>1. k + 1 \in 1..K
      BY <1>4, <2>4
    <3>2. gs[k] = bs[k] /\ Q[k] = P[k] /\ Q[k + 1] = P[k + 1]
      BY <1>5, <1>10, <2>4, <3>1, Zenon
    <3> QED BY <2>2, <3>2, Zenon
  <2> QED BY <2>3, <2>4
<1>12. Q[1] = <<>>
  <2>1. 1 \in 1..K
    BY <1>4
  <2> QED BY <1>7, <1>10, <2>1, Zenon
<1>13. Kept(gs, n + 1, cs)
  BY <1>5, <1>8, <1>10, <1>11, <1>12, Zenon DEF Kept
<1> QED BY <1>6, <1>13

\* A block is opened by a tag.
LEMMA KeptIn ==
  ASSUME NEW bs, NEW n, NEW cs, Cleanly(cs), Open(bs, n, cs), Kept(bs, n, cs), n <= Len(cs),
         ChunkText(cs[n]) = <<>>, NEW c, GoodBlock(c), c.part # "top", HasText(Lead(c), 0, <<>>), c.nodes = <<>>,
         NEW gs, gs = Append(bs, c)
  PROVE  Open(gs, n + 1, cs) /\ Kept(gs, n + 1, cs)
<1>1. PICK S : S = Range(bs) \cup {c}
  OBVIOUS
<1>2. bs \in Seq(S) /\ c \in S /\ n \in Nat
  BY <1>1, SeqMonotonic DEF Open, IsSeq
<1>3. PICK m \in Nat : m = Len(cs)
  BY LenProperties DEF Cleanly, IsSeq
<1>4. PICK K \in Nat \ {0} : K = Len(bs) /\ K <= n /\ n <= m
  BY <1>2, <1>3, EmptySeq DEF Open
<1>5. gs \in Seq(S) /\ Len(gs) = K + 1 /\ gs[K + 1] = c /\ \A j \in 1..K : gs[j] = bs[j]
  BY <1>2, <1>4, AppendProperties
<1>6. Open(gs, n + 1, cs)
  <2>1. \A k \in 1..K : GoodBlock(bs[k]) /\ (bs[k].part = "top" <=> k = 1)
    BY <1>4 DEF Open
  <2>2. ASSUME NEW k \in 1..K + 1 PROVE GoodBlock(gs[k]) /\ (gs[k].part = "top" <=> k = 1)
    <3>1. CASE k = K + 1
      <4>1. k # 1
        BY <1>4, <3>1
      <4> QED BY <1>5, <3>1, <4>1, Zenon
    <3>2. CASE k \in 1..K
      BY <1>5, <2>1, <3>2, Zenon
    <3> QED BY <1>4, <3>1, <3>2
  <2>3. IsSeq(gs) /\ gs # <<>>
    BY <1>5, SeqIs, AppendProperties, <1>2
  <2>4. n + 1 \in Nat /\ K + 1 <= n + 1 /\ n + 1 <= Len(cs) + 1
    BY <1>2, <1>3, <1>4
  <2> QED BY <1>5, <2>2, <2>3, <2>4, Zenon DEF Open
<1>7. PICK P \in [Nat -> Strings] :
        /\ P[1] = <<>> /\ P[K + 1] = TextBefore(cs, n)
        /\ \A k \in 1..K : BlockText(bs[k], n - k, P[k], P[k + 1])
  BY <1>4, Zenon DEF Kept
<1>8. PICK q \in Strings : q = P[K + 1] /\ q = TextBefore(cs, n + 1)
  <2>1. n \in 1..Len(cs)
    BY <1>2, <1>3, <1>4
  <2>2. TextBefore(cs, n) \in Strings /\ TextBefore(cs, n + 1) = TextBefore(cs, n) \o <<>>
    BY <2>1, TextMore, Zenon
  <2>3. TextBefore(cs, n) \o <<>> = TextBefore(cs, n)
    BY <2>2, Strung, Zenon
  <2> QED BY <1>7, <2>2, <2>3, Zenon
<1>9. PICK Q : Q = [P EXCEPT ![(K + 1) + 1] = q]
  OBVIOUS
<1>10. Q \in [Nat -> Strings] /\ Q[(K + 1) + 1] = q /\ \A k \in 1..K + 1 : Q[k] = P[k]
  BY <1>4, <1>8, <1>9
<1>11. ASSUME NEW k \in 1..K + 1 PROVE BlockText(gs[k], (n + 1) - k, Q[k], Q[k + 1])
  <2>1. CASE k \in 1..K
    <3>1. n - k \in Nat /\ (n + 1) - k \in Nat /\ n - k <= (n + 1) - k /\ k + 1 \in 1..K + 1 /\ k \in 1..K + 1
      BY <1>2, <1>4, <2>1
    <3>4. BlockText(bs[k], n - k, P[k], P[k + 1])
      BY <1>7, <2>1, Zenon
    <3>2. BlockText(bs[k], (n + 1) - k, P[k], P[k + 1])
      BY <3>1, <3>4, BlockLater
    <3>3. gs[k] = bs[k] /\ Q[k] = P[k] /\ Q[k + 1] = P[k + 1]
      BY <1>5, <1>10, <2>1, <3>1, Zenon
    <3> QED BY <3>2, <3>3, Zenon
  <2>2. CASE k = K + 1
    <3>1. (n + 1) - k \in Nat /\ 0 \in Nat /\ 0 <= (n + 1) - k
      BY <1>2, <1>4, <2>2
    <3>2. HasText(Lead(c), (n + 1) - k, <<>>)
      BY <3>1, LaterText, Zenon
    <3>3. HasText(c.nodes, (n + 1) - k, <<>>)
      BY <3>1, NoneText, Zenon
    <3>4. <<>> \in Strings /\ (q \o <<>>) \o <<>> = q
      <4>1. <<>> \in Strings /\ q \o <<>> = q
        BY Strung, Zenon
      <4> QED BY <4>1, Zenon
    <3>5. BlockText(c, (n + 1) - k, q, q)
      BY <3>2, <3>3, <3>4, Zenon DEF BlockText
    <3>6. gs[k] = c /\ Q[k + 1] = q /\ Q[k] = q
      BY <1>5, <1>8, <1>10, <2>2, Zenon
    <3> QED BY <3>5, <3>6, Zenon
  <2> QED BY <1>4, <2>1, <2>2
<1>12. Q[1] = <<>>
  <2>1. 1 \in 1..K + 1
    BY <1>4
  <2> QED BY <1>7, <1>10, <2>1, Zenon
<1>13. Kept(gs, n + 1, cs)
  BY <1>5, <1>8, <1>10, <1>11, <1>12, Zenon DEF Kept
<1> QED BY <1>6, <1>13

\* A block ends, and its node goes to the one around it.
LEMMA KeptOut ==
  ASSUME NEW bs, NEW n, NEW cs, Cleanly(cs), Open(bs, n, cs), Kept(bs, n, cs),
         NEW K, K = Len(bs), K # 1, NEW m \in {n, n + 1}, m = n + 1 => n <= Len(cs) /\ ChunkText(cs[n]) = <<>>,
         NEW w, w.type # "Text", Closes(bs[K], w, n - K),
         NEW gs, gs = Grown(Front(bs), w)
  PROVE  Open(gs, m, cs) /\ Kept(gs, m, cs)
<1>1. IsSeq(bs) /\ bs # <<>> /\ n \in Nat
  BY DEF Open
<1>2. PICK l \in Nat : l = Len(cs)
  BY LenProperties DEF Cleanly, IsSeq
<1>3. PICK J \in Nat \ {0} : K = J + 1 /\ J + 1 <= n /\ n <= l + 1
  <2>1. K \in Nat \ {0}
    BY <1>1, EmptySeq DEF IsSeq
  <2>2. K - 1 \in Nat \ {0} /\ K = (K - 1) + 1
    BY <2>1
  <2>3. K <= n /\ n <= l + 1
    BY <1>2 DEF Open
  <2> QED BY <2>2, <2>3
<1>4. PICK fs : fs = Front(bs)
  OBVIOUS
<1>5. IsSeq(fs) /\ Len(fs) = J /\ \A k \in 1..J : fs[k] = bs[k]
  <2>1. /\ fs \in Seq(Range(fs)) /\ Len(fs) = Len(bs) - 1 /\ Len(bs) \in Nat \ {0}
        /\ \A k \in 1..Len(fs) : fs[k] = bs[k]
    BY <1>1, <1>4, Shortened DEF IsSeq
  <2>2. Len(bs) - 1 = J
    BY <1>3
  <2> QED BY <2>1, <2>2, Zenon DEF IsSeq
<1>6. PICK P \in [Nat -> Strings] :
        /\ P[1] = <<>> /\ P[K + 1] = TextBefore(cs, n)
        /\ \A k \in 1..K : BlockText(bs[k], n - k, P[k], P[k + 1])
  BY Zenon DEF Kept
<1>7. \A k \in 1..K : GoodBlock(bs[k]) /\ (bs[k].part = "top" <=> k = 1)
  BY DEF Open
<1>8. PICK b : b = bs[J]
  OBVIOUS
<1>9. J \in 1..K /\ K \in 1..K /\ J \in 1..J /\ n - J \in Nat /\ n - K \in Nat /\ n - J = (n - K) + 1
  BY <1>1, <1>3
<1>10. GoodBlock(b) /\ (b.part = "top" <=> J = 1) /\ BlockText(b, n - J, P[J], P[K])
  BY <1>3, <1>6, <1>7, <1>8, <1>9, Zenon
<1>11. IsSeq(b.nodes)
  <2>1. PICK t \in Strings : HasText(b.nodes, n - J, t)
    BY <1>10, Zenon DEF BlockText
  <2> QED BY <1>9, <2>1, TextParts, Zenon
<1>12. PICK c : c = [b EXCEPT !.nodes = Append(@, w)]
  OBVIOUS
<1>13. GoodBlock(c) /\ c.part = b.part /\ Lead(c) = Lead(b) /\ c.nodes = b.nodes \o <<w>>
  BY <1>10, <1>11, <1>12, GrownBlock
<1>14. gs = [fs EXCEPT ![J] = c]
  BY <1>4, <1>5, <1>8, <1>9, <1>12 DEF Grown
<1>15. PICK S : S = Range(fs) \cup {c}
  OBVIOUS
<1>16. fs \in Seq(S) /\ c \in S
  BY <1>5, <1>15, SeqMonotonic DEF IsSeq
<1>17. gs \in Seq(S) /\ Len(gs) = J /\ \A j \in 1..J : gs[j] = IF j = J THEN c ELSE fs[j]
  BY <1>5, <1>9, <1>14, <1>16, ExceptSeq
<1>18. m \in Nat /\ m <= l + 1 /\ J <= m /\ n - J <= m - J
  BY <1>1, <1>2, <1>3
<1>19. Open(gs, m, cs)
  <2>1. ASSUME NEW k \in 1..J PROVE GoodBlock(gs[k]) /\ (gs[k].part = "top" <=> k = 1)
    <3>1. k \in 1..K
      BY <1>3
    <3>2. CASE k = J
      BY <1>10, <1>13, <1>17, <3>2, Zenon
    <3>3. CASE k # J
      BY <1>5, <1>7, <1>17, <3>1, <3>3, Zenon
    <3> QED BY <3>2, <3>3
  <2>2. IsSeq(gs) /\ gs # <<>>
    BY <1>17, SeqIs, EmptySeq
  <2> QED BY <1>2, <1>17, <1>18, <2>1, <2>2, Zenon DEF Open
<1>20. PICK q \in Strings : q = P[K + 1] /\ q = TextBefore(cs, m)
  <2>1. P[K + 1] \in Strings
    BY <1>3, <1>6
  <2>2. CASE m = n
    BY <1>6, <2>1, <2>2, Zenon
  <2>3. CASE m = n + 1
    <3>1. n \in 1..Len(cs)
      BY <1>1, <1>2, <1>3, <2>3
    <3>2. TextBefore(cs, n + 1) = TextBefore(cs, n) \o ChunkText(cs[n])
      BY <3>1, TextMore, Zenon
    <3>3. TextBefore(cs, n + 1) = P[K + 1] \o <<>>
      BY <1>6, <2>3, <3>2, Zenon
    <3> QED BY <2>1, <2>3, <3>3, Strung, Zenon
  <2> QED BY <2>2, <2>3
<1>21. PICK Q : Q = [P EXCEPT ![K] = q]
  OBVIOUS
<1>22. Q \in [Nat -> Strings] /\ Q[K] = q /\ \A k \in 1..J : Q[k] = P[k]
  BY <1>3, <1>20, <1>21
<1>23. BlockText(c, n - J, P[J], q)
  <2>1. P[J] \in Strings /\ P[K] \in Strings
    BY <1>3, <1>6
  <2>2. BlockText(bs[K], n - K, P[K], q)
    BY <1>6, <1>9, <1>20, Zenon
  <2>3. PICK t \in Strings : HasText(Spelled(w), n - K, t) /\ q = P[K] \o t
    BY <1>20, <2>1, <2>2, Zenon DEF Closes
  <2>4. HasText(<<w>>, n - J, t)
    BY <1>9, <2>3, InnerText, Zenon
  <2>5. BlockText(c, n - J, P[J], P[K] \o t)
    BY <1>9, <1>10, <1>13, <2>1, <2>4, BlockGrows, Zenon
  <2> QED BY <2>3, <2>5, Zenon
<1>24. ASSUME NEW k \in 1..J PROVE BlockText(gs[k], m - k, Q[k], Q[k + 1])
  <2>1. n - k \in Nat /\ m - k \in Nat /\ n - k <= m - k /\ k \in 1..K
    BY <1>1, <1>3, <1>18
  <2>2. CASE k = J
    <3>1. BlockText(c, m - J, P[J], q)
      BY <1>23, <2>1, <2>2, BlockLater, Zenon
    <3> QED BY <1>3, <1>17, <1>22, <2>2, <3>1, Zenon
  <2>3. CASE k # J
    <3>1. k + 1 \in 1..J
      BY <2>3
    <3>2. BlockText(bs[k], m - k, P[k], P[k + 1])
      BY <1>6, <2>1, BlockLater, Zenon
    <3> QED BY <1>5, <1>17, <1>22, <2>3, <3>1, <3>2, Zenon
  <2> QED BY <2>2, <2>3
<1>25. Q[1] = <<>>
  <2>1. 1 \in 1..J
    BY <1>3
  <2> QED BY <1>6, <1>22, <2>1, Zenon
<1>26. Kept(gs, m, cs)
  <2>1. Q[J + 1] = TextBefore(cs, m)
    BY <1>3, <1>20, <1>22, Zenon
  <2> QED BY <1>17, <1>22, <1>24, <1>25, <2>1, Zenon DEF Kept
<1> QED BY <1>19, <1>26

-----------------------------------------------------------------------------
(* Blocks that end *)

LEMMA ClosesLoop ==
  ASSUME NEW b, GoodBlock(b), b.part = "loop", NEW d \in Nat
  PROVE  With(b).type # "Text" /\ Closes(b, With(b), d)
<1>1. PICK w : w = With(b)
  OBVIOUS
<1>2. b.node.type = "For"
  BY DEF GoodBlock
<1>3. w.type = "For" /\ w.kids = b.nodes /\ w.name = b.node.name /\ w.expr = b.node.expr
  BY <1>1, <1>2 DEF With, GoodBlock
<1>4. ForTag(w) = ForTag(b.node)
  BY <1>3, Zenon DEF ForTag
<1>5. Lead(b) = <<ForTag(b.node)>>
  BY DEF Lead
<1>6. PICK e : e = TagNode(<<"endfor">>)
  OBVIOUS
<1>7. Spelled(w) = (Lead(b) \o b.nodes) \o <<e>>
  BY <1>3, <1>4, <1>5, <1>6, Zenon DEF Spelled
<1>8. ASSUME NEW p \in Strings, NEW q \in Strings, BlockText(b, d, p, q)
      PROVE  \E t \in Strings : HasText(Spelled(w), d, t) /\ q = p \o t
  <2>1. PICK t1 \in Strings, t2 \in Strings : HasText(Lead(b), d, t1) /\ HasText(b.nodes, d, t2) /\ q = (p \o t1) \o t2
    BY <1>8, Zenon DEF BlockText
  <2>2. PICK t \in Strings : t = t1 \o t2
    BY Strung, Zenon
  <2>3. HasText(Lead(b) \o b.nodes, d, t)
    BY <2>1, <2>2, BothText, Zenon
  <2>4. HasText(<<e>>, d, <<>>)
    BY <1>6, TagText, Zenon
  <2>5. HasText(Spelled(w), d, t \o <<>>)
    BY <1>7, <2>3, <2>4, BothText, Zenon
  <2>6. t \o <<>> = t
    BY Strung, Zenon
  <2>7. q = p \o t
    <3>1. (p \o t1) \o t2 = p \o (t1 \o t2)
      BY Regroup, Zenon
    <3> QED BY <2>1, <2>2, <3>1, Zenon
  <2> QED BY <2>5, <2>6, <2>7, Zenon
<1>9. Closes(b, w, d)
  BY <1>8, Zenon DEF Closes
<1> QED BY <1>1, <1>3, <1>9

\* A branch and its body are spelled where the next one begins.
LEMMA BranchText ==
  ASSUME NEW b, GoodBlock(b), b.part = "branch", IsSeq(b.nodes)
  PROVE  /\ With(b) = [type |-> "If", text |-> b.node.text, expr |-> b.node.expr, name |-> b.node.name,
                       branches |-> With(b).branches, kids |-> <<>>]
         /\ GoodBranches(With(b).branches)
         /\ SpelledBranches(With(b).branches) = Lead(b) \o b.nodes
<1>1. PICK c : c = [cond |-> b.cond, body |-> b.nodes]
  OBVIOUS
<1>2. PICK bs : bs = b.node.branches
  OBVIOUS
<1>3. b.node.type = "If" /\ GoodBranches(bs) /\ b.node.kids = <<>>
  BY <1>2 DEF GoodBlock
<1>4. b.node = [type |-> "If", text |-> b.node.text, expr |-> b.node.expr, name |-> b.node.name,
                branches |-> bs, kids |-> <<>>]
  BY <1>2, <1>3 DEF GoodBlock
<1>5. With(b) = [b.node EXCEPT !.branches = Append(@, c)]
  BY <1>1 DEF With
<1>6. With(b) = [type |-> "If", text |-> b.node.text, expr |-> b.node.expr, name |-> b.node.name,
                 branches |-> Append(bs, c), kids |-> <<>>]
  <2>1. PICK n, x, y, z : n = b.node /\ x = b.node.text /\ y = b.node.expr /\ z = b.node.name
    OBVIOUS
  <2>2. n = [type |-> "If", text |-> x, expr |-> y, name |-> z, branches |-> bs, kids |-> <<>>]
    BY <1>4, <2>1, Zenon
  <2>3. [n EXCEPT !.branches = Append(@, c)]
          = [type |-> "If", text |-> x, expr |-> y, name |-> z, branches |-> Append(bs, c), kids |-> <<>>]
    BY <2>2, SMTT(60)
  <2> QED BY <1>5, <2>1, <2>3, Zenon
<1>7. With(b).branches = Append(bs, c)
  BY <1>6
<1>8. c.cond = b.cond /\ c.body = b.nodes
  BY <1>1
<1>9. /\ GoodBranches(Append(bs, c))
      /\ SpelledBranches(Append(bs, c)) = (SpelledBranches(bs) \o <<BranchTag(Len(bs) + 1, c.cond)>>) \o c.body
  <2>1. IsSeq(c.body)
    BY <1>8
  <2> QED BY <1>3, <2>1, BranchMore, Zenon
<1>10. Lead(b) = SpelledBranches(bs) \o <<BranchTag(Len(bs) + 1, b.cond)>>
  BY <1>2 DEF Lead
<1>11. SpelledBranches(Append(bs, c)) = Lead(b) \o b.nodes
  BY <1>8, <1>9, <1>10, Zenon
<1> QED BY <1>6, <1>7, <1>9, <1>11

LEMMA ClosesIf ==
  ASSUME NEW b, GoodBlock(b), b.part \in {"branch", "else"}, IsSeq(b.nodes), NEW d \in Nat
  PROVE  With(b).type # "Text" /\ Closes(b, With(b), d)
<1>1. PICK w : w = With(b)
  OBVIOUS
<1>2. PICK e : e = TagNode(<<"endif">>)
  OBVIOUS
<1>3. PICK f : f = TagNode(<<"else">>)
  OBVIOUS
<1>4. HasText(<<e>>, d, <<>>) /\ HasText(<<f>>, d, <<>>)
  BY <1>2, <1>3, TagText, Zenon
<1>5. w.type = "If" =>
        Spelled(w) = (SpelledBranches(w.branches) \o (IF w.kids = <<>> THEN <<>> ELSE <<f>> \o w.kids)) \o <<e>>
  BY <1>2, <1>3, Zenon DEF Spelled
<1>6. w.type = "If"
  <2>1. CASE b.part = "branch"
    BY <1>1, <2>1, BranchText
  <2>2. CASE b.part = "else"
    BY <1>1, <2>2 DEF With, GoodBlock
  <2> QED BY <2>1, <2>2
<1>7. ASSUME NEW p \in Strings, NEW q \in Strings, BlockText(b, d, p, q)
      PROVE  \E t \in Strings : HasText(Spelled(w), d, t) /\ q = p \o t
  <2>1. PICK t1 \in Strings, t2 \in Strings : HasText(Lead(b), d, t1) /\ HasText(b.nodes, d, t2) /\ q = (p \o t1) \o t2
    BY <1>7, Zenon DEF BlockText
  <2>2. PICK t \in Strings : t = t1 \o t2
    BY Strung, Zenon
  <2>3. q = p \o t
    <3>1. (p \o t1) \o t2 = p \o (t1 \o t2)
      BY Regroup, Zenon
    <3> QED BY <2>1, <2>2, <3>1, Zenon
  <2>4. PICK rest : rest = IF w.kids = <<>> THEN <<>> ELSE <<f>> \o w.kids
    OBVIOUS
  <2>5. HasText(SpelledBranches(w.branches) \o rest, d, t)
    <3>1. CASE b.part = "branch"
      <4>1. w.kids = <<>>
        BY <1>1, <3>1, BranchText
      <4>2. rest = <<>>
        BY <2>4, <4>1
      <4>3. SpelledBranches(w.branches) = Lead(b) \o b.nodes
        BY <1>1, <3>1, BranchText
      <4>4. HasText(SpelledBranches(w.branches), d, t)
        BY <2>1, <2>2, <4>3, BothText, Zenon
      <4>5. HasText(SpelledBranches(w.branches) \o <<>>, d, t \o <<>>)
        BY <4>4, NoneText, BothText, Zenon
      <4>6. t \o <<>> = t
        BY Strung, Zenon
      <4> QED BY <4>2, <4>5, <4>6, Zenon
    <3>2. CASE b.part = "else"
      <4>1. w.kids = b.nodes /\ w.branches = b.node.branches
        BY <1>1, <3>2 DEF With, GoodBlock
      <4>2. Lead(b) = SpelledBranches(w.branches)
        BY <3>2, <4>1 DEF Lead
      <4>3. HasText(rest, d, t2)
        <5>1. CASE b.nodes = <<>>
          BY <2>1, <2>4, <4>1, <5>1, Zenon
        <5>2. CASE b.nodes # <<>>
          <6>1. rest = <<f>> \o b.nodes
            BY <2>4, <4>1, <5>2, Zenon
          <6>2. HasText(rest, d, <<>> \o t2)
            BY <1>4, <2>1, <6>1, BothText, Zenon
          <6>3. <<>> \o t2 = t2
            BY Strung, Zenon
          <6> QED BY <6>2, <6>3, Zenon
        <5> QED BY <5>1, <5>2
      <4> QED BY <2>1, <2>2, <4>2, <4>3, BothText, Zenon
    <3> QED BY <3>1, <3>2
  <2>6. Spelled(w) = (SpelledBranches(w.branches) \o rest) \o <<e>>
    BY <1>5, <1>6, <2>4, Zenon
  <2>7. HasText(Spelled(w), d, t \o <<>>)
    BY <1>4, <2>5, <2>6, BothText, Zenon
  <2>8. t \o <<>> = t
    BY Strung, Zenon
  <2> QED BY <2>3, <2>7, <2>8, Zenon
<1>8. Closes(b, w, d)
  BY <1>7, Zenon DEF Closes
<1> QED BY <1>1, <1>6, <1>8

\* "elif" and "else" begin a body where the one before ends.
LEMMA Turned ==
  ASSUME NEW b, GoodBlock(b), b.part = "branch", IsSeq(b.nodes), NEW d \in Nat,
         NEW part \in {"branch", "else"}, NEW cond, NEW c, c = Block(part, With(b), cond)
  PROVE  GoodBlock(c) /\ c.part # "top" /\ Adds(b, c, d, <<>>)
<1>1. PICK w : w = With(b)
  OBVIOUS
<1>2. /\ w = [type |-> "If", text |-> b.node.text, expr |-> b.node.expr, name |-> b.node.name,
              branches |-> w.branches, kids |-> <<>>]
      /\ GoodBranches(w.branches) /\ SpelledBranches(w.branches) = Lead(b) \o b.nodes
  BY <1>1, BranchText
<1>3. c = [part |-> part, node |-> w, cond |-> cond, nodes |-> <<>>]
  BY <1>1 DEF Block
<1>4. c.part = part /\ c.node = w /\ c.cond = cond /\ c.nodes = <<>>
  BY <1>3
<1>5. GoodBlock(c)
  <2>1. /\ w.type = "If" /\ w.kids = <<>>
        /\ w = [type |-> w.type, text |-> w.text, expr |-> w.expr, name |-> w.name,
                branches |-> w.branches, kids |-> w.kids]
    BY <1>2
  <2>2. c.part \in {"branch", "else"}
    BY <1>4
  <2> QED BY <1>2, <1>3, <1>4, <2>1, <2>2, Zenon DEF GoodBlock
<1>6. PICK g : g = BranchTag(Len(w.branches) + 1, cond)
  OBVIOUS
<1>7. \/ Lead(c) = SpelledBranches(w.branches) \o <<g>>
      \/ Lead(c) = SpelledBranches(w.branches)
  BY <1>4, <1>6 DEF Lead
<1>8. HasText(<<g>>, d, <<>>)
  BY <1>6, TagText, Zenon DEF BranchTag
<1>9. ASSUME NEW p \in Strings, NEW q \in Strings, BlockText(b, d, p, q)
      PROVE  BlockText(c, d, p, q \o <<>>)
  <2>1. PICK t1 \in Strings, t2 \in Strings : HasText(Lead(b), d, t1) /\ HasText(b.nodes, d, t2) /\ q = (p \o t1) \o t2
    BY <1>9, Zenon DEF BlockText
  <2>2. PICK t \in Strings : t = t1 \o t2
    BY Strung, Zenon
  <2>3. q = p \o t
    <3>1. (p \o t1) \o t2 = p \o (t1 \o t2)
      BY Regroup, Zenon
    <3> QED BY <2>1, <2>2, <3>1, Zenon
  <2>4. HasText(SpelledBranches(w.branches), d, t)
    BY <1>2, <2>1, <2>2, BothText, Zenon
  <2>5. t \o <<>> = t /\ q \o <<>> = q /\ <<>> \in Strings
    BY Strung, Zenon
  <2>6. HasText(Lead(c), d, t)
    <3>1. HasText(SpelledBranches(w.branches) \o <<g>>, d, t \o <<>>)
      BY <1>8, <2>4, BothText, Zenon
    <3> QED BY <1>7, <2>4, <2>5, <3>1, Zenon
  <2>7. HasText(c.nodes, d, <<>>)
    BY <1>4, NoneText, Zenon
  <2>8. q \o <<>> = (p \o t) \o <<>>
    BY <2>3, Zenon
  <2> QED BY <2>5, <2>6, <2>7, <2>8, Zenon DEF BlockText
<1>10. Adds(b, c, d, <<>>)
  BY <1>9, Zenon DEF Adds
<1> QED BY <1>4, <1>5, <1>10

-----------------------------------------------------------------------------
(* The parser's steps *)

InnerBlock(b, K) ==
  /\ K = Len(blocks) /\ b = blocks[K] /\ K \in Nat \ {0} /\ next \in Nat /\ next - K \in Nat
  /\ (next + 1) - K = (next - K) + 1
  /\ GoodBlock(b) /\ IsSeq(b.nodes) /\ (b.part = "top" <=> K = 1)

LEMMA Innermost ==
  ASSUME Open(blocks, next, chunks), Kept(blocks, next, chunks)
  PROVE  InnerBlock(Inner, Len(blocks))
<1>1. IsSeq(blocks) /\ blocks # <<>> /\ next \in Nat /\ Len(blocks) <= next
  BY DEF Open
<1>2. PICK K \in Nat \ {0} : K = Len(blocks)
  BY <1>1, EmptySeq DEF IsSeq
<1>3. next - K \in Nat /\ (next + 1) - K = (next - K) + 1 /\ K \in 1..K
  BY <1>1, <1>2
<1>4. GoodBlock(blocks[K]) /\ (blocks[K].part = "top" <=> K = 1)
  BY <1>2, <1>3, Zenon DEF Open
<1>5. IsSeq(blocks[K].nodes)
  <2>1. PICK P \in [Nat -> Strings] : \A k \in 1..K : BlockText(blocks[k], next - k, P[k], P[k + 1])
    BY <1>2, Zenon DEF Kept
  <2>2. PICK t : HasText(blocks[K].nodes, next - K, t)
    BY <1>3, <2>1, Zenon DEF BlockText
  <2> QED BY <1>3, <2>2, TextParts, Zenon
<1>6. Inner = blocks[K]
  BY <1>2 DEF Inner
<1> QED BY <1>1, <1>2, <1>3, <1>4, <1>5, <1>6, Zenon DEF InnerBlock

LEMMA NodeAdded ==
  ASSUME Cleanly(chunks), Open(blocks, next, chunks), Kept(blocks, next, chunks), next <= Len(chunks),
         NEW n, HasText(<<n>>, (next + 1) - Len(blocks), ChunkText(chunks[next]))
  PROVE  Open(Grown(blocks, n), next + 1, chunks) /\ Kept(Grown(blocks, n), next + 1, chunks)
<1>1. PICK K, b : K = Len(blocks) /\ b = Inner
  OBVIOUS
<1>2. InnerBlock(b, K)
  BY <1>1, Innermost, Zenon
<1>3. /\ K = Len(blocks) /\ b = blocks[K] /\ K \in Nat \ {0} /\ next \in Nat /\ (next + 1) - K \in Nat
      /\ GoodBlock(b) /\ IsSeq(b.nodes) /\ (b.part = "top" <=> K = 1)
  BY <1>2 DEF InnerBlock
<1>4. PICK c : c = [b EXCEPT !.nodes = Append(@, n)]
  OBVIOUS
<1>5. GoodBlock(c) /\ c.part = b.part /\ Lead(c) = Lead(b) /\ c.nodes = b.nodes \o <<n>>
  <2>1. GoodBlock(b) /\ IsSeq(b.nodes)
    BY <1>3
  <2> QED BY <1>4, <2>1, GrownBlock
<1>6. PICK gs : gs = Grown(blocks, n)
  OBVIOUS
<1>7. gs = [blocks EXCEPT ![K] = c]
  BY <1>3, <1>4, <1>6 DEF Grown
<1>8. Adds(b, c, (next + 1) - K, ChunkText(chunks[next]))
  BY <1>1, <1>3, <1>5, BlockGrows, Zenon DEF Adds
<1>9. Open(gs, next + 1, chunks) /\ Kept(gs, next + 1, chunks)
  <2>1. c.part = "top" <=> K = 1
    BY <1>3, <1>5, Zenon
  <2> QED BY <1>3, <1>5, <1>7, <1>8, <2>1, KeptOn
<1> QED BY <1>6, <1>9

\* A chunk that is a tag has no text.
LEMMA CurrentTag ==
  ASSUME Current # "" \/ chunks[next].type # "Text", next <= Len(chunks)
  PROVE  ChunkText(chunks[next]) = <<>>
BY DEF Current, AtEnd, Keyword, ChunkText

LEMMA Within ==
  ASSUME Cleanly(chunks), Open(blocks, next, chunks), ~AtEnd
  PROVE  next <= Len(chunks)
<1>1. Len(chunks) \in Nat
  BY LenProperties DEF Cleanly, IsSeq
<1> QED BY <1>1 DEF AtEnd, Open

LEMMA GoesText ==
  ASSUME Cleanly(chunks), Open(blocks, next, chunks), Kept(blocks, next, chunks),
         ParseText \/ ParseOutput \/ parseSet
  PROVE  Open(blocks', next', chunks) /\ Kept(blocks', next', chunks)
<1>1. next <= Len(chunks)
  <2>1. ~AtEnd
    BY DEF ParseText, ParseOutput, parseSet, Goes, Ends
  <2> QED BY <2>1, Within
<1>2. PICK d \in Nat : d = (next + 1) - Len(blocks)
  BY Innermost DEF InnerBlock
<1>3. PICK n : /\ blocks' = Grown(blocks, n) /\ next' = next + 1 /\ IsLeaf(n)
               /\ ChunkText(chunks[next]) = IF n.type = "Text" THEN n.text ELSE <<>>
  <2>1. CASE ParseText
    <3>1. PICK n : n = [Node("Text") EXCEPT !.text = chunks[next].content]
      OBVIOUS
    <3>2. n.type = "Text" /\ n.text = chunks[next].content
      BY <3>1 DEF Node
    <3>3. blocks' = Grown(blocks, n) /\ next' = next + 1 /\ chunks[next].type = "Text"
      BY <2>1, <3>1 DEF ParseText, Add, Parse
    <3> QED BY <3>2, <3>3 DEF IsLeaf, ChunkText
  <2>2. CASE ParseOutput
    <3>1. PICK n : n = [Node("Output") EXCEPT !.expr = ParseExpr(chunks[next].content)]
      OBVIOUS
    <3>2. n.type = "Output"
      BY <3>1 DEF Node
    <3>3. blocks' = Grown(blocks, n) /\ next' = next + 1 /\ chunks[next].type = "Expression"
      BY <2>2, <3>1 DEF ParseOutput, Add, Parse
    <3> QED BY <3>2, <3>3 DEF IsLeaf, ChunkText
  <2>3. CASE parseSet
    <3>1. PICK m, x : /\ m = [Node("Set") EXCEPT !.name = chunks[next].content[2],
                                            !.expr = ParseExpr(Rest(chunks[next], 4))]
                      /\ x = At(chunks[next].content, 3, "=")
      OBVIOUS
    <3>2. PICK n : n = IF x THEN m ELSE Node("Set")
      OBVIOUS
    <3>3. n.type = "Set"
      BY <3>1, <3>2 DEF Node
    <3>4. /\ Current = "set" /\ next' = next + 1
          /\ blocks' = Grown(blocks, IF At(chunks[next].content, 3, "=")
                                     THEN [Node("Set") EXCEPT !.name = chunks[next].content[2],
                                                              !.expr = ParseExpr(Rest(chunks[next], 4))]
                                     ELSE Node("Set"))
      BY <2>3, Zenon DEF parseSet, Add, Parse
    <3>5. blocks' = Grown(blocks, n)
      BY <3>1, <3>2, <3>4, Zenon
    <3>6. ChunkText(chunks[next]) = <<>>
      BY <1>1, <3>4, CurrentTag
    <3> QED BY <3>3, <3>4, <3>5, <3>6 DEF IsLeaf
  <2> QED BY <2>1, <2>2, <2>3
<1>4. next \in 1..Len(chunks)
  <2>1. Len(chunks) \in Nat /\ IsSeq(blocks) /\ blocks # <<>> /\ Len(blocks) <= next /\ next \in Nat
    BY LenProperties DEF Cleanly, IsSeq, Open
  <2>2. Len(blocks) \in Nat \ {0}
    BY <2>1, EmptySeq DEF IsSeq
  <2> QED BY <1>1, <2>1, <2>2
<1>5. ChunkText(chunks[next]) \in Strings
  BY <1>4, Zenon DEF Cleanly
<1>6. HasText(<<n>>, d, ChunkText(chunks[next]))
  <2>1. n.type = "Text" => n.text \in Strings
    BY <1>3, <1>5, Zenon
  <2>2. HasText(<<n>>, d, IF n.type = "Text" THEN n.text ELSE <<>>)
    BY <1>3, <2>1, LeafText, Zenon
  <2> QED BY <1>3, <2>2, Zenon
<1>7. Open(Grown(blocks, n), next + 1, chunks) /\ Kept(Grown(blocks, n), next + 1, chunks)
  BY <1>1, <1>2, <1>6, NodeAdded, Zenon
<1> QED BY <1>3, <1>7, Zenon

LEMMA GoesTag ==
  ASSUME Cleanly(chunks), Open(blocks, next, chunks), Kept(blocks, next, chunks),
         parseIf \/ parseFor \/ ParseOther
  PROVE  Open(blocks', next', chunks) /\ Kept(blocks', next', chunks)
<1>1. next <= Len(chunks)
  <2>1. ~AtEnd
    BY DEF parseIf, parseFor, ParseOther, Goes, Ends
  <2> QED BY <2>1, Within
<1>2. ChunkText(chunks[next]) = <<>>
  <2>1. Current # "" \/ chunks[next].type # "Text"
    BY DEF parseIf, parseFor, ParseOther
  <2> QED BY <1>1, <2>1, CurrentTag
<1>3. PICK K, b : K = Len(blocks) /\ b = Inner /\ InnerBlock(b, K)
  BY Innermost
<1>4. /\ K = Len(blocks) /\ b = blocks[K] /\ K \in Nat \ {0} /\ next \in Nat /\ next - K \in Nat
      /\ (next + 1) - K = (next - K) + 1 /\ GoodBlock(b) /\ (b.part = "top" <=> K = 1)
  BY <1>3, Zenon DEF InnerBlock
<1>5. 0 \in Nat
  OBVIOUS
<1>6. CASE parseIf
  <2>1. PICK cond : cond = ParseExpr(Rest(chunks[next], 2))
    OBVIOUS
  <2>2. PICK c : c = Block("branch", Node("If"), cond)
    OBVIOUS
  <2>3. next' = next + 1 /\ blocks' = Append(blocks, c)
    BY <1>6, <2>1, <2>2, Zenon DEF parseIf, Enter, Parse
  <2>4. PICK n : n = Node("If")
    OBVIOUS
  <2>5. n = [type |-> "If", text |-> <<>>, expr |-> noExpr, name |-> "", branches |-> <<>>, kids |-> <<>>]
    BY <2>4 DEF Node
  <2>6. c = [part |-> "branch", node |-> n, cond |-> cond, nodes |-> <<>>]
    BY <2>2, <2>4 DEF Block
  <2>7. GoodBranches(<<>>)
    <3>1. IsSeq(<<>>)
      BY EmptySeq, SeqIs
    <3>2. \A i \in 1..Len(<<>>) : IsSeq(<<>>[i].body)
      OBVIOUS
    <3> QED BY <3>1, <3>2, Zenon DEF GoodBranches
  <2>8. GoodBlock(c)
    <3>1. c.part = "branch" /\ c.node = n /\ c.cond = cond /\ c.nodes = <<>>
      BY <2>6
    <3>2. n.type = "If" /\ n.text = <<>> /\ n.expr = noExpr /\ n.name = "" /\ n.branches = <<>> /\ n.kids = <<>>
      BY <2>5
    <3> QED BY <2>5, <2>6, <2>7, <3>1, <3>2 DEF GoodBlock
  <2>9. c.part # "top" /\ c.nodes = <<>>
    BY <2>6
  <2>10. HasText(Lead(c), 0, <<>>)
    <3>1. PICK g : g = BranchTag(Len(<<>>) + 1, cond)
      OBVIOUS
    <3>2. SpelledBranches(<<>>) = <<>>
      <4>1. [i \in DOMAIN <<>> |-> <<BranchTag(i, <<>>[i].cond)>> \o <<>>[i].body] = <<>>
        OBVIOUS
      <4>2. FlattenSeq(<<>>) = <<>>
        BY EmptySeq, FlatOne
      <4> QED BY <4>1, <4>2, Zenon DEF SpelledBranches
    <3>3. Lead(c) = SpelledBranches(<<>>) \o <<g>>
      BY <2>5, <2>6, <3>1 DEF Lead
    <3>4. HasText(<<g>>, 0, <<>>)
      BY <1>5, <3>1, TagText, Zenon DEF BranchTag
    <3>5. HasText(<<>>, 0, <<>>)
      BY <1>5, NoneText, Zenon
    <3>6. HasText(<<>> \o <<g>>, 0, <<>> \o <<>>)
      BY <1>5, <3>4, <3>5, BothText, Zenon
    <3>7. <<>> \o <<>> = <<>>
      BY Strung, Zenon
    <3> QED BY <3>2, <3>3, <3>6, <3>7, Zenon
  <2>11. Open(Append(blocks, c), next + 1, chunks) /\ Kept(Append(blocks, c), next + 1, chunks)
    BY <1>1, <1>2, <2>8, <2>9, <2>10, KeptIn, Zenon
  <2> QED BY <2>3, <2>11, Zenon
<1>7. CASE parseFor
  <2>1. PICK m, x : /\ m = [Node("For") EXCEPT !.name = chunks[next].content[2],
                                            !.expr = ParseExpr(Rest(chunks[next], 4))]
                    /\ x = At(chunks[next].content, 3, "in")
    OBVIOUS
  <2>2. \/ next' = next + 1 /\ blocks' = Append(blocks, Block("loop", m, noExpr))
        \/ next' = next + 1 /\ blocks' = Grown(blocks, Node("For"))
    BY <1>7, <2>1, Zenon DEF parseFor, Enter, Add, Parse
  <2>3. CASE next' = next + 1 /\ blocks' = Append(blocks, Block("loop", m, noExpr))
    <3>1. PICK c : c = Block("loop", m, noExpr)
      OBVIOUS
    <3>2. c = [part |-> "loop", node |-> m, cond |-> noExpr, nodes |-> <<>>]
      BY <3>1 DEF Block
    <3>3. GoodBlock(c)
      <4>1. c.part = "loop" /\ c.node = m /\ c.cond = noExpr /\ c.nodes = <<>>
        BY <3>2
      <4>2. m.type = "For"
        BY <2>1 DEF Node
      <4>3. m = [type |-> m.type, text |-> m.text, expr |-> m.expr, name |-> m.name,
                 branches |-> m.branches, kids |-> m.kids]
        BY <2>1 DEF Node
      <4> QED BY <3>2, <4>1, <4>2, <4>3, Zenon DEF GoodBlock
    <3>4. c.part # "top" /\ c.nodes = <<>>
      BY <3>2
    <3>5. HasText(Lead(c), 0, <<>>)
      <4>1. Lead(c) = <<ForTag(m)>>
        BY <3>2 DEF Lead
      <4> QED BY <1>5, <4>1, TagText, Zenon DEF ForTag
    <3>6. Open(Append(blocks, c), next + 1, chunks) /\ Kept(Append(blocks, c), next + 1, chunks)
      BY <1>1, <1>2, <3>3, <3>4, <3>5, KeptIn, Zenon
    <3> QED BY <2>3, <3>1, <3>6, Zenon
  <2>4. CASE next' = next + 1 /\ blocks' = Grown(blocks, Node("For"))
    <3>1. PICK n, f, e : n = Node("For") /\ f = ForTag(n) /\ e = TagNode(<<"endfor">>)
      OBVIOUS
    <3>2. n.type = "For" /\ n.kids = <<>>
      BY <3>1 DEF Node
    <3>3. Spelled(n) = (<<f>> \o <<>>) \o <<e>>
      BY <3>1, <3>2, Zenon DEF Spelled
    <3>4. HasText(<<f>>, next - K, <<>>) /\ HasText(<<e>>, next - K, <<>>) /\ HasText(<<>>, next - K, <<>>)
      BY <1>4, <3>1, TagText, NoneText, Zenon DEF ForTag
    <3>5. HasText(<<f>> \o <<>>, next - K, <<>> \o <<>>)
      BY <1>4, <3>4, BothText, Zenon
    <3>6. <<>> \o <<>> = <<>>
      BY Strung, Zenon
    <3>7. HasText(Spelled(n), next - K, <<>> \o <<>>)
      BY <1>4, <3>3, <3>4, <3>5, <3>6, BothText, Zenon
    <3>8. HasText(<<n>>, (next - K) + 1, <<>>)
      <4>1. n.type # "Text"
        BY <3>2
      <4> QED BY <1>4, <3>6, <3>7, <4>1, InnerText, Zenon
    <3>9. HasText(<<n>>, (next + 1) - Len(blocks), ChunkText(chunks[next]))
      BY <1>2, <1>4, <3>8, Zenon
    <3>10. Open(Grown(blocks, n), next + 1, chunks) /\ Kept(Grown(blocks, n), next + 1, chunks)
      BY <1>1, <3>9, NodeAdded, Zenon
    <3> QED BY <2>4, <3>1, <3>10, Zenon
  <2> QED BY <2>2, <2>3, <2>4
<1>8. CASE ParseOther
  <2>1. next' = next + 1 /\ blocks' = blocks
    BY <1>8 DEF ParseOther, Parse
  <2>2. blocks = [blocks EXCEPT ![K] = b]
    <3>1. blocks \in Seq(Range(blocks))
      BY DEF Open, IsSeq
    <3> QED BY <1>4, <3>1
  <2>3. Adds(b, b, (next + 1) - K, <<>>)
    <3>1. \A q \in Strings : q \o <<>> = q
      BY Strung, Zenon
    <3> QED BY <3>1, Zenon DEF Adds
  <2>4. Open(blocks, next + 1, chunks) /\ Kept(blocks, next + 1, chunks)
    <3>1. Adds(blocks[K], b, (next + 1) - K, ChunkText(chunks[next]))
      BY <1>2, <1>4, <2>3, Zenon
    <3>2. K = Len(blocks) /\ GoodBlock(b) /\ (b.part = "top" <=> K = 1)
      BY <1>4
    <3> QED BY <1>1, <2>2, <3>1, <3>2, KeptOn
  <2> QED BY <2>1, <2>4, Zenon
<1> QED BY <1>6, <1>7, <1>8

\* The steps that end a body.

LEMMA StopsText ==
  ASSUME Cleanly(chunks), Open(blocks, next, chunks), Kept(blocks, next, chunks),
         Elif \/ Else \/ EndIf \/ EndFor
  PROVE  Open(blocks', next', chunks) /\ Kept(blocks', next', chunks)
<1>1. PICK K, b : K = Len(blocks) /\ b = Inner /\ InnerBlock(b, K)
  BY Innermost
<1>2. /\ K = Len(blocks) /\ b = blocks[K] /\ K \in Nat \ {0} /\ next \in Nat /\ next - K \in Nat
      /\ (next + 1) - K = (next - K) + 1 /\ GoodBlock(b) /\ IsSeq(b.nodes) /\ (b.part = "top" <=> K = 1)
  BY <1>1, Zenon DEF InnerBlock
<1>3. ASSUME Current # "" PROVE next <= Len(chunks) /\ ChunkText(chunks[next]) = <<>>
  <2>1. ~AtEnd
    BY <1>3 DEF Current
  <2> QED BY <1>3, <2>1, Within, CurrentTag
<1>4. CASE Elif \/ Else
  <2>1. PICK part, cond :
          part \in {"branch", "else"} /\ next' = next + 1 /\ blocks' = [blocks EXCEPT ![Len(blocks)] = Block(part, With(Inner), cond)]
    <3>1. CASE Elif
      BY <3>1, Zenon DEF Elif, Turn, Parse
    <3>2. CASE Else
      BY <3>2, Zenon DEF Else, Turn, Parse
    <3> QED BY <1>4, <3>1, <3>2
  <2>2. b.part = "branch" /\ Current # ""
    BY <1>1, <1>4 DEF Elif, Else, Stops
  <2>3. PICK c : c = Block(part, With(b), cond)
    OBVIOUS
  <2>4. (next + 1) - K \in Nat
    BY <1>2
  <2>5. GoodBlock(c) /\ c.part # "top" /\ Adds(b, c, (next + 1) - K, <<>>)
    BY <1>2, <2>1, <2>2, <2>3, <2>4, Turned, Zenon
  <2>6. b.part # "top" /\ c.part # "top"
    BY <2>2, <2>5
  <2>7. c.part = "top" <=> K = 1
    BY <1>2, <2>6
  <2>8. next <= Len(chunks) /\ ChunkText(chunks[next]) = <<>>
    BY <1>3, <2>2
  <2>9. Adds(blocks[K], c, (next + 1) - K, ChunkText(chunks[next]))
    BY <1>2, <2>5, <2>8, Zenon
  <2>10. blocks' = [blocks EXCEPT ![K] = c]
    BY <1>1, <2>1, <2>3, Zenon
  <2>11. Open(blocks', next + 1, chunks) /\ Kept(blocks', next + 1, chunks)
    <3>1. K = Len(blocks) /\ GoodBlock(c)
      BY <1>2, <2>5
    <3> QED BY <2>7, <2>8, <2>9, <2>10, <3>1, KeptOn
  <2> QED BY <2>1, <2>11, Zenon
<1>5. CASE EndIf \/ EndFor
  <2>1. PICK w : w = With(b)
    OBVIOUS
  <2>2. b.part # "top" /\ w.type # "Text" /\ Closes(b, w, next - K)
    <3>1. CASE EndIf
      <4>1. b.part \in {"branch", "else"}
        BY <1>1, <3>1 DEF EndIf, Stops
      <4>2. w.type # "Text" /\ Closes(b, w, next - K)
        BY <1>2, <2>1, <4>1, ClosesIf, Zenon
      <4> QED BY <4>1, <4>2
    <3>2. CASE EndFor
      <4>1. b.part = "loop"
        BY <1>1, <3>2 DEF EndFor, Stops
      <4>2. w.type # "Text" /\ Closes(b, w, next - K)
        BY <1>2, <2>1, <4>1, ClosesLoop, Zenon
      <4> QED BY <4>1, <4>2
    <3> QED BY <1>5, <3>1, <3>2
  <2>3. blocks' = Grown(Front(blocks), w) /\ next' \in {next, next + 1} /\ (next' = next + 1 => Current # "")
    <3>1. blocks' = Grown(Front(blocks), w)
      BY <1>1, <1>5, <2>1, Zenon DEF EndIf, EndFor, Leave, Parse
    <3>2. CASE EndIf
      <4>1. next' = IF Current = "endif" THEN next + 1 ELSE next
        BY <3>2 DEF EndIf, Parse
      <4>2. next' \in {next, next + 1} /\ (next' = next + 1 => Current # "")
        <5>1. CASE Current = "endif"
          BY <4>1, <5>1
        <5>2. CASE Current # "endif"
          <6>1. next' = next /\ next # next + 1
            BY <1>2, <4>1, <5>2
          <6> QED BY <6>1
        <5> QED BY <5>1, <5>2
      <4> QED BY <3>1, <4>2
    <3>3. CASE EndFor
      <4>1. PICK x : x = (chunks[next].content = <<"endfor">>)
        OBVIOUS
      <4>2. next' = IF ~AtEnd /\ chunks[next].content = <<"endfor">> THEN next + 1 ELSE next
        BY <3>3, Zenon DEF EndFor, Parse
      <4>3. AtEnd \/ Current \in EndTags["loop"]
        BY <3>3 DEF EndFor, Stops, Ends
      <4>4. AtEnd \/ Current = "endfor"
        BY <4>3 DEF EndTags
      <4>5. CASE AtEnd
        <5>1. next' = next
          BY <4>2, <4>5, Zenon
        <5>2. next # next + 1
          BY <1>2
        <5> QED BY <3>1, <5>1, <5>2
      <4>6. CASE Current = "endfor"
        <5>1. next' \in {next, next + 1}
          BY <4>2, Zenon
        <5> QED BY <3>1, <4>6, <5>1
      <4> QED BY <4>4, <4>5, <4>6
    <3> QED BY <1>5, <3>2, <3>3
  <2>4. PICK m \in {next, next + 1} : m = next'
    BY <2>3
  <2>5. m = next + 1 => next <= Len(chunks) /\ ChunkText(chunks[next]) = <<>>
    BY <1>3, <2>3, <2>4
  <2>6. K # 1
    BY <1>2, <2>2, Zenon
  <2>7. Closes(blocks[K], w, next - K) /\ w.type # "Text" /\ K = Len(blocks)
    BY <1>2, <2>2, Zenon
  <2>8. Open(blocks', m, chunks) /\ Kept(blocks', m, chunks)
    BY <2>3, <2>5, <2>6, <2>7, KeptOut
  <2> QED BY <2>4, <2>8, Zenon
<1> QED BY <1>4, <1>5

-----------------------------------------------------------------------------
(* The chunks that are cut *)

LEMMA MinIn ==
  ASSUME NEW T, T \subseteq Nat, T # {}
  PROVE  Min(T) \in T
BY Least DEF Min

LEMMA CleanMore ==
  ASSUME NEW cs, NEW ds, Cleanly(cs), Cleanly(ds)
  PROVE  Cleanly(cs \o ds)
<1>1. IsSeq(cs) /\ IsSeq(ds)
  BY DEF Cleanly
<1>2. PICK S : cs \in Seq(S) /\ ds \in Seq(S)
  BY <1>1, SeqTwo
<1>3. PICK T : T = {c \in S : ChunkText(c) \in Strings}
  OBVIOUS
<1>4. cs \in Seq(T) /\ ds \in Seq(T)
  <2>1. \A i \in 1..Len(cs) : cs[i] \in T
    BY <1>2, <1>3, ElementOfSeq DEF Cleanly
  <2>2. \A i \in 1..Len(ds) : ds[i] \in T
    BY <1>2, <1>3, ElementOfSeq DEF Cleanly
  <2> QED BY <1>2, <2>1, <2>2
<1>5. cs \o ds \in Seq(T)
  BY <1>4
<1>6. \A i \in 1..Len(cs \o ds) : ChunkText((cs \o ds)[i]) \in Strings
  BY <1>3, <1>5, ElementOfSeq
<1> QED BY <1>5, <1>6, SeqIs DEF Cleanly

LEMMA CleanOne ==
  ASSUME NEW c, ChunkText(c) \in Strings
  PROVE  Cleanly(<<>>) /\ Cleanly(<<c>>)
<1>1. <<>> \in Seq({c}) /\ Len(<<>>) = 0 /\ <<c>> \in Seq({c}) /\ Len(<<c>>) = 1 /\ \A i \in 1..1 : <<c>>[i] = c
  BY EmptySeq
<1>2. IsSeq(<<>>) /\ IsSeq(<<c>>)
  BY <1>1, SeqIs
<1>3. \A i \in 1..Len(<<>>) : ChunkText(<<>>[i]) \in Strings
  BY <1>1
<1>4. \A i \in 1..Len(<<c>>) : ChunkText(<<c>>[i]) \in Strings
  BY <1>1
<1> QED BY <1>2, <1>3, <1>4, Zenon DEF Cleanly

LEMMA CleanText ==
  ASSUME source \in Strings, NEW from \in Nat \ {0}, NEW to \in Int, to <= Len(source)
  PROVE  Cleanly(TextChunk(from, to))
<1>1. PICK C : C = STRING
  OBVIOUS
<1>2. source \in Seq(C)
  BY <1>1, Zenon DEF Strings
<1>3. \A i \in from..to : source[i] \in C
  <2>1. \A i \in from..to : i \in 1..Len(source)
    BY <1>2
  <2> QED BY <1>2, <2>1, ElementOfSeq
<1>4. SubSeq(source, from, to) \in Seq(C)
  BY <1>3, SubSeqProperties
<1>5. PICK c : c = Chunk("Text", SubSeq(source, from, to))
  OBVIOUS
<1>6. c.content = SubSeq(source, from, to) /\ c.type = "Text"
  BY <1>5 DEF Chunk
<1>7. ChunkText(c) = SubSeq(source, from, to)
  BY <1>6, Zenon DEF ChunkText
<1>8. ChunkText(c) \in Strings
  BY <1>1, <1>4, <1>7, Zenon DEF Strings
<1>9. TextChunk(from, to) = <<>> \/ TextChunk(from, to) = <<c>>
  BY <1>5, Zenon DEF TextChunk
<1> QED BY <1>8, <1>9, CleanOne, Zenon

LEMMA CutText ==
  ASSUME source \in Strings, pos \in Nat \ {0}, Cleanly(chunks), CutRest \/ CutUnclosed \/ CutDelimited
  PROVE  pos' \in Nat \ {0} /\ Cleanly(chunks')
<1>1. PICK l \in Nat : l = Len(source)
  <2>1. PICK C : C = STRING
    OBVIOUS
  <2>2. source \in Seq(C)
    BY <2>1, Zenon DEF Strings
  <2> QED BY <2>2, LenProperties
<1>2. \A i, j : i \in Nat \ {0} /\ j \in Int /\ j <= l => Cleanly(TextChunk(i, j))
  BY <1>1, CleanText
<1>3. CASE CutRest
  <2>1. Cleanly(TextChunk(pos, l))
    BY <1>1, <1>2
  <2>2. chunks' = chunks \o TextChunk(pos, l) /\ pos' = l + 1
    BY <1>1, <1>3, Zenon DEF CutRest, Cut
  <2> QED BY <2>1, <2>2, CleanMore
<1>4. ASSUME Opening # {} PROVE Min(Opening) \in pos..l /\ source[Min(Opening)] \in DOMAIN Closing
  <2>1. Opening \subseteq Nat
    BY <1>1 DEF Opening
  <2>2. Min(Opening) \in Opening
    BY <1>4, <2>1, MinIn
  <2> QED BY <1>1, <2>2 DEF Opening
<1>5. CASE CutUnclosed
  <2>1. PICK i \in pos..l : i = Min(Opening)
    BY <1>4, <1>5 DEF CutUnclosed
  <2>2. i \in Nat \ {0} /\ i - 1 \in Int /\ i - 1 <= l
    BY <1>1, <2>1
  <2>3. Cleanly(TextChunk(pos, i - 1)) /\ Cleanly(TextChunk(i, l))
    BY <1>1, <1>2, <2>2
  <2>4. chunks' = chunks \o (TextChunk(pos, i - 1) \o TextChunk(i, l)) /\ pos' = l + 1
    BY <1>1, <1>5, <2>1, Zenon DEF CutUnclosed, Cut
  <2>5. Cleanly(TextChunk(pos, i - 1) \o TextChunk(i, l))
    BY <2>3, CleanMore
  <2> QED BY <2>4, <2>5, CleanMore
<1>6. CASE CutDelimited
  <2>1. PICK i \in pos..l : i = Min(Opening) /\ source[i] \in DOMAIN Closing
    BY <1>4, <1>6 DEF CutDelimited
  <2>2. i \in Nat \ {0} /\ i - 1 \in Int /\ i - 1 <= l /\ ClosingOf(i) # {}
    <3>1. ClosingOf(i) # {}
      BY <1>6, <2>1, Zenon DEF CutDelimited
    <3> QED BY <1>1, <2>1, <3>1
  <2>3. PICK j \in Nat : j = Min(ClosingOf(i))
    <3>1. ClosingOf(i) \subseteq Nat
      BY <1>1, <2>2 DEF ClosingOf
    <3> QED BY <2>2, <3>1, MinIn
  <2>4. PICK e, x, t : e = <<Chunk("Expression", SubSeq(source, i + 1, j - 1))>>
                       /\ t = <<Chunk("Tag", SubSeq(source, i + 1, j - 1))>> /\ x = source[i]
    OBVIOUS
  <2>5. PICK more : more = CASE x = "{#" -> <<>> [] x = "{{" -> e [] x = "{%" -> t
    OBVIOUS
  <2>6. chunks' = chunks \o (TextChunk(pos, i - 1) \o more)
    BY <1>6, <2>1, <2>3, <2>4, <2>5, Zenon DEF CutDelimited, Cut
  <2>7. pos' = j + 1 \/ pos' = j + 2
    BY <1>6, <2>1, <2>3, Zenon DEF CutDelimited, Cut
  <2>8. Cleanly(<<>>) /\ Cleanly(e) /\ Cleanly(t)
    <3>1. PICK c, d : c = Chunk("Expression", SubSeq(source, i + 1, j - 1))
                      /\ d = Chunk("Tag", SubSeq(source, i + 1, j - 1))
      OBVIOUS
    <3>2. ChunkText(c) = <<>> /\ ChunkText(d) = <<>>
      BY <3>1 DEF Chunk, ChunkText
    <3>3. <<>> \in Strings
      BY Strung
    <3> QED BY <2>4, <3>1, <3>2, <3>3, CleanOne, Zenon
  <2>9. Cleanly(more)
    <3>1. x = "{#" \/ x = "{{" \/ x = "{%"
      BY <2>1, <2>4 DEF Closing
    <3>2. more = <<>> \/ more = e \/ more = t
      BY <2>5, <3>1
    <3> QED BY <2>8, <3>2, Zenon
  <2>10. Cleanly(TextChunk(pos, i - 1))
    BY <1>2, <2>2
  <2>11. Cleanly(chunks')
    BY <2>6, <2>9, <2>10, CleanMore
  <2> QED BY <2>3, <2>7, <2>11
<1> QED BY <1>3, <1>5, <1>6

-----------------------------------------------------------------------------
(* Every step keeps the text *)

LEMMA TextInit == Init => TextInv
BY DEF Init, TextInv, TextKept, Made

LEMMA ParsedText ==
  ASSUME Cleanly(chunks), Open(blocks, next, chunks), Kept(blocks, next, chunks), EndParse
  PROVE  TextIn(SpelledOut(nodes', Len(chunks))) = TextOf(chunks)
<1>1. PICK K, b : K = Len(blocks) /\ b = Inner /\ InnerBlock(b, K)
  BY Innermost
<1>2. K = Len(blocks) /\ b = blocks[K] /\ next \in Nat /\ next - K \in Nat /\ (b.part = "top" <=> K = 1)
  BY <1>1, Zenon DEF InnerBlock
<1>3. b.part = "top" /\ (AtEnd \/ Current \in EndTags["top"])
  BY <1>1 DEF EndParse, Stops, Ends
<1>4. AtEnd
  BY <1>3 DEF EndTags
<1>5. PICK l \in Nat : l = Len(chunks) /\ next = l + 1 /\ next - 1 = l
  <2>1. Len(chunks) \in Nat /\ next <= Len(chunks) + 1
    BY LenProperties DEF Cleanly, IsSeq, Open
  <2> QED BY <1>2, <1>4, <2>1 DEF AtEnd
<1>6. K = 1
  BY <1>2, <1>3
<1>7. PICK P \in [Nat -> Strings] :
        /\ P[1] = <<>> /\ P[K + 1] = TextBefore(chunks, next)
        /\ \A k \in 1..K : BlockText(blocks[k], next - k, P[k], P[k + 1])
  BY <1>2, Zenon DEF Kept
<1>8. PICK q : q = TextBefore(chunks, next) /\ BlockText(b, l, <<>>, q)
  <2>1. K \in 1..K /\ next - K = l
    BY <1>5, <1>6
  <2>2. BlockText(blocks[K], next - K, P[K], P[K + 1])
    BY <1>7, <2>1, Zenon
  <2>3. P[K] = <<>>
    BY <1>6, <1>7, Zenon
  <2> QED BY <1>2, <1>7, <2>1, <2>2, <2>3, Zenon
<1>9. PICK t1 \in Strings, t2 \in Strings :
        HasText(Lead(b), l, t1) /\ HasText(b.nodes, l, t2) /\ q = (<<>> \o t1) \o t2
  BY <1>8, Zenon DEF BlockText
<1>10. q = t2
  <2>1. Lead(b) = <<>>
    BY <1>3 DEF Lead
  <2>2. t1 = <<>>
    BY <1>9, <2>1, NoneText, Zenon
  <2>3. <<>> \o <<>> = <<>> /\ <<>> \o t2 = t2
    BY Strung, Zenon
  <2> QED BY <1>9, <2>2, <2>3, Zenon
<1>11. PICK out : Becomes(b.nodes, l, out) /\ TextIn(out) = t2
  BY <1>9, Zenon DEF HasText
<1>12. l >= l
  OBVIOUS
<1>13. SpelledOut(b.nodes, l) = out
  BY <1>11, <1>12, Zenon DEF Becomes
<1>14. nodes' = b.nodes
  BY <1>1 DEF EndParse
<1>15. q = TextOf(chunks)
  BY <1>5, <1>8, TextMore, Zenon
<1> QED BY <1>5, <1>10, <1>11, <1>13, <1>14, <1>15, Zenon

LEMMA TextNext == TextInv /\ [Next]_vars => TextInv'
<1> SUFFICES ASSUME TextInv, [Next]_vars PROVE TextInv'
  OBVIOUS
<1>1. CASE Construct
  <2>1. source' \in Strings
    <3>1. CASE source' \in Sources
      BY <3>1, SourceAssumption, Zenon DEF Strings
    <3>2. CASE \E ns \in Written : source' = Write(ns)
      BY <3>2, SourceAssumption, Zenon DEF Strings
    <3> QED BY <1>1, <3>1, <3>2 DEF Construct
  <2>2. at = "new" /\ at' = "tokenize" /\ UNCHANGED <<chunks, pos, next>>
    BY <1>1 DEF Construct, cutVars, parseVars
  <2>3. chunks = <<>> /\ pos = 1 /\ next = 1
    BY <2>2 DEF TextInv
  <2>4. Cleanly(<<>>)
    <3>1. PICK c : c = Chunk("Text", <<>>)
      OBVIOUS
    <3>2. ChunkText(c) = <<>>
      BY <3>1 DEF ChunkText, Chunk
    <3> QED BY <3>2, CleanOne, Strung, Zenon
  <2>5. pos' \in Nat \ {0} /\ next' = 1 /\ Cleanly(chunks')
    BY <2>2, <2>3, <2>4
  <2> QED BY <2>1, <2>2, <2>5 DEF TextInv, TextKept, Made
<1>2. CASE CutRest \/ CutUnclosed \/ CutDelimited
  <2>1. at = "tokenize" /\ UNCHANGED <<at, source, next>>
    BY <1>2, Zenon DEF CutRest, CutUnclosed, CutDelimited, Cutting, Cut, parseVars
  <2>2. source \in Strings /\ pos \in Nat \ {0} /\ next = 1 /\ Cleanly(chunks)
    BY <2>1 DEF TextInv
  <2>3. pos' \in Nat \ {0} /\ Cleanly(chunks')
    BY <1>2, <2>2, CutText
  <2> QED BY <2>1, <2>2, <2>3 DEF TextInv, TextKept, Made
<1>3. CASE Tokenized
  <2>1. /\ at = "tokenize" /\ at' = "parse" /\ chunks' = chunks /\ next' = next
        /\ blocks' = <<Block("top", Node("Block"), noExpr)>>
    BY <1>3 DEF Tokenized, cutVars
  <2>2. next = 1 /\ Cleanly(chunks)
    BY <2>1 DEF TextInv
  <2>3. PICK c, n : n = Node("Block") /\ c = Block("top", n, noExpr)
    OBVIOUS
  <2>4. n = [type |-> "Block", text |-> <<>>, expr |-> noExpr, name |-> "", branches |-> <<>>, kids |-> <<>>]
    BY <2>3 DEF Node
  <2>5. c = [part |-> "top", node |-> n, cond |-> noExpr, nodes |-> <<>>]
    BY <2>3 DEF Block
  <2>6. c.part = "top" /\ c.node = n /\ c.nodes = <<>> /\ c.cond = noExpr
    BY <2>5
  <2>7. GoodBlock(c)
    <3>1. n = [type |-> n.type, text |-> n.text, expr |-> n.expr, name |-> n.name,
               branches |-> n.branches, kids |-> n.kids]
      BY <2>4
    <3> QED BY <2>5, <2>6, <3>1, Zenon DEF GoodBlock
  <2>8. PICK gs : gs = <<c>>
    OBVIOUS
  <2>9. IsSeq(gs) /\ gs # <<>> /\ Len(gs) = 1 /\ gs[1] = c
    <3>1. gs \in Seq({c})
      BY <2>8
    <3>2. gs # <<>> /\ Len(gs) = 1 /\ gs[1] = c
      BY <2>8
    <3> QED BY <3>1, <3>2, SeqIs
  <2>10. Open(gs, 1, chunks)
    <3>1. 1 \in Nat /\ 1 <= 1 /\ 1 <= Len(chunks) + 1
      BY <2>2, LenProperties DEF Cleanly, IsSeq
    <3>2. \A k \in 1..1 : k = 1
      OBVIOUS
    <3>3. \A k \in 1..Len(gs) : GoodBlock(gs[k]) /\ (gs[k].part = "top" <=> k = 1)
      BY <2>6, <2>7, <2>9, <3>2, Zenon
    <3> QED BY <2>9, <3>1, <3>3, Zenon DEF Open
  <2>11. Kept(gs, 1, chunks)
    <3>1. PICK P : P = [k \in Nat |-> <<>>]
      OBVIOUS
    <3>2. P \in [Nat -> Strings] /\ P[1] = <<>> /\ P[1 + 1] = <<>>
      BY <3>1, Strung
    <3>3. BlockText(c, 1 - 1, <<>>, <<>>)
      <4>1. 1 - 1 \in Nat
        OBVIOUS
      <4>2. HasText(<<>>, 1 - 1, <<>>)
        BY <4>1, NoneText, Zenon
      <4>3. Lead(c) = <<>>
        BY <2>6 DEF Lead
      <4>4. <<>> \in Strings /\ (<<>> \o <<>>) \o <<>> = <<>>
        <5>1. <<>> \in Strings /\ <<>> \o <<>> = <<>>
          BY Strung, Zenon
        <5> QED BY <5>1, Zenon
      <4> QED BY <2>6, <4>2, <4>3, <4>4, Zenon DEF BlockText
    <3>4. \A k \in 1..Len(gs) : BlockText(gs[k], 1 - k, P[k], P[k + 1])
      <4>1. \A k \in 1..1 : k = 1
        OBVIOUS
      <4> QED BY <2>9, <3>2, <3>3, <4>1, Zenon
    <3>5. P[Len(gs) + 1] = TextBefore(chunks, 1)
      BY <2>2, <2>9, <3>2, TextMore, Zenon
    <3> QED BY <3>2, <3>4, <3>5, Zenon DEF Kept
  <2>12. blocks' = gs
    BY <2>1, <2>3, <2>8
  <2>13. Cleanly(chunks') /\ Open(blocks', next', chunks') /\ Kept(blocks', next', chunks')
    BY <2>1, <2>2, <2>10, <2>11, <2>12
  <2> QED BY <2>1, <2>13 DEF TextInv, TextKept, Made
<1>4. CASE ParseText \/ ParseOutput \/ parseSet \/ parseIf \/ parseFor \/ ParseOther \/ Elif \/ Else \/ EndIf \/ EndFor
  <2>1. at = "parse"
    BY <1>4 DEF ParseText, ParseOutput, parseSet, parseIf, parseFor, ParseOther, Elif, Else, EndIf, EndFor, Goes, Stops
  <2>2. UNCHANGED <<at, chunks>>
    <3>1. CASE ParseText \/ ParseOutput \/ parseSet
      BY <3>1, Zenon DEF ParseText, ParseOutput, parseSet, Add, Parse, cutVars
    <3>2. CASE parseIf \/ parseFor \/ ParseOther
      BY <3>2, Zenon DEF parseIf, parseFor, ParseOther, Add, Enter, Parse, cutVars
    <3>3. CASE Elif \/ Else \/ EndIf \/ EndFor
      BY <3>3, Zenon DEF Elif, Else, EndIf, EndFor, Turn, Parse, cutVars
    <3> QED BY <1>4, <3>1, <3>2, <3>3
  <2>3. Cleanly(chunks) /\ Open(blocks, next, chunks) /\ Kept(blocks, next, chunks)
    BY <2>1 DEF TextInv
  <2>4. Open(blocks', next', chunks) /\ Kept(blocks', next', chunks)
    BY <1>4, <2>3, GoesText, GoesTag, StopsText
  <2>5. Cleanly(chunks') /\ Open(blocks', next', chunks') /\ Kept(blocks', next', chunks')
    BY <2>2, <2>3, <2>4
  <2> QED BY <2>1, <2>2, <2>5 DEF TextInv, TextKept, Made
<1>5. CASE EndParse
  <2>1. at = "parse" /\ at' = "made" /\ chunks' = chunks
    BY <1>5 DEF EndParse, Stops, cutVars
  <2>2. TextIn(SpelledOut(nodes', Len(chunks))) = TextOf(chunks)
    BY <1>5, <2>1, ParsedText DEF TextInv
  <2>3. TextIn(SpelledOut(nodes', Len(chunks'))) = TextOf(chunks')
    BY <2>1, <2>2, Zenon
  <2> QED BY <2>1, <2>3 DEF TextInv, TextKept
<1>6. CASE Renders
  <2>1. Made /\ Made' /\ UNCHANGED <<chunks, nodes>>
    <3>1. CASE render
      BY <3>1 DEF render, Made, cutVars
    <3>2. CASE EndBlock
      BY <3>2 DEF EndBlock, Made, cutVars
    <3>3. CASE RenderText \/ RenderOutput \/ RenderSet \/ renderIf \/ renderFor
      BY <3>3 DEF RenderText, RenderOutput, RenderSet, renderIf, renderFor, renderNode, Rendering, Made, cutVars
    <3>4. CASE NextRound \/ EndRounds
      BY <3>4 DEF NextRound, EndRounds, Rendering, Made, cutVars
    <3> QED BY <1>6, <3>1, <3>2, <3>3, <3>4 DEF Renders
  <2>2. TextIn(SpelledOut(nodes, Len(chunks))) = TextOf(chunks)
    BY <2>1 DEF TextInv, TextKept
  <2>3. TextIn(SpelledOut(nodes', Len(chunks'))) = TextOf(chunks')
    BY <2>1, <2>2, Zenon
  <2>4. at' \notin {"new", "tokenize", "parse"}
    BY <2>1 DEF Made
  <2> QED BY <2>3, <2>4 DEF TextInv, TextKept
<1>7. CASE UNCHANGED vars
  <2>1. UNCHANGED <<at, source, chunks, pos, next, blocks, nodes>>
    BY <1>7 DEF vars, cutVars, parseVars
  <2> QED BY <2>1 DEF TextInv, TextKept, Made
<1> QED BY <1>1, <1>2, <1>3, <1>4, <1>5, <1>6, <1>7 DEF Next, Cuts, Parses

\* No text is lost, doubled or moved by the parser, whatever the tags.
THEOREM NoTextLost == Spec => []TextKept
<1>1. TextInv => TextKept
  BY DEF TextInv
<1> QED BY <1>1, TextInit, TextNext, PTL DEF Spec
=============================================================================
