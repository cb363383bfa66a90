----------------------- MODULE VariableResolverProofs -----------------------
(***************************************************************************)
(* Variables of a mortar file, for any text and environment.  What resolve  *)
(* has made of its input after some steps is the input with the values of   *)
(* the references dealt with where they stand, read from the left.  The     *)
(* functions of the model go through a text by positions, each value given  *)
(* by one further right, so the lemmas are inductions from its end.         *)
(***************************************************************************)
EXTENDS VariableResolver, NaturalsInduction, WellFoundedInduction, SequenceTheorems, TLAPS

-----------------------------------------------------------------------------
(* Recursion from the end of a text.                                        *)

\* A set that has every position if it has those after it has them all.  (The
\* theorems of the library on induction and recursion take an operator, which
\* the backends cannot instantiate; these take a set and a function.)
LEMMA FromTheEnd ==
  ASSUME NEW n \in Nat, NEW P,
         \A i \in 1..(n + 1) : (\A j \in (i + 1)..(n + 1) : j \in P) => i \in P
  PROVE  \A i \in 1..(n + 1) : i \in P
<1> DEFINE T == {k \in 0..n : n + 1 - k \notin P}
           R == {ss \in Nat \X Nat : ss[1] < ss[2]}
<1>1. SUFFICES ASSUME T # {} PROVE FALSE
  <2>1. \A i \in 1..(n + 1) : n + 1 - i \in 0..n /\ n + 1 - (n + 1 - i) = i
    OBVIOUS
  <2>2. ASSUME NEW i \in 1..(n + 1), i \notin P PROVE n + 1 - i \in T
    BY <2>1, <2>2
  <2> QED BY <2>2
<1>2. PICK k \in T : \A m \in T : ~ (<<m, k>> \in R)
  <2>1. T \in SUBSET Nat
    OBVIOUS
  <2>2. IsWellFoundedOn(R, Nat)
    BY NatLessThanWellFounded DEF OpToRel
  <2> HIDE DEF T, R
  <2> QED BY <1>1, <2>1, <2>2, WFMin
<1>3. k \in 0..n /\ n + 1 - k \in 1..(n + 1) /\ n + 1 - k \notin P
  OBVIOUS
<1>4. PICK j \in (n + 1 - k + 1)..(n + 1) : j \notin P
  BY <1>3
<1>5. /\ n + 1 - j \in 0..n /\ n + 1 - (n + 1 - j) = j /\ n + 1 - j < k
      /\ n + 1 - j \in Nat /\ k \in Nat
  BY <1>3
<1>6. n + 1 - j \in T /\ <<n + 1 - j, k>> \in R
  BY <1>4, <1>5
<1> QED BY <1>2, <1>6

\* What stp makes of a position and a function depends on the values of the
\* function at later positions; and f is such a function.
LooksBehind(n, S, stp) ==
  /\ stp \in [(1..(n + 1)) \X [1..(n + 1) -> S] -> S]
  /\ \A i \in 1..(n + 1) : \A f, g \in [1..(n + 1) -> S] :
       (\A j \in (i + 1)..(n + 1) : f[j] = g[j]) => stp[<<i, f>>] = stp[<<i, g>>]

Follows(n, S, stp, f) ==
  f \in [1..(n + 1) -> S] /\ \A i \in 1..(n + 1) : f[i] = stp[<<i, f>>]

\* There is a function whose value at each position is what stp makes of its
\* values at the later ones.
LEMMA Recursion ==
  ASSUME NEW n \in Nat, NEW S, NEW c \in S, NEW stp, LooksBehind(n, S, stp)
  PROVE  \E f : Follows(n, S, stp, f)
<1> USE DEF LooksBehind, Follows
<1> DEFINE D == 1..(n + 1)
           Good(i, f) == \A j \in D : j >= i => f[j] = stp[<<j, f>>]
           P == {i \in D : \E f \in [D -> S] : Good(i, f)}
<1>1. ASSUME NEW i \in D, \A j \in (i + 1)..(n + 1) : j \in P PROVE i \in P
  <2>1. PICK f \in [D -> S] : \A j \in D : j > i => f[j] = stp[<<j, f>>]
    <3>1. CASE i = n + 1
      <4>1. [j \in D |-> c] \in [D -> S] /\ \A j \in D : ~(j > i)
        BY <3>1
      <4> QED BY <4>1
    <3>2. CASE i # n + 1
      <4>1. i + 1 \in (i + 1)..(n + 1) /\ \A j \in D : j > i => j >= i + 1
        BY <3>2
      <4> QED BY <1>1, <4>1
    <3> QED BY <3>1, <3>2
  <2>2. PICK e \in S : e = stp[<<i, f>>]
    OBVIOUS
  <2>3. PICK g \in [D -> S] : g = [f EXCEPT ![i] = e]
    OBVIOUS
  <2>4. g[i] = e /\ \A j \in D : j # i => g[j] = f[j]
    BY <2>3
  <2>5. ASSUME NEW j \in D, j >= i PROVE g[j] = stp[<<j, g>>]
    <3>1. \A h \in (j + 1)..(n + 1) : g[h] = f[h]
      BY <2>4, <2>5
    <3>2. stp[<<j, f>>] = stp[<<j, g>>]
      BY <3>1
    <3>3. CASE j = i
      BY <2>2, <2>4, <3>2, <3>3
    <3>4. CASE j # i
      BY <2>1, <2>4, <2>5, <3>2, <3>4
    <3> QED BY <3>3, <3>4
  <2> QED BY <2>5
<1> HIDE DEF P
<1>2. 1 \in P
  <2>1. \A i \in 1..(n + 1) : i \in P
    BY <1>1, FromTheEnd
  <2> QED BY <2>1
<1>3. PICK f \in [D -> S] : Good(1, f)
  BY <1>2 DEF P
<1> QED BY <1>3

\* f[i] is piece i followed by what comes from the position after it.
Chained(S, n, piece, next, f) ==
  /\ f \in [1..(n + 1) -> Seq(S)] /\ f[n + 1] = <<>>
  /\ \A i \in 1..n : f[i] = piece[i] \o f[next[i]]

\* There is such an f.
LEMMA ChainExists ==
  ASSUME NEW S, NEW n \in Nat, NEW piece \in [1..n -> Seq(S)],
         NEW next \in [1..n -> 1..(n + 1)], \A i \in 1..n : next[i] > i
  PROVE  \E f : Chained(S, n, piece, next, f)
<1> DEFINE D == 1..(n + 1)
           Body(i, f) == IF i > n THEN <<>> ELSE piece[i] \o f[next[i]]
           stp == [x \in D \X [D -> Seq(S)] |-> Body(x[1], x[2])]
<1>1. \A i \in D : i > n \/ (i \in 1..n /\ next[i] \in (i + 1)..(n + 1) /\ next[i] \in D)
  OBVIOUS
<1>2. ASSUME NEW i \in D, NEW f \in [D -> Seq(S)] PROVE Body(i, f) \in Seq(S)
  <2>1. CASE i > n
    BY <2>1
  <2>2. CASE i \in 1..n /\ next[i] \in D
    <3>1. piece[i] \in Seq(S) /\ f[next[i]] \in Seq(S) /\ ~(i > n)
      BY <2>2
    <3> QED BY <3>1
  <2> QED BY <1>1, <2>1, <2>2
<1>3. ASSUME NEW i \in D, NEW f \in [D -> Seq(S)], NEW g \in [D -> Seq(S)],
             \A j \in (i + 1)..(n + 1) : f[j] = g[j]
      PROVE  Body(i, f) = Body(i, g)
  BY <1>1, <1>3
<1> HIDE DEF Body
<1>4. stp \in [D \X [D -> Seq(S)] -> Seq(S)]
  BY <1>2
<1>5. \A i \in D : \A f \in [D -> Seq(S)] : stp[<<i, f>>] = Body(i, f)
  OBVIOUS
<1> HIDE DEF stp
<1>6. \A i \in D : \A f, g \in [D -> Seq(S)] :
        (\A j \in (i + 1)..(n + 1) : f[j] = g[j]) => stp[<<i, f>>] = stp[<<i, g>>]
  <2> SUFFICES ASSUME NEW i \in D, NEW f \in [D -> Seq(S)], NEW g \in [D -> Seq(S)],
                      \A j \in (i + 1)..(n + 1) : f[j] = g[j]
               PROVE  stp[<<i, f>>] = stp[<<i, g>>]
    OBVIOUS
  <2>1. Body(i, f) = Body(i, g)
    BY <1>3
  <2> QED BY ONLY <1>5, <2>1, i \in D, f \in [D -> Seq(S)], g \in [D -> Seq(S)]
<1>7. PICK f \in [D -> Seq(S)] : \A i \in D : f[i] = stp[<<i, f>>]
  <2>1. <<>> \in Seq(S)
    OBVIOUS
  <2>2. LooksBehind(n, Seq(S), stp)
    BY <1>4, <1>6 DEF LooksBehind
  <2>3. PICK f : Follows(n, Seq(S), stp, f)
    BY ONLY <2>1, <2>2, n \in Nat, Recursion
  <2> QED BY <2>3 DEF Follows
<1>8. \A i \in D : f[i] = Body(i, f)
  BY <1>5, <1>7
<1>9. n + 1 \in D /\ n + 1 > n /\ \A i \in 1..n : i \in D /\ ~(i > n)
  OBVIOUS
<1>10. f[n + 1] = <<>> /\ \A i \in 1..n : f[i] = piece[i] \o f[next[i]]
  BY ONLY <1>8, <1>9 DEF Body
<1> QED BY <1>7, <1>10 DEF Chained

\* What satisfies its equations has its type.
LEMMA ChainTyped ==
  ASSUME NEW S, NEW n \in Nat, NEW piece \in [1..n -> Seq(S)],
         NEW next \in [1..n -> 1..(n + 1)], \A i \in 1..n : next[i] > i,
         NEW f, DOMAIN f = 1..(n + 1), f = [i \in 1..(n + 1) |-> f[i]], f[n + 1] = <<>>,
         \A i \in 1..n : f[next[i]] \in Seq(S) => f[i] = piece[i] \o f[next[i]]
  PROVE  Chained(S, n, piece, next, f)
<1> DEFINE P == {i \in 1..(n + 1) : f[i] \in Seq(S)}
<1>1. ASSUME NEW i \in 1..(n + 1), \A j \in (i + 1)..(n + 1) : j \in P PROVE i \in P
  <2>1. CASE i = n + 1
    <3>1. <<>> \in Seq(S)
      OBVIOUS
    <3> QED BY <2>1, <3>1
  <2>2. CASE i \in 1..n
    <3>1. next[i] \in (i + 1)..(n + 1)
      BY <2>2
    <3>2. f[next[i]] \in Seq(S)
      BY <1>1, <3>1
    <3>3. f[i] = piece[i] \o f[next[i]] /\ piece[i] \in Seq(S)
      BY <2>2, <3>2
    <3>4. f[i] \in Seq(S)
      BY ONLY <3>2, <3>3, ConcatProperties
    <3> QED BY <3>4
  <2> QED BY <2>1, <2>2
<1>2. \A i \in 1..(n + 1) : i \in P
  <2> HIDE DEF P
  <2> QED BY <1>1, FromTheEnd
<1>3. f \in [1..(n + 1) -> Seq(S)]
  BY <1>2
<1>4. \A i \in 1..n : f[i] = piece[i] \o f[next[i]]
  BY <1>2
<1> QED BY <1>3, <1>4 DEF Chained

\* Two chains with the same pieces from some position on are the same there.
LEMMA ChainsAgree ==
  ASSUME NEW S, NEW n \in Nat, NEW next \in [1..n -> 1..(n + 1)], \A i \in 1..n : next[i] > i,
         NEW piece, NEW f, Chained(S, n, piece, next, f),
         NEW other, NEW g, Chained(S, n, other, next, g),
         \A i \in 1..n : piece[i] = other[i]
  PROVE  \A i \in 1..(n + 1) : f[i] = g[i]
<1> DEFINE P == {i \in 1..(n + 1) : f[i] = g[i]}
<1>1. ASSUME NEW i \in 1..(n + 1), \A j \in (i + 1)..(n + 1) : j \in P PROVE i \in P
  <2>1. CASE i = n + 1
    BY <2>1 DEF Chained
  <2>2. CASE i \in 1..n
    <3>1. next[i] \in (i + 1)..(n + 1)
      BY <2>2
    <3>2. f[next[i]] = g[next[i]]
      BY <1>1, <3>1
    <3> QED BY <2>2, <3>2 DEF Chained
  <2> QED BY <2>1, <2>2
<1> HIDE DEF P
<1>2. \A i \in 1..(n + 1) : i \in P
  BY <1>1, FromTheEnd
<1> QED BY <1>2 DEF P

-----------------------------------------------------------------------------
(* Replacing a text in another.                                             *)

\* What replaced puts at each position, and where it goes on.
OldPieces(s, old, new) ==
  [i \in 1..Len(s) |-> IF IsPrefix(old, SubSeq(s, i, Len(s))) THEN new ELSE <<s[i]>>]
OldNext(s, old) ==
  [i \in 1..Len(s) |-> IF IsPrefix(old, SubSeq(s, i, Len(s))) THEN i + Len(old) ELSE i + 1]

\* The function behind Replaced.
ReplacedFrom(s, old, new) ==
  CHOOSE from : from = [i \in 1..(Len(s) + 1) |->
    IF i > Len(s) THEN <<>>
    ELSE IF IsPrefix(old, SubSeq(s, i, Len(s))) THEN new \o from[i + Len(old)]
    ELSE <<s[i]>> \o from[i + 1]]

\* The text that is replaced is not longer than the rest.
LEMMA OldFits ==
  ASSUME NEW S, NEW s \in Seq(S), NEW old \in Seq(S), NEW new \in Seq(S), Len(old) > 0
  PROVE  /\ Len(s) \in Nat
         /\ OldPieces(s, old, new) \in [1..Len(s) -> Seq(S)]
         /\ OldNext(s, old) \in [1..Len(s) -> 1..(Len(s) + 1)]
         /\ \A i \in 1..Len(s) : OldNext(s, old)[i] > i
<1>1. PICK n \in Nat : n = Len(s)
  OBVIOUS
<1>2. ASSUME NEW i \in 1..n
      PROVE  /\ s[i] \in S /\ <<s[i]>> \in Seq(S)
             /\ IsPrefix(old, SubSeq(s, i, n)) => i + Len(old) \in (i + 1)..(n + 1)
  <2>1. SubSeq(s, i, n) \in Seq(S) /\ Len(SubSeq(s, i, n)) = n - i + 1
    BY <1>1
  <2>2. Len(old) \in Nat /\ s[i] \in S
    BY <1>1
  <2>3. IsPrefix(old, SubSeq(s, i, n)) => Len(old) <= n - i + 1
    BY <2>1 DEF IsPrefix
  <2> QED BY <2>2, <2>3
<1>3. OldPieces(s, old, new) \in [1..n -> Seq(S)]
  BY <1>1, <1>2 DEF OldPieces
<1>4. \A i \in 1..n : i + 1 \in (i + 1)..(n + 1)
  OBVIOUS
<1>5. \A i \in 1..n : OldNext(s, old)[i] \in (i + 1)..(n + 1)
  BY <1>1, <1>2, <1>4 DEF OldNext
<1>6. OldNext(s, old) \in [1..n -> 1..(n + 1)] /\ \A i \in 1..n : OldNext(s, old)[i] > i
  <2>1. OldNext(s, old) = [i \in 1..n |-> OldNext(s, old)[i]]
    BY <1>1 DEF OldNext
  <2> QED BY <1>5, <2>1
<1> QED BY <1>1, <1>3, <1>6

\* Replaced is what its definition says.
LEMMA ReplacedIs ==
  ASSUME NEW S, NEW s \in Seq(S), NEW old \in Seq(S), NEW new \in Seq(S), Len(old) > 0
  PROVE  /\ Replaced(s, old, new) = ReplacedFrom(s, old, new)[1]
         /\ Chained(S, Len(s), OldPieces(s, old, new), OldNext(s, old), ReplacedFrom(s, old, new))
<1> DEFINE Body(i, f) == IF i > Len(s) THEN <<>>
                         ELSE IF IsPrefix(old, SubSeq(s, i, Len(s))) THEN new \o f[i + Len(old)]
                         ELSE <<s[i]>> \o f[i + 1]
           Fix(f) == f = [i \in 1..(Len(s) + 1) |-> Body(i, f)]
           from == ReplacedFrom(s, old, new)
<1>1. PICK n \in Nat : n = Len(s)
  OBVIOUS
<1>2. /\ OldPieces(s, old, new) \in [1..n -> Seq(S)] /\ OldNext(s, old) \in [1..n -> 1..(n + 1)]
      /\ \A i \in 1..n : OldNext(s, old)[i] > i
  BY <1>1, OldFits
<1>3. n + 1 > n /\ n + 1 \in 1..(n + 1) /\ \A i \in 1..n : ~(i > n) /\ i \in 1..(n + 1)
  OBVIOUS
<1>4. ASSUME NEW i \in 1..n, NEW f PROVE Body(i, f) = OldPieces(s, old, new)[i] \o f[OldNext(s, old)[i]]
  BY <1>1, <1>3 DEF OldPieces, OldNext
<1>5. \A f : Body(n + 1, f) = <<>>
  BY <1>1, <1>3
<1> HIDE DEF Body
<1>6. \E f : Fix(f)
  <2>1. PICK f : Chained(S, n, OldPieces(s, old, new), OldNext(s, old), f)
    BY ONLY <1>1, <1>2, ChainExists
  <2>2. \A i \in 1..(n + 1) : f[i] = Body(i, f)
    <3> SUFFICES ASSUME NEW i \in 1..(n + 1) PROVE f[i] = Body(i, f)
      OBVIOUS
    <3>1. CASE i \in 1..n
      BY <1>4, <2>1, <3>1 DEF Chained
    <3>2. CASE i = n + 1
      BY <1>5, <2>1, <3>2 DEF Chained
    <3> QED BY <3>1, <3>2
  <2>3. f = [i \in 1..(n + 1) |-> f[i]]
    BY <2>1 DEF Chained
  <2>4. Fix(f)
    BY ONLY <1>1, <2>2, <2>3
  <2> QED BY <2>4
<1>7. from = CHOOSE f : Fix(f)
  BY DEF ReplacedFrom, Body
<1> HIDE DEF Fix
<1>8. Fix(from)
  BY ONLY <1>6, <1>7, Zenon
<1>9. Replaced(s, old, new) = from[1]
  BY DEF Replaced, ReplacedFrom
<1> HIDE DEF from
<1>10. from = [i \in 1..(n + 1) |-> Body(i, from)]
  BY <1>1, <1>8 DEF Fix
<1>11. Chained(S, n, OldPieces(s, old, new), OldNext(s, old), from)
  <2>1. DOMAIN from = 1..(n + 1) /\ from = [i \in 1..(n + 1) |-> from[i]]
    BY ONLY <1>10
  <2>2. from[n + 1] = <<>>
    BY ONLY <1>3, <1>5, <1>10
  <2>3. \A i \in 1..n : from[i] = OldPieces(s, old, new)[i] \o from[OldNext(s, old)[i]]
    BY ONLY <1>3, <1>4, <1>10
  <2> QED BY ONLY <1>2, <2>1, <2>2, <2>3, n \in Nat, ChainTyped
<1> QED BY <1>1, <1>9, <1>11 DEF from

\* A text begins with another one if it has the same at its first positions.
LEMMA PrefixIs ==
  ASSUME NEW S, NEW p \in Seq(S), NEW t \in Seq(S)
  PROVE  IsPrefix(p, t) <=> Len(p) <= Len(t) /\ \A k \in 1..Len(p) : p[k] = t[k]
<1>1. PICK m \in Nat, n \in Nat : m = Len(p) /\ n = Len(t)
  OBVIOUS
<1>2. SubSeq(p, 1, m) = p
  BY <1>1
<1>3. ASSUME m <= n
      PROVE  /\ SubSeq(t, 1, m) \in Seq(S) /\ Len(SubSeq(t, 1, m)) = m
             /\ \A k \in 1..m : SubSeq(t, 1, m)[k] = t[k]
  BY <1>1, <1>3
<1>4. ASSUME m <= n, \A k \in 1..m : p[k] = t[k] PROVE p = SubSeq(t, 1, m)
  BY ONLY <1>1, <1>3, <1>4, p \in Seq(S), SeqEqual
<1> QED BY ONLY <1>1, <1>2, <1>3, <1>4 DEF IsPrefix

\* What is replaced in the rest of a text is what is replaced from there on.
LEMMA ReplacedInRest ==
  ASSUME NEW S, NEW s \in Seq(S), NEW old \in Seq(S), NEW new \in Seq(S), Len(old) > 0,
         NEW d \in 0..Len(s)
  PROVE  ReplacedFrom(s, old, new)[d + 1] = Replaced(SubSeq(s, d + 1, Len(s)), old, new)
<1>1. PICK n \in Nat : n = Len(s)
  OBVIOUS
<1>2. PICK m \in Nat : m = n - d /\ d \in Nat
  <2>1. n - d \in Nat /\ d \in Nat
    BY <1>1
  <2> QED BY <2>1
<1>3. PICK t \in Seq(S) : /\ t = SubSeq(s, d + 1, n) /\ Len(t) = m
                          /\ \A j \in 1..m : t[j] = s[d + j]
  <2>1. /\ SubSeq(s, d + 1, n) \in Seq(S) /\ Len(SubSeq(s, d + 1, n)) = m
        /\ \A j \in 1..m : SubSeq(s, d + 1, n)[j] = s[d + j]
    BY <1>1, <1>2
  <2> QED BY <2>1
<1>4. ASSUME NEW j \in 1..m
      PROVE  SubSeq(t, j, m) = SubSeq(s, d + j, n) /\ d + j \in 1..n
  BY <1>1, <1>2, <1>3
<1> DEFINE F == ReplacedFrom(s, old, new)
           G == ReplacedFrom(t, old, new)
           P == {j \in 1..(m + 1) : F[d + j] = G[j]}
<1>5. ASSUME NEW j \in 1..m
      PROVE  /\ OldPieces(t, old, new)[j] = OldPieces(s, old, new)[d + j]
             /\ d + OldNext(t, old)[j] = OldNext(s, old)[d + j]
             /\ OldNext(t, old)[j] \in (j + 1)..(m + 1)
  <2>1. t[j] = s[d + j] /\ Len(old) \in Nat /\ d + j \in 1..n /\ d \in Nat /\ j \in Nat
    BY <1>2, <1>3, <1>4
  <2>2. OldPieces(t, old, new)[j] = OldPieces(s, old, new)[d + j]
    BY ONLY <1>1, <1>3, <1>4, <2>1, j \in 1..m DEF OldPieces
  <2>3. d + OldNext(t, old)[j] = OldNext(s, old)[d + j]
    <3>1. /\ OldNext(t, old)[j] = IF IsPrefix(old, SubSeq(t, j, m)) THEN j + Len(old) ELSE j + 1
          /\ OldNext(s, old)[d + j] =
               IF IsPrefix(old, SubSeq(s, d + j, n)) THEN d + j + Len(old) ELSE d + j + 1
      BY ONLY <1>1, <1>3, <2>1, j \in 1..m DEF OldNext
    <3>2. IsPrefix(old, SubSeq(t, j, m)) <=> IsPrefix(old, SubSeq(s, d + j, n))
      BY ONLY <1>4, j \in 1..m
    <3>3. d + (j + Len(old)) = d + j + Len(old) /\ d + (j + 1) = d + j + 1
      BY ONLY <2>1
    <3> QED BY ONLY <3>1, <3>2, <3>3
  <2>4. OldNext(t, old) \in [1..m -> 1..(m + 1)] /\ \A i \in 1..m : OldNext(t, old)[i] > i
    BY <1>3, OldFits
  <2> QED BY <2>2, <2>3, <2>4
<1>6. /\ Chained(S, n, OldPieces(s, old, new), OldNext(s, old), F)
      /\ Chained(S, m, OldPieces(t, old, new), OldNext(t, old), G)
      /\ Replaced(t, old, new) = G[1]
  <2>1. ASSUME NEW x \in Seq(S)
        PROVE  /\ Chained(S, Len(x), OldPieces(x, old, new), OldNext(x, old), ReplacedFrom(x, old, new))
               /\ Replaced(x, old, new) = ReplacedFrom(x, old, new)[1]
    BY ReplacedIs
  <2> QED BY ONLY <1>1, <1>3, <2>1, s \in Seq(S)
<1> HIDE DEF F, G
<1>7. ASSUME NEW j \in 1..(m + 1), \A i \in (j + 1)..(m + 1) : i \in P PROVE j \in P
  <2>1. CASE j = m + 1
    <3>1. d + j = n + 1
      BY <1>2, <2>1
    <3> QED BY <1>6, <2>1, <3>1 DEF Chained
  <2>2. CASE j \in 1..m
    <3>1. F[d + OldNext(t, old)[j]] = G[OldNext(t, old)[j]]
      BY <1>5, <1>7, <2>2
    <3>2. /\ F[d + j] = OldPieces(s, old, new)[d + j] \o F[OldNext(s, old)[d + j]]
          /\ G[j] = OldPieces(t, old, new)[j] \o G[OldNext(t, old)[j]]
      BY <1>4, <1>6, <2>2 DEF Chained
    <3> QED BY ONLY <1>5, <2>2, <3>1, <3>2, j \in 1..(m + 1)
  <2> QED BY <2>1, <2>2
<1>8. \A j \in 1..(m + 1) : j \in P
  <2> HIDE DEF P
  <2> QED BY <1>7, FromTheEnd
<1>9. F[d + 1] = G[1]
  BY <1>8
<1> QED BY <1>1, <1>3, <1>6, <1>9 DEF F

\* In no text there is nothing to replace.
LEMMA ReplacedInNothing ==
  ASSUME NEW S, NEW old \in Seq(S), NEW new \in Seq(S), Len(old) > 0
  PROVE  Replaced(<<>>, old, new) = <<>>
<1>1. <<>> \in Seq(S) /\ Len(<<>>) = 0 /\ 0 + 1 = 1
  OBVIOUS
<1>2. /\ Replaced(<<>>, old, new) = ReplacedFrom(<<>>, old, new)[1]
      /\ Chained(S, 0, OldPieces(<<>>, old, new), OldNext(<<>>, old), ReplacedFrom(<<>>, old, new))
  BY ONLY <1>1, ReplacedIs, old \in Seq(S), new \in Seq(S), Len(old) > 0
<1> QED BY <1>1, <1>2 DEF Chained

\* A token before u with which old does not begin stays.
TokenStays(S, old, new, u) ==
  \A a \in S : ~IsPrefix(old, <<a>> \o u) =>
    Replaced(<<a>> \o u, old, new) = <<a>> \o Replaced(u, old, new)

\* What is replaced at the beginning of a text.
LEMMA ReplacedFirst ==
  ASSUME NEW S, NEW old \in Seq(S), NEW new \in Seq(S), Len(old) > 0, NEW u \in Seq(S)
  PROVE  /\ Replaced(u, old, new) \in Seq(S)
         /\ Replaced(old \o u, old, new) = new \o Replaced(u, old, new)
         /\ TokenStays(S, old, new, u)
<1>1. ASSUME NEW t \in Seq(S)
      PROVE  /\ Replaced(t, old, new) = ReplacedFrom(t, old, new)[1]
             /\ Chained(S, Len(t), OldPieces(t, old, new), OldNext(t, old), ReplacedFrom(t, old, new))
  BY ReplacedIs
<1>2. Replaced(u, old, new) \in Seq(S)
  <2>1. 1 \in 1..(Len(u) + 1)
    OBVIOUS
  <2>2. ReplacedFrom(u, old, new) \in [1..(Len(u) + 1) -> Seq(S)]
    BY <1>1 DEF Chained
  <2> QED BY <1>1, <2>1, <2>2
<1>3. ASSUME NEW t \in Seq(S), NEW d \in 1..Len(t), SubSeq(t, d + 1, Len(t)) = u,
             OldNext(t, old)[1] = d + 1
      PROVE  Replaced(t, old, new) = OldPieces(t, old, new)[1] \o Replaced(u, old, new)
  <2>1. ReplacedFrom(t, old, new)[d + 1] = Replaced(u, old, new)
    <3>1. d \in 0..Len(t)
      OBVIOUS
    <3> QED BY ONLY <1>3, <3>1, ReplacedInRest, old \in Seq(S), new \in Seq(S), Len(old) > 0
  <2>2. 1 \in 1..Len(t)
    BY <1>3
  <2> QED BY <1>1, <1>3, <2>1, <2>2 DEF Chained
<1>4. Replaced(old \o u, old, new) = new \o Replaced(u, old, new)
  <2> DEFINE t == old \o u
             d == Len(old)
  <2>1. /\ t \in Seq(S) /\ d \in 1..Len(t) /\ SubSeq(t, 1, Len(t)) = t
        /\ \A k \in 1..Len(old) : old[k] = t[k]
    OBVIOUS
  <2>2. SubSeq(t, d + 1, Len(t)) = u
    OBVIOUS
  <2>3. IsPrefix(old, t)
    <3>1. Len(old) <= Len(t)
      OBVIOUS
    <3> HIDE DEF t
    <3> QED BY ONLY <2>1, <3>1, PrefixIs, old \in Seq(S)
  <2> HIDE DEF t, d
  <2>4. OldNext(t, old)[1] = 1 + Len(old) /\ OldPieces(t, old, new)[1] = new
    <3>1. 1 \in 1..Len(t)
      BY <2>1
    <3> QED BY ONLY <2>1, <2>3, <3>1 DEF OldNext, OldPieces
  <2>5. OldNext(t, old)[1] = d + 1
    BY <2>4 DEF d
  <2> QED BY ONLY <1>3, <2>1, <2>2, <2>4, <2>5 DEF t
<1>5. ASSUME NEW a \in S, ~IsPrefix(old, <<a>> \o u)
      PROVE  Replaced(<<a>> \o u, old, new) = <<a>> \o Replaced(u, old, new)
  <2> DEFINE t == <<a>> \o u
  <2>1. /\ t \in Seq(S) /\ 1 \in 1..Len(t) /\ SubSeq(t, 1, Len(t)) = t /\ t[1] = a
        /\ SubSeq(t, 1 + 1, Len(t)) = u
    OBVIOUS
  <2>2. ~IsPrefix(old, t)
    BY <1>5
  <2> HIDE DEF t
  <2>3. OldNext(t, old)[1] = 1 + 1 /\ OldPieces(t, old, new)[1] = <<a>>
    BY ONLY <2>1, <2>2 DEF OldNext, OldPieces
  <2> QED BY ONLY <1>3, <2>1, <2>3 DEF t
<1> QED BY <1>2, <1>4, <1>5 DEF TokenStays

\* o does not contain a.
Lacks(o, a) == \A i \in 1..Len(o) : o[i] # a

\* o stays as it is before u.
Kept(o, old, new, u) == Replaced(o \o u, old, new) = o \o Replaced(u, old, new)

\* A part in which old cannot begin stays as it is.
LEMMA PartStays ==
  ASSUME NEW S, NEW old \in Seq(S), NEW new \in Seq(S), Len(old) > 0, NEW u \in Seq(S),
         NEW o \in Seq(S), Lacks(o, old[1])
  PROVE  Kept(o, old, new, u)
<1>1. PICK m \in Nat : m = Len(o)
  OBVIOUS
<1> DEFINE Rest(j) == SubSeq(o, j, m)
           P == {j \in 1..(m + 1) : Replaced(Rest(j) \o u, old, new) = Rest(j) \o Replaced(u, old, new)}
<1>2. Replaced(u, old, new) \in Seq(S)
  BY ReplacedFirst
<1>3. ASSUME NEW x \in Seq(S), NEW a \in S, ~IsPrefix(old, <<a>> \o x)
      PROVE  Replaced(<<a>> \o x, old, new) = <<a>> \o Replaced(x, old, new)
  <2>1. TokenStays(S, old, new, x)
    BY ReplacedFirst
  <2> QED BY ONLY <1>3, <2>1 DEF TokenStays
<1>4. ASSUME NEW j \in 1..(m + 1), \A i \in (j + 1)..(m + 1) : i \in P PROVE j \in P
  <2>1. CASE j = m + 1
    <3>1. Rest(j) = <<>>
      BY <1>1, <2>1
    <3>2. <<>> \o u = u /\ <<>> \o Replaced(u, old, new) = Replaced(u, old, new)
      BY <1>2
    <3> QED BY <3>1, <3>2
  <2>2. CASE j \in 1..m
    <3>1. Rest(j) = <<o[j]>> \o Rest(j + 1) /\ Rest(j + 1) \in Seq(S) /\ o[j] \in S
      BY <1>1, <2>2, SubSeqRecursiveFirst
    <3> DEFINE w == Rest(j + 1) \o u
    <3>2. w \in Seq(S) /\ Rest(j) \o u = <<o[j]>> \o w
      BY ONLY <3>1, ConcatAssociative, u \in Seq(S)
    <3>3. ~IsPrefix(old, <<o[j]>> \o w)
      <4>1. <<o[j]>> \o w \in Seq(S) /\ (<<o[j]>> \o w)[1] = o[j] /\ 1 \in 1..Len(old)
        <5>1. PICK h \in Seq(S) : h = <<o[j]>> /\ Len(h) = 1 /\ h[1] = o[j]
          <6>1. PICK a \in S : a = o[j]
            BY ONLY <3>1
          <6>2. <<a>> \in Seq(S) /\ Len(<<a>>) = 1 /\ <<a>>[1] = a
            BY ONLY a \in S
          <6> QED BY ONLY <6>1, <6>2
        <5>2. h \o w \in Seq(S) /\ (h \o w)[1] = o[j]
          BY ONLY <3>2, <5>1, ConcatProperties, h \in Seq(S)
        <5>3. 1 \in 1..Len(old)
          OBVIOUS
        <5> QED BY ONLY <5>1, <5>2, <5>3
      <4>2. o[j] # old[1]
        BY <1>1, <2>2 DEF Lacks
      <4> QED BY ONLY <4>1, <4>2, PrefixIs, old \in Seq(S)
    <3>4. Replaced(Rest(j) \o u, old, new) = <<o[j]>> \o Replaced(w, old, new)
      <4> HIDE DEF w
      <4>1. Replaced(<<o[j]>> \o w, old, new) = <<o[j]>> \o Replaced(w, old, new)
        BY ONLY <1>3, <3>1, <3>2, <3>3
      <4> QED BY ONLY <3>2, <4>1
    <3>5. Replaced(w, old, new) = Rest(j + 1) \o Replaced(u, old, new)
      BY <1>4, <2>2
    <3>6. <<o[j]>> \o (Rest(j + 1) \o Replaced(u, old, new)) = Rest(j) \o Replaced(u, old, new)
      BY ONLY <1>2, <3>1, ConcatAssociative
    <3> QED BY ONLY <3>4, <3>5, <3>6, j \in 1..(m + 1)
  <2> QED BY <2>1, <2>2
<1>5. 1 \in P
  <2> HIDE DEF P
  <2>1. \A j \in 1..(m + 1) : j \in P
    BY <1>4, FromTheEnd
  <2> QED BY <2>1
<1>6. Rest(1) = o
  BY <1>1
<1> QED BY ONLY <1>5, <1>6 DEF Kept

-----------------------------------------------------------------------------
(* The references of a text.                                                *)

\* A set of numbers that has one has a least one.
LEMMA MinIs ==
  ASSUME NEW T \in SUBSET Nat, T # {}
  PROVE  Min(T) \in T /\ \A m \in T : Min(T) <= m
<1> DEFINE R == {ss \in Nat \X Nat : ss[1] < ss[2]}
<1>1. PICK k \in T : \A m \in T : ~ (<<m, k>> \in R)
  <2>1. IsWellFoundedOn(R, Nat)
    BY NatLessThanWellFounded DEF OpToRel
  <2> HIDE DEF R
  <2> QED BY <2>1, WFMin
<1>2. \A m \in T : k <= m
  <2> SUFFICES ASSUME NEW m \in T PROVE k <= m
    OBVIOUS
  <2>1. <<m, k>> \in Nat \X Nat /\ ~(m < k)
    BY <1>1
  <2> QED BY <2>1
<1> QED BY <1>2, Zenon DEF Min

\* The tokens that go on with a reference after its name, and that end it.
GoesOn(token) == token = ":-" \/ token = "}"
Closes(token) == token = "}"

\* A reference: a name, ":-" and a default or neither, and the first "}".
Shape(r) ==
  /\ r \in Seq(Tokens) /\ Len(r) > 1 /\ r[1] \in VariableNames
  /\ GoesOn(r[2]) /\ Closes(r[Len(r)]) /\ \A j \in 2..(Len(r) - 1) : ~Closes(r[j])

\* The one that starts at i.
RefAt(s, i) == SubSeq(s, i, MatchEnd(s, i))

\* Where a match ends, and what there is if there is none.
LEMMA MatchIs ==
  ASSUME NEW s \in Seq(Tokens), NEW i \in 1..Len(s)
  PROVE  /\ MatchEnd(s, i) # 0 => /\ MatchEnd(s, i) \in (i + 1)..Len(s) /\ Shape(RefAt(s, i))
                                  /\ s[i] \in VariableNames
         /\ MatchEnd(s, i) = 0 => \/ s[i] \notin VariableNames
                                  \/ \A j \in (i + 1)..Len(s) : ~Closes(s[j])
                                  \/ i + 1 \in 1..Len(s) /\ ~GoesOn(s[i + 1])
<1>1. PICK n \in Nat : n = Len(s)
  OBVIOUS
<1> DEFINE ends == {j \in (i + 1)..n : Closes(s[j])}
           found == s[i] \in VariableNames /\ ends # {} /\ GoesOn(s[i + 1])
<1>2. MatchEnd(s, i) = IF found THEN Min(ends) ELSE 0
  BY <1>1 DEF MatchEnd, GoesOn, Closes
<1>3. i \in Nat /\ n \in Nat /\ i > 0 /\ i <= n
  BY <1>1
<1>4. ends \in SUBSET Nat /\ ends \subseteq (i + 1)..n /\ \A j \in ends : j # 0
  <2>1. \A j \in (i + 1)..n : j \in Nat /\ j # 0
    BY ONLY <1>3
  <2> QED BY ONLY <2>1
<1>5. CASE found
  <2>1. PICK e \in Nat : e = Min(ends) /\ e \in ends /\ \A j \in ends : e <= j
    <3>1. ends # {}
      BY <1>5
    <3> HIDE DEF ends
    <3>2. Min(ends) \in ends /\ \A j \in ends : Min(ends) <= j
      BY ONLY <1>4, <3>1, MinIs
    <3> QED BY ONLY <1>4, <3>2
  <2>2. MatchEnd(s, i) = e /\ e # 0 /\ i + 1 <= e /\ e <= n
    <3>1. e \in (i + 1)..n
      BY ONLY <1>4, <2>1
    <3>2. MatchEnd(s, i) = e
      BY ONLY <1>2, <1>5, <2>1
    <3> QED BY ONLY <1>3, <3>1, <3>2, e \in Nat
  <2>3. Closes(s[e]) /\ \A j \in (i + 1)..n : Closes(s[j]) => e <= j
    BY ONLY <2>1
  <2> HIDE DEF ends
  <2> DEFINE r == SubSeq(s, i, e)
  <2>4. PICK len \in Int : len = e - i + 1
    BY ONLY i \in Nat, e \in Nat
  <2>5. r \in Seq(Tokens) /\ Len(r) = len /\ \A k \in 1..len : r[k] = s[i + k - 1]
    <3>1. /\ i \in Int /\ e \in Int /\ i <= e /\ len \in Nat /\ len = e - i + 1
          /\ \A j \in i..e : j \in 1..Len(s)
      BY ONLY <1>1, <1>3, <2>4, <2>2, e \in Nat
    <3>2. \A j \in i..e : s[j] \in Tokens
      BY ONLY <3>1, s \in Seq(Tokens)
    <3>3. r \in Seq(Tokens) /\ Len(r) = e - i + 1 /\ \A k \in 1..(e - i + 1) : r[k] = s[i + k - 1]
      BY ONLY <3>1, <3>2, SubSeqProperties
    <3> QED BY ONLY <3>1, <3>3
  <2>6. \A j \in (i + 1)..(e - 1) : ~Closes(s[j])
    <3>1. \A j \in (i + 1)..(e - 1) : j \in (i + 1)..n /\ ~(e <= j)
      BY ONLY <1>3, <2>2, e \in Nat
    <3> QED BY ONLY <2>3, <3>1
  <2> HIDE DEF r
  <2>7. Shape(r)
    <3>1. len > 1 /\ i + len - 1 = e /\ i + 1 - 1 = i /\ i + 2 - 1 = i + 1
      BY ONLY <1>3, <2>4, <2>2, e \in Nat
    <3>2. /\ 1 \in 1..len /\ 2 \in 1..len /\ len \in 1..len
          /\ \A j \in 2..(len - 1) : j \in 1..len /\ i + j - 1 \in (i + 1)..(e - 1)
      BY ONLY <1>3, <2>4, <2>2, e \in Nat
    <3>3. r[1] = s[i] /\ r[2] = s[i + 1] /\ r[len] = s[e]
      BY ONLY <2>5, <3>1, <3>2
    <3>4. \A j \in 2..(len - 1) : ~Closes(r[j])
      BY ONLY <2>5, <2>6, <3>2
    <3>5. Len(r) = len /\ len > 1
      BY ONLY <2>5, <3>1
    <3>6. r[1] \in VariableNames /\ GoesOn(r[2]) /\ Closes(r[len])
      BY ONLY <1>5, <2>3, <3>3
    <3> QED BY ONLY <2>5, <3>4, <3>5, <3>6 DEF Shape
  <2>8. e \in (i + 1)..Len(s) /\ RefAt(s, i) = r /\ s[i] \in VariableNames
    <3>1. e \in (i + 1)..n
      BY ONLY <1>3, <2>2, e \in Nat
    <3> QED BY ONLY <1>1, <1>5, <2>2, <3>1 DEF RefAt, r
  <2> QED BY ONLY <2>2, <2>7, <2>8
<1>6. CASE ~found
  <2>1. MatchEnd(s, i) = 0
    BY <1>2, <1>6
  <2>2. CASE ends = {}
    BY <1>1, <2>1, <2>2
  <2>3. CASE s[i] \in VariableNames /\ ends # {}
    <3>1. ~GoesOn(s[i + 1])
      BY <1>6, <2>3
    <3>2. i + 1 \in 1..n
      <4>1. PICK j \in (i + 1)..n : j \in ends
        BY <2>3
      <4> QED BY ONLY <1>3, j \in (i + 1)..n
    <3> QED BY <1>1, <2>1, <3>1, <3>2
  <2>4. CASE s[i] \notin VariableNames
    BY <2>1, <2>4
  <2> QED BY <2>2, <2>3, <2>4
<1> QED BY <1>5, <1>6

\* Where the search for references goes on; what it finds; and the text with w
\* for its references.
TextNext(s) ==
  [i \in 1..Len(s) |-> IF MatchEnd(s, i) = 0 THEN i + 1 ELSE MatchEnd(s, i) + 1]
RefPieces(s) ==
  [i \in 1..Len(s) |-> IF MatchEnd(s, i) = 0 THEN <<>> ELSE <<RefAt(s, i)>>]
TextPieces(s, w) ==
  [i \in 1..Len(s) |-> IF MatchEnd(s, i) = 0 THEN <<s[i]>> ELSE w[RefAt(s, i)]]

Filled(s, w, f) == Chained(Tokens, Len(s), TextPieces(s, w), TextNext(s), f)

\* They have their types.
LEMMA TextFits ==
  ASSUME NEW s \in Seq(Tokens)
  PROVE  /\ Len(s) \in Nat /\ TextNext(s) \in [1..Len(s) -> 1..(Len(s) + 1)]
         /\ \A i \in 1..Len(s) : TextNext(s)[i] > i
         /\ RefPieces(s) \in [1..Len(s) -> Seq(Seq(Tokens))]
         /\ \A w \in [Seq(Tokens) -> Seq(Tokens)] : TextPieces(s, w) \in [1..Len(s) -> Seq(Tokens)]
<1>1. PICK n \in Nat : n = Len(s)
  OBVIOUS
<1>2. ASSUME NEW i \in 1..n
      PROVE  /\ MatchEnd(s, i) # 0 => MatchEnd(s, i) \in (i + 1)..n /\ RefAt(s, i) \in Seq(Tokens)
             /\ s[i] \in Tokens
  <2>1. i \in 1..Len(s)
    BY <1>1
  <2>2. MatchEnd(s, i) # 0 => MatchEnd(s, i) \in (i + 1)..Len(s) /\ Shape(RefAt(s, i))
    BY ONLY <2>1, s \in Seq(Tokens), MatchIs
  <2>3. s[i] \in Tokens
    BY <2>1
  <2> QED BY ONLY <1>1, <2>2, <2>3 DEF Shape
<1>3. ASSUME NEW i \in 1..n PROVE TextNext(s)[i] \in (i + 1)..(n + 1)
  <2>1. TextNext(s)[i] = IF MatchEnd(s, i) = 0 THEN i + 1 ELSE MatchEnd(s, i) + 1
    BY <1>1 DEF TextNext
  <2> QED BY <1>2, <2>1
<1>4. TextNext(s) = [i \in 1..n |-> TextNext(s)[i]]
  BY <1>1 DEF TextNext
<1>5. TextNext(s) \in [1..n -> 1..(n + 1)] /\ \A i \in 1..n : TextNext(s)[i] > i
  BY <1>3, <1>4
<1>6. RefPieces(s) \in [1..n -> Seq(Seq(Tokens))]
  <2>1. ASSUME NEW i \in 1..n
        PROVE  (IF MatchEnd(s, i) = 0 THEN <<>> ELSE <<RefAt(s, i)>>) \in Seq(Seq(Tokens))
    <3>1. <<>> \in Seq(Seq(Tokens))
      OBVIOUS
    <3>2. ASSUME RefAt(s, i) \in Seq(Tokens) PROVE <<RefAt(s, i)>> \in Seq(Seq(Tokens))
      <4> DEFINE Q == Seq(Tokens)
      <4>1. RefAt(s, i) \in Q
        BY <3>2
      <4> HIDE DEF Q
      <4>2. <<RefAt(s, i)>> \in Seq(Q)
        BY <4>1
      <4> QED BY <4>2 DEF Q
    <3> QED BY <1>2, <3>1, <3>2
  <2> QED BY <1>1, <2>1 DEF RefPieces
<1>7. ASSUME NEW w \in [Seq(Tokens) -> Seq(Tokens)]
      PROVE  TextPieces(s, w) \in [1..n -> Seq(Tokens)]
  <2>1. ASSUME NEW i \in 1..n
        PROVE  (IF MatchEnd(s, i) = 0 THEN <<s[i]>> ELSE w[RefAt(s, i)]) \in Seq(Tokens)
    <3>1. <<s[i]>> \in Seq(Tokens)
      BY <1>2
    <3> QED BY <1>2, <3>1
  <2> QED BY <1>1, <2>1 DEF TextPieces
<1> QED BY <1>1, <1>5, <1>6, <1>7

\* The function behind References.
ReferencesFrom(s) ==
  CHOOSE from : from = [i \in 1..(Len(s) + 1) |->
    IF i > Len(s) THEN <<>>
    ELSE IF MatchEnd(s, i) = 0 THEN from[i + 1]
    ELSE <<SubSeq(s, i, MatchEnd(s, i))>> \o from[MatchEnd(s, i) + 1]]

\* References is what its definition says.
LEMMA ReferencesIs ==
  ASSUME NEW s \in Seq(Tokens)
  PROVE  /\ References(s) = ReferencesFrom(s)[1]
         /\ Chained(Seq(Tokens), Len(s), RefPieces(s), TextNext(s), ReferencesFrom(s))
<1> DEFINE Body(i, f) == IF i > Len(s) THEN <<>>
                         ELSE IF MatchEnd(s, i) = 0 THEN f[i + 1]
                         ELSE <<SubSeq(s, i, MatchEnd(s, i))>> \o f[MatchEnd(s, i) + 1]
           Fix(f) == f = [i \in 1..(Len(s) + 1) |-> Body(i, f)]
           from == ReferencesFrom(s)
           Q == Seq(Tokens)
<1>1. PICK n \in Nat : n = Len(s)
  OBVIOUS
<1>2. /\ RefPieces(s) \in [1..n -> Seq(Q)] /\ TextNext(s) \in [1..n -> 1..(n + 1)]
      /\ \A i \in 1..n : TextNext(s)[i] > i
  BY <1>1, TextFits
<1>3. n + 1 > n /\ n + 1 \in 1..(n + 1) /\ \A i \in 1..n : ~(i > n) /\ i \in 1..(n + 1)
  OBVIOUS
<1> HIDE DEF Q
<1>4. ASSUME NEW i \in 1..n, NEW f, f[TextNext(s)[i]] \in Seq(Q)
      PROVE  Body(i, f) = RefPieces(s)[i] \o f[TextNext(s)[i]]
  <2>1. CASE MatchEnd(s, i) = 0
    <3>1. Body(i, f) = f[i + 1] /\ RefPieces(s)[i] = <<>> /\ TextNext(s)[i] = i + 1
      BY <1>1, <1>3, <2>1 DEF RefPieces, TextNext
    <3> QED BY ONLY <1>4, <3>1, ConcatEmptySeq
  <2>2. CASE MatchEnd(s, i) # 0
    BY <1>1, <1>3, <2>2 DEF RefPieces, TextNext, RefAt
  <2> QED BY <2>1, <2>2
<1>5. \A f : Body(n + 1, f) = <<>>
  BY <1>1, <1>3
<1> HIDE DEF Body
<1>6. \E f : Fix(f)
  <2>1. PICK f : Chained(Q, n, RefPieces(s), TextNext(s), f)
    BY ONLY <1>1, <1>2, ChainExists
  <2>2. \A i \in 1..(n + 1) : f[i] = Body(i, f)
    <3> SUFFICES ASSUME NEW i \in 1..(n + 1) PROVE f[i] = Body(i, f)
      OBVIOUS
    <3>1. CASE i \in 1..n
      <4>1. f[TextNext(s)[i]] \in Seq(Q)
        BY <1>2, <2>1, <3>1 DEF Chained
      <4> QED BY <1>4, <2>1, <3>1, <4>1 DEF Chained
    <3>2. CASE i = n + 1
      BY <1>5, <2>1, <3>2 DEF Chained
    <3> QED BY <3>1, <3>2
  <2>3. f = [i \in 1..(n + 1) |-> f[i]]
    BY <2>1 DEF Chained
  <2>4. Fix(f)
    BY ONLY <1>1, <2>2, <2>3
  <2> QED BY <2>4
<1>7. from = CHOOSE f : Fix(f)
  BY DEF ReferencesFrom, Body
<1> HIDE DEF Fix
<1>8. Fix(from)
  BY ONLY <1>6, <1>7, Zenon
<1>9. References(s) = from[1]
  BY DEF References, ReferencesFrom
<1> HIDE DEF from
<1>10. from = [i \in 1..(n + 1) |-> Body(i, from)]
  BY <1>1, <1>8 DEF Fix
<1>11. Chained(Q, n, RefPieces(s), TextNext(s), from)
  <2>1. DOMAIN from = 1..(n + 1) /\ from = [i \in 1..(n + 1) |-> from[i]]
    BY ONLY <1>10
  <2>2. from[n + 1] = <<>>
    BY ONLY <1>3, <1>5, <1>10
  <2>3. \A i \in 1..n : from[TextNext(s)[i]] \in Seq(Q) => from[i] = RefPieces(s)[i] \o from[TextNext(s)[i]]
    BY ONLY <1>3, <1>4, <1>10
  <2> QED BY ONLY <1>2, <2>1, <2>2, <2>3, n \in Nat, ChainTyped
<1> QED BY <1>1, <1>9, <1>11 DEF from, Q

\* Every element of a sequence is in D.
Among(refs, D) == \A k \in DOMAIN refs : refs[k] \in D

\* It is so for a longer sequence if it is so for what is added.
LEMMA AmongCons ==
  ASSUME NEW Q, NEW q \in Q, NEW refs \in Seq(Q), NEW D
  PROVE  Among(<<q>> \o refs, D) <=> q \in D /\ Among(refs, D)
<1>1. PICK m \in Nat : m = Len(refs) /\ DOMAIN refs = 1..m
  OBVIOUS
<1>2. /\ <<q>> \o refs \in Seq(Q) /\ DOMAIN (<<q>> \o refs) = 1..(m + 1) /\ (<<q>> \o refs)[1] = q
      /\ \A k \in 1..m : (<<q>> \o refs)[k + 1] = refs[k]
  BY <1>1
<1>3. /\ 1 \in 1..(m + 1) /\ \A k \in 1..m : k + 1 \in 1..(m + 1)
      /\ \A k \in 1..(m + 1) : k = 1 \/ (k - 1 \in 1..m /\ k - 1 + 1 = k)
  OBVIOUS
<1>4. ASSUME Among(<<q>> \o refs, D) PROVE q \in D /\ Among(refs, D)
  BY ONLY <1>1, <1>2, <1>3, <1>4 DEF Among
<1>5. ASSUME q \in D, Among(refs, D) PROVE Among(<<q>> \o refs, D)
  <2>1. ASSUME NEW k \in 1..(m + 1) PROVE (<<q>> \o refs)[k] \in D
    BY ONLY <1>1, <1>2, <1>3, <1>5, k \in 1..(m + 1) DEF Among
  <2> QED BY ONLY <1>2, <2>1 DEF Among
<1> QED BY <1>4, <1>5

\* What there is at a position: a token that begins no reference, or a
\* reference, and what comes after it.
Unfolded(s, i, w, f) ==
  /\ MatchEnd(s, i) = 0 => /\ i + 1 \in (i + 1)..(Len(s) + 1) /\ f[i + 1] \in Seq(Tokens)
                           /\ f[i] = <<s[i]>> \o f[i + 1]
                           /\ ReferencesFrom(s)[i] = ReferencesFrom(s)[i + 1]
  /\ MatchEnd(s, i) # 0 =>
       /\ MatchEnd(s, i) + 1 \in (i + 1)..(Len(s) + 1) /\ f[MatchEnd(s, i) + 1] \in Seq(Tokens)
       /\ Shape(RefAt(s, i)) /\ RefAt(s, i) \in Seq(Tokens)
       /\ f[i] = w[RefAt(s, i)] \o f[MatchEnd(s, i) + 1]
       /\ \A D : Among(ReferencesFrom(s)[i], D) <=>
                   RefAt(s, i) \in D /\ Among(ReferencesFrom(s)[MatchEnd(s, i) + 1], D)

\* It is so for each position.
LEMMA Unfold ==
  ASSUME NEW s \in Seq(Tokens), NEW i \in 1..Len(s), NEW w, NEW f, Filled(s, w, f)
  PROVE  Unfolded(s, i, w, f)
<1>1. PICK n \in Nat : n = Len(s)
  OBVIOUS
<1>2. /\ TextNext(s) \in [1..n -> 1..(n + 1)] /\ \A j \in 1..n : TextNext(s)[j] > j
  BY <1>1, TextFits
<1>3. /\ f \in [1..(n + 1) -> Seq(Tokens)] /\ f[i] = TextPieces(s, w)[i] \o f[TextNext(s)[i]]
  BY <1>1 DEF Filled, Chained
<1>4. /\ ReferencesFrom(s) \in [1..(n + 1) -> Seq(Seq(Tokens))]
      /\ ReferencesFrom(s)[i] = RefPieces(s)[i] \o ReferencesFrom(s)[TextNext(s)[i]]
  BY <1>1, ReferencesIs DEF Chained
<1>5. TextNext(s)[i] \in (i + 1)..(n + 1) /\ TextNext(s)[i] \in 1..(n + 1)
  <2>1. i \in 1..n
    BY <1>1
  <2> QED BY <1>2, <2>1
<1>6. f[TextNext(s)[i]] \in Seq(Tokens) /\ ReferencesFrom(s)[TextNext(s)[i]] \in Seq(Seq(Tokens))
  BY ONLY <1>3, <1>4, <1>5
<1>7. CASE MatchEnd(s, i) = 0
  <2>1. TextNext(s)[i] = i + 1 /\ TextPieces(s, w)[i] = <<s[i]>> /\ RefPieces(s)[i] = <<>>
    BY <1>7 DEF TextNext, TextPieces, RefPieces
  <2>2. ReferencesFrom(s)[i] = ReferencesFrom(s)[i + 1]
    BY ONLY <1>4, <1>6, <2>1, ConcatEmptySeq
  <2> QED BY ONLY <1>1, <1>3, <1>5, <1>6, <1>7, <2>1, <2>2 DEF Unfolded
<1>8. CASE MatchEnd(s, i) # 0
  <2>1. /\ TextNext(s)[i] = MatchEnd(s, i) + 1 /\ TextPieces(s, w)[i] = w[RefAt(s, i)]
        /\ RefPieces(s)[i] = <<RefAt(s, i)>>
    BY <1>8 DEF TextNext, TextPieces, RefPieces
  <2>2. Shape(RefAt(s, i)) /\ RefAt(s, i) \in Seq(Tokens)
    BY <1>8, MatchIs DEF Shape
  <2>3. ReferencesFrom(s)[i] = <<RefAt(s, i)>> \o ReferencesFrom(s)[MatchEnd(s, i) + 1]
    BY ONLY <1>4, <2>1
  <2>4. \A D : Among(ReferencesFrom(s)[i], D) <=>
                 RefAt(s, i) \in D /\ Among(ReferencesFrom(s)[MatchEnd(s, i) + 1], D)
    BY ONLY <1>6, <2>1, <2>2, <2>3, AmongCons
  <2> QED BY ONLY <1>1, <1>3, <1>5, <1>6, <1>8, <2>1, <2>2, <2>4 DEF Unfolded
<1> QED BY <1>7, <1>8

\* A text with its references for themselves is the text.
LEMMA FillNothing ==
  ASSUME NEW s \in Seq(Tokens)
  PROVE  \E f : Filled(s, [q \in Seq(Tokens) |-> q], f) /\ s = f[1]
<1> DEFINE w == [q \in Seq(Tokens) |-> q]
<1>1. PICK n \in Nat : n = Len(s)
  OBVIOUS
<1>2. w \in [Seq(Tokens) -> Seq(Tokens)] /\ \A q \in Seq(Tokens) : w[q] = q
  OBVIOUS
<1> HIDE DEF w
<1>3. PICK f : Filled(s, w, f)
  <2>1. TextPieces(s, w) \in [1..Len(s) -> Seq(Tokens)]
    BY <1>2, TextFits
  <2> QED BY <2>1, TextFits, ChainExists DEF Filled
<1> DEFINE P == {i \in 1..(n + 1) : f[i] = SubSeq(s, i, n)}
<1>4. ASSUME NEW i \in 1..(n + 1), \A j \in (i + 1)..(n + 1) : j \in P PROVE i \in P
  <2>1. CASE i = n + 1
    <3>1. f[i] = <<>> /\ SubSeq(s, i, n) = <<>>
      BY <1>1, <1>3, <2>1 DEF Filled, Chained
    <3> QED BY <3>1
  <2>2. CASE i \in 1..n
    <3>1. i \in 1..Len(s)
      BY <1>1, <2>2
    <3>2. Unfolded(s, i, w, f)
      BY ONLY <1>3, <3>1, Unfold, s \in Seq(Tokens)
    <3>3. CASE MatchEnd(s, i) = 0
      <4>1. f[i] = <<s[i]>> \o f[i + 1] /\ i + 1 \in (i + 1)..(n + 1)
        BY ONLY <1>1, <3>2, <3>3 DEF Unfolded
      <4>2. f[i + 1] = SubSeq(s, i + 1, n)
        BY <1>4, <4>1
      <4>3. <<s[i]>> \o SubSeq(s, i + 1, n) = SubSeq(s, i, n)
        BY <1>1, <2>2, SubSeqRecursiveFirst
      <4> QED BY ONLY <4>1, <4>2, <4>3, i \in 1..(n + 1)
    <3>4. CASE MatchEnd(s, i) # 0
      <4>1. PICK e \in Nat : /\ e = MatchEnd(s, i) /\ e \in (i + 1)..n
                             /\ f[i] = w[RefAt(s, i)] \o f[e + 1] /\ RefAt(s, i) \in Seq(Tokens)
        <5>1. MatchEnd(s, i) \in (i + 1)..n
          BY ONLY <1>1, <3>1, <3>4, MatchIs, s \in Seq(Tokens)
        <5>2. /\ f[i] = w[RefAt(s, i)] \o f[MatchEnd(s, i) + 1] /\ RefAt(s, i) \in Seq(Tokens)
          BY ONLY <3>2, <3>4 DEF Unfolded
        <5>3. \A e \in (i + 1)..n : e \in Nat
          BY <2>2
        <5> QED BY ONLY <5>1, <5>2, <5>3
      <4>2. f[e + 1] = SubSeq(s, e + 1, n)
        BY <1>4, <4>1
      <4>3. w[RefAt(s, i)] = SubSeq(s, i, e)
        BY <1>2, <4>1 DEF RefAt
      <4>4. SubSeq(s, i, e) \o SubSeq(s, e + 1, n) = SubSeq(s, i, n)
        <5>1. i \in 1..(Len(s) + 1) /\ e \in (i - 1)..Len(s) /\ n \in e..Len(s)
          BY <1>1, <2>2, <4>1
        <5> QED BY ONLY <5>1, ConcatAdjacentSubSeq, s \in Seq(Tokens)
      <4> QED BY ONLY <4>1, <4>2, <4>3, <4>4, i \in 1..(n + 1)
    <3> QED BY <3>3, <3>4
  <2> QED BY <2>1, <2>2
<1>5. f[1] = s
  <2>1. 1 \in P
    <3> HIDE DEF P
    <3>1. \A i \in 1..(n + 1) : i \in P
      BY <1>4, FromTheEnd
    <3> QED BY <3>1
  <2> QED BY <1>1, <2>1
<1> QED BY <1>3, <1>5 DEF w

\* Where no "}" follows, none does whatever the references stand for.
LEMMA NoBrace ==
  ASSUME NEW s \in Seq(Tokens), NEW w, NEW f, Filled(s, w, f), NEW d \in 1..(Len(s) + 1),
         \A j \in d..Len(s) : ~Closes(s[j])
  PROVE  f[d] \in Seq(Tokens) /\ \A k \in 1..Len(f[d]) : ~Closes(f[d][k])
<1>1. PICK n \in Nat : n = Len(s)
  OBVIOUS
<1>2. f \in [1..(n + 1) -> Seq(Tokens)] /\ f[n + 1] = <<>>
  BY <1>1 DEF Filled, Chained
<1> DEFINE P == {i \in 1..(n + 1) : i >= d => \A k \in 1..Len(f[i]) : ~Closes(f[i][k])}
<1>3. ASSUME NEW i \in 1..(n + 1), \A j \in (i + 1)..(n + 1) : j \in P PROVE i \in P
  <2>1. CASE i = n + 1
    <3>1. 1..Len(f[i]) = {}
      BY <1>2, <2>1
    <3> QED BY <3>1
  <2>2. CASE i \in 1..n /\ i >= d
    <3>1. i \in 1..Len(s) /\ ~Closes(s[i]) /\ i + 1 >= d /\ s[i] \in Tokens
      BY <1>1, <2>2
    <3>2. Unfolded(s, i, w, f)
      BY ONLY <3>1, Filled(s, w, f), Unfold, s \in Seq(Tokens)
    <3>3. CASE MatchEnd(s, i) # 0
      <4>1. MatchEnd(s, i) \in (i + 1)..Len(s) /\ Shape(RefAt(s, i)) /\ RefAt(s, i) \in Seq(Tokens)
        BY ONLY <3>1, <3>2, <3>3, MatchIs, s \in Seq(Tokens) DEF Unfolded
      <4>2. PICK e \in d..n : e = MatchEnd(s, i) /\ i < e /\ i \in Nat
        BY <1>1, <2>2, <4>1
      <4>3. Closes(s[e])
        <5>1. /\ RefAt(s, i) = SubSeq(s, i, e) /\ Len(SubSeq(s, i, e)) = e - i + 1
              /\ SubSeq(s, i, e)[e - i + 1] = s[e]
          BY <1>1, <2>2, <4>2 DEF RefAt
        <5>2. Closes(RefAt(s, i)[Len(RefAt(s, i))])
          BY <4>1 DEF Shape
        <5> QED BY ONLY <5>1, <5>2
      <4> QED BY <1>1, <4>2, <4>3
    <3>4. CASE MatchEnd(s, i) = 0
      <4>1. /\ i + 1 \in (i + 1)..(n + 1) /\ f[i] = <<s[i]>> \o f[i + 1] /\ f[i + 1] \in Seq(Tokens)
        BY ONLY <1>1, <3>2, <3>4 DEF Unfolded
      <4>2. \A k \in 1..Len(f[i + 1]) : ~Closes(f[i + 1][k])
        BY <1>3, <3>1, <4>1
      <4>3. PICK t \in Seq(Tokens) : t = f[i + 1]
        BY <4>1
      <4>4. \A k \in 1..Len(<<s[i]>> \o t) : ~Closes((<<s[i]>> \o t)[k])
        <5>1. /\ Len(<<s[i]>> \o t) = Len(t) + 1 /\ (<<s[i]>> \o t)[1] = s[i]
              /\ \A k \in 1..Len(t) : (<<s[i]>> \o t)[k + 1] = t[k]
          BY <3>1
        <5>2. \A k \in 1..(Len(t) + 1) : k = 1 \/ (k - 1 \in 1..Len(t) /\ k - 1 + 1 = k)
          OBVIOUS
        <5> QED BY ONLY <3>1, <4>2, <4>3, <5>1, <5>2
      <4> QED BY ONLY <4>1, <4>3, <4>4, i \in 1..(n + 1)
    <3> QED BY <3>3, <3>4
  <2>3. CASE ~(i >= d)
    BY <2>3
  <2> QED BY <2>1, <2>2, <2>3
<1>4. d \in P
  <2> HIDE DEF P
  <2>1. \A i \in 1..(n + 1) : i \in P
    BY <1>3, FromTheEnd
  <2> QED BY <1>1, <2>1
<1> QED BY <1>1, <1>2, <1>4

\* A token that begins no reference begins none either after the references
\* that follow it are replaced, unless it is a name before another name.
LEMMA NoneBegins ==
  ASSUME NEW s \in Seq(Tokens), ~Nested(s), NEW w, NEW f, Filled(s, w, f),
         NEW i \in 1..Len(s), MatchEnd(s, i) = 0, NEW r, Shape(r)
  PROVE  ~IsPrefix(r, <<s[i]>> \o f[i + 1])
<1> SUFFICES ASSUME IsPrefix(r, <<s[i]>> \o f[i + 1]) PROVE FALSE
  OBVIOUS
<1>1. PICK n \in Nat : n = Len(s)
  OBVIOUS
<1>2. /\ i + 1 \in 1..(n + 1) /\ s[i] \in Tokens
  BY <1>1
<1>3. f \in [1..(n + 1) -> Seq(Tokens)]
  BY <1>1 DEF Filled, Chained
<1>4. PICK t \in Seq(Tokens) : t = f[i + 1]
  BY <1>2, <1>3
<1>5. PICK m \in Nat : /\ m = Len(r) /\ m > 1 /\ r \in Seq(Tokens) /\ r[1] \in VariableNames
                       /\ GoesOn(r[2]) /\ Closes(r[m])
  BY DEF Shape
<1>6. m <= Len(t) + 1 /\ r[1] = s[i] /\ \A k \in 2..m : r[k] = t[k - 1]
  <2>1. /\ <<s[i]>> \o t \in Seq(Tokens) /\ Len(<<s[i]>> \o t) = Len(t) + 1 /\ (<<s[i]>> \o t)[1] = s[i]
        /\ \A k \in 1..Len(t) : (<<s[i]>> \o t)[k + 1] = t[k]
    BY <1>2
  <2>2. m <= Len(t) + 1 /\ \A k \in 1..m : r[k] = (<<s[i]>> \o t)[k]
    <3>1. PICK x \in Seq(Tokens) : x = <<s[i]>> \o t
      BY <2>1
    <3>2. IsPrefix(r, x)
      BY ONLY <1>4, <3>1, IsPrefix(r, <<s[i]>> \o f[i + 1])
    <3>3. Len(r) <= Len(x) /\ \A k \in 1..Len(r) : r[k] = x[k]
      BY ONLY <1>5, <3>2, PrefixIs, x \in Seq(Tokens)
    <3> QED BY ONLY <1>5, <2>1, <3>1, <3>3
  <2>3. 1 \in 1..m /\ \A k \in 2..m : k \in 1..m /\ k - 1 \in 1..Len(t) /\ k - 1 + 1 = k
    BY <1>5, <2>2
  <2> QED BY ONLY <2>1, <2>2, <2>3
<1>7. CASE \A j \in (i + 1)..n : ~Closes(s[j])
  <2>1. \A k \in 1..Len(t) : ~Closes(t[k])
    BY ONLY <1>1, <1>2, <1>4, <1>7, NoBrace, s \in Seq(Tokens), Filled(s, w, f)
  <2>2. m \in 2..m /\ m - 1 \in 1..Len(t)
    BY <1>5, <1>6
  <2> QED BY ONLY <1>5, <1>6, <2>1, <2>2
<1>8. CASE i + 1 \in 1..n /\ ~GoesOn(s[i + 1]) /\ s[i] \in VariableNames
  <2>1. s[i + 1] \notin VariableNames
    <3>1. i \in DOMAIN s /\ i < Len(s)
      BY <1>1, <1>8
    <3> QED BY <1>8, <3>1 DEF Nested
  <2>2. Unfolded(s, i + 1, w, f)
    BY ONLY <1>1, <1>8, Filled(s, w, f), Unfold, s \in Seq(Tokens)
  <2>3. MatchEnd(s, i + 1) = 0
    BY ONLY <1>1, <1>8, <2>1, MatchIs, s \in Seq(Tokens)
  <2>4. t = <<s[i + 1]>> \o f[i + 1 + 1] /\ f[i + 1 + 1] \in Seq(Tokens)
    BY ONLY <1>4, <2>2, <2>3 DEF Unfolded
  <2>5. t[1] = s[i + 1]
    BY <2>4
  <2>6. 2 \in 2..m /\ 2 - 1 = 1
    BY <1>5
  <2> QED BY ONLY <1>5, <1>6, <1>8, <2>5, <2>6
<1>9. s[i] \in VariableNames
  BY ONLY <1>5, <1>6
<1> QED BY ONLY <1>1, <1>7, <1>8, <1>9, MatchIs, MatchEnd(s, i) = 0, s \in Seq(Tokens), i \in 1..Len(s)

\* No reference begins another.
LEMMA RefsDiffer ==
  ASSUME NEW r, NEW q, Shape(r), Shape(q), NEW u \in Seq(Tokens), IsPrefix(r, q \o u)
  PROVE  r = q
<1>1. PICK m \in Nat : /\ m = Len(r) /\ m > 1 /\ r \in Seq(Tokens) /\ Closes(r[m])
                       /\ \A j \in 2..(m - 1) : ~Closes(r[j])
  BY DEF Shape
<1>2. PICK k \in Nat : /\ k = Len(q) /\ k > 1 /\ q \in Seq(Tokens) /\ Closes(q[k])
                       /\ \A j \in 2..(k - 1) : ~Closes(q[j])
  BY DEF Shape
<1>3. \A j \in 1..m : j <= k => r[j] = q[j]
  <2>1. q \o u \in Seq(Tokens) /\ \A j \in 1..k : (q \o u)[j] = q[j]
    BY <1>2
  <2>2. \A j \in 1..m : r[j] = (q \o u)[j]
    <3>1. PICK x \in Seq(Tokens) : x = q \o u
      BY <2>1
    <3>2. IsPrefix(r, x)
      BY ONLY <3>1, IsPrefix(r, q \o u)
    <3>3. \A j \in 1..Len(r) : r[j] = x[j]
      BY ONLY <1>1, <3>2, PrefixIs, x \in Seq(Tokens)
    <3> QED BY ONLY <1>1, <3>1, <3>3
  <2>3. \A j \in 1..m : j <= k => j \in 1..k
    BY ONLY m \in Nat, k \in Nat
  <2> QED BY ONLY <2>1, <2>2, <2>3
<1>4. ~(m < k)
  <2> SUFFICES ASSUME m < k PROVE FALSE
    OBVIOUS
  <2>1. m \in 1..m /\ m <= k /\ m \in 2..(k - 1)
    BY <1>1, <1>2
  <2> QED BY ONLY <1>1, <1>2, <1>3, <2>1
<1>5. ~(k < m)
  <2> SUFFICES ASSUME k < m PROVE FALSE
    OBVIOUS
  <2>1. k \in 1..m /\ k <= k /\ k \in 2..(m - 1)
    BY <1>1, <1>2
  <2> QED BY ONLY <1>1, <1>2, <1>3, <2>1
<1>6. m = k /\ \A j \in 1..m : j <= k
  BY ONLY <1>4, <1>5, m \in Nat, k \in Nat
<1>7. \A j \in 1..m : r[j] = q[j]
  BY ONLY <1>3, <1>6
<1> QED BY ONLY <1>1, <1>2, <1>6, <1>7, SeqEqual

\* The tails that contain no reference.
PlainTails == {q \in Seq(Tokens) : NoReference(Tail(q))}

\* Some references stand for themselves and the others for texts without one,
\* r for itself or v; in x as in w, but for r, which stands for v; and what
\* replacing r makes of one text is the other.
Partly(w, r, v) == /\ w[r] = r \/ w[r] = v
                   /\ \A q \in Seq(Tokens) : w[q] = q \/ NoReference(w[q])
AndAlso(w, r, v, x) == x[r] = v /\ \A q \in Seq(Tokens) : q # r => x[q] = w[q]
Becomes(f, r, v, g) == Replaced(f[1], r, v) = g[1]

\* Replacing one more reference in a text some of whose references are
\* replaced: it is replaced where it stands, and nowhere else.
LEMMA OnePass ==
  ASSUME NEW s \in Seq(Tokens), ~Nested(s), Among(References(s), PlainTails),
         NEW r, Shape(r), NEW v \in Seq(Tokens), NoReference(v),
         NEW w \in [Seq(Tokens) -> Seq(Tokens)], Partly(w, r, v),
         NEW w2, AndAlso(w, r, v, w2),
         NEW f, Filled(s, w, f), NEW g, Filled(s, w2, g)
  PROVE  Becomes(f, r, v, g)
<1>1. PICK n \in Nat : n = Len(s)
  OBVIOUS
<1>2. /\ f \in [1..(n + 1) -> Seq(Tokens)] /\ f[n + 1] = <<>>
      /\ g \in [1..(n + 1) -> Seq(Tokens)] /\ g[n + 1] = <<>>
  BY <1>1 DEF Filled, Chained
<1>3. r \in Seq(Tokens) /\ Len(r) > 0 /\ r[1] \in VariableNames
  BY DEF Shape
<1> DEFINE P == {i \in 1..(n + 1) : Among(ReferencesFrom(s)[i], PlainTails) => Replaced(f[i], r, v) = g[i]}
<1>4. w2[r] = v /\ \A q \in Seq(Tokens) : q # r => w2[q] = w[q]
  BY DEF AndAlso
<1>5. /\ Filled(s, w2, g) /\ (w[r] = r \/ w[r] = v)
      /\ \A q \in Seq(Tokens) : w[q] = q \/ NoReference(w[q])
  BY DEF Partly
<1>6. ASSUME NEW o \in Seq(Tokens), NoReference(o), NEW u \in Seq(Tokens)
      PROVE  Replaced(o \o u, r, v) = o \o Replaced(u, r, v)
  <2>1. Lacks(o, r[1])
    BY <1>3, <1>6 DEF NoReference, Lacks
  <2>2. r \in Seq(Tokens) /\ Len(r) > 0
    BY <1>3
  <2>3. Kept(o, r, v, u)
    BY ONLY <2>1, <2>2, PartStays, v \in Seq(Tokens), o \in Seq(Tokens), u \in Seq(Tokens)
  <2> QED BY ONLY <2>3 DEF Kept
<1>7. ASSUME NEW u \in Seq(Tokens)
      PROVE  /\ Replaced(u, r, v) \in Seq(Tokens) /\ Replaced(r \o u, r, v) = v \o Replaced(u, r, v)
             /\ TokenStays(Tokens, r, v, u)
  BY ONLY <1>3, ReplacedFirst, v \in Seq(Tokens), u \in Seq(Tokens)
<1>8. ASSUME NEW i \in 1..n, \A j \in (i + 1)..(n + 1) : j \in P,
             Among(ReferencesFrom(s)[i], PlainTails)
      PROVE  Replaced(f[i], r, v) = g[i]
  <2>1. i \in 1..Len(s) /\ s[i] \in Tokens
    BY <1>1
  <2>2. Unfolded(s, i, w, f) /\ Unfolded(s, i, w2, g)
    BY ONLY <2>1, Filled(s, w, f), Filled(s, w2, g), Unfold, s \in Seq(Tokens)
  <2>3. CASE MatchEnd(s, i) = 0
    <3>1. /\ i + 1 \in (i + 1)..(n + 1) /\ f[i + 1] \in Seq(Tokens)
          /\ f[i] = <<s[i]>> \o f[i + 1] /\ g[i] = <<s[i]>> \o g[i + 1]
          /\ ReferencesFrom(s)[i] = ReferencesFrom(s)[i + 1]
      BY ONLY <1>1, <2>2, <2>3 DEF Unfolded
    <3>2. Replaced(f[i + 1], r, v) = g[i + 1]
      BY <1>8, <3>1
    <3>3. ~IsPrefix(r, <<s[i]>> \o f[i + 1])
      BY ONLY <2>1, <2>3, NoneBegins, s \in Seq(Tokens), ~Nested(s), Filled(s, w, f), Shape(r)
    <3>4. TokenStays(Tokens, r, v, f[i + 1])
      BY <1>7, <3>1
    <3> QED BY ONLY <2>1, <3>1, <3>2, <3>3, <3>4 DEF TokenStays
  <2>4. CASE MatchEnd(s, i) # 0
    <3>1. PICK q, d, u : q = RefAt(s, i) /\ d = MatchEnd(s, i) + 1 /\ u = f[d]
      OBVIOUS
    <3>2. /\ d \in (i + 1)..(n + 1) /\ u \in Seq(Tokens) /\ q \in Seq(Tokens) /\ Shape(q)
          /\ f[i] = w[q] \o u /\ g[i] = w2[q] \o g[d]
          /\ q \in PlainTails /\ Among(ReferencesFrom(s)[d], PlainTails)
      BY ONLY <1>1, <1>8, <2>2, <2>4, <3>1 DEF Unfolded
    <3>3. Replaced(u, r, v) = g[d]
      BY ONLY <1>8, <3>1, <3>2
    <3>4. CASE NoReference(w[q]) /\ w2[q] = w[q]
      <4>1. w[q] \in Seq(Tokens)
        BY <3>2
      <4>2. Replaced(w[q] \o u, r, v) = w[q] \o Replaced(u, r, v)
        BY ONLY <1>6, <3>2, <3>4, <4>1
      <4> QED BY ONLY <3>2, <3>3, <3>4, <4>2
    <3>5. CASE q = r
      <4>1. CASE w[r] = r
        <5>1. Replaced(r \o u, r, v) = v \o Replaced(u, r, v)
          BY ONLY <1>7, <3>2
        <5> QED BY ONLY <1>4, <3>2, <3>3, <3>5, <4>1, <5>1
      <4>2. CASE w[r] = v
        BY <1>4, <3>4, <3>5, <4>2
      <4> QED BY <1>5, <4>1, <4>2
    <3>6. CASE q # r /\ w[q] = q
      <4>1. PICK t \in Seq(Tokens), a \in Tokens : NoReference(t) /\ q = <<a>> \o t
        <5>1. /\ Tail(q) \in Seq(Tokens) /\ NoReference(Tail(q)) /\ q[1] \in Tokens
              /\ q = <<q[1]>> \o Tail(q)
          BY <3>2 DEF PlainTails, Shape
        <5> QED BY ONLY <5>1
      <4>2. PICK x \in Seq(Tokens) : x = t \o u
        BY ONLY <3>2, ConcatProperties, t \in Seq(Tokens)
      <4>3. PICK y \in Seq(Tokens) : y = Replaced(u, r, v)
        BY <1>7, <3>2
      <4>4. <<a>> \in Seq(Tokens)
        OBVIOUS
      <4>5. q \o u = <<a>> \o x
        <5>1. PICK z \in Seq(Tokens) : z = <<a>>
          BY <4>4
        <5>2. (z \o t) \o u = z \o (t \o u)
          <6>1. u \in Seq(Tokens)
            BY ONLY <3>2
          <6> QED BY ONLY <6>1, t \in Seq(Tokens), z \in Seq(Tokens)
        <5> QED BY ONLY <4>1, <4>2, <5>1, <5>2
      <4>6. ~IsPrefix(r, <<a>> \o x)
        BY ONLY <3>2, <3>6, <4>5, RefsDiffer, Shape(r)
      <4>7. Replaced(<<a>> \o x, r, v) = <<a>> \o Replaced(x, r, v)
        <5>1. TokenStays(Tokens, r, v, x)
          BY <1>7
        <5> QED BY ONLY <4>6, <5>1, a \in Tokens DEF TokenStays
      <4>8. Replaced(x, r, v) = t \o y
        BY ONLY <1>6, <3>2, <4>1, <4>2, <4>3, t \in Seq(Tokens)
      <4>9. <<a>> \o (t \o y) = q \o y
        <5>1. PICK z \in Seq(Tokens) : z = <<a>>
          BY <4>4
        <5>2. (z \o t) \o y = z \o (t \o y)
          BY ONLY t \in Seq(Tokens), y \in Seq(Tokens), z \in Seq(Tokens)
        <5> QED BY ONLY <4>1, <5>1, <5>2
      <4>10. w2[q] = q
        BY <1>4, <3>2, <3>6
      <4> QED BY ONLY <3>2, <3>3, <3>6, <4>3, <4>5, <4>7, <4>8, <4>9, <4>10
    <3>7. q # r => w2[q] = w[q]
      BY <1>4, <3>2
    <3> QED BY <1>5, <3>2, <3>4, <3>5, <3>6, <3>7
  <2> QED BY <2>3, <2>4
<1>9. ASSUME NEW i \in 1..(n + 1), \A j \in (i + 1)..(n + 1) : j \in P PROVE i \in P
  <2>1. CASE i = n + 1
    <3>1. Replaced(<<>>, r, v) = <<>>
      BY ONLY <1>3, ReplacedInNothing, v \in Seq(Tokens)
    <3> QED BY ONLY <1>2, <2>1, <3>1, i \in 1..(n + 1)
  <2>2. CASE i \in 1..n
    BY ONLY <1>8, <1>9, <2>2, i \in 1..(n + 1)
  <2> QED BY <2>1, <2>2
<1>10. 1 \in P
  <2> HIDE DEF P
  <2>1. \A i \in 1..(n + 1) : i \in P
    BY <1>9, FromTheEnd
  <2> QED BY <2>1
<1>11. Among(ReferencesFrom(s)[1], PlainTails)
  BY ReferencesIs
<1> QED BY <1>10, <1>11 DEF Becomes

\* Every reference of a text has the shape of one.
LEMMA RefsShaped ==
  ASSUME NEW s \in Seq(Tokens)
  PROVE  References(s) \in Seq(Seq(Tokens)) /\ \A k \in 1..Len(References(s)) : Shape(References(s)[k])
<1> DEFINE shaped == {q \in Seq(Tokens) : Shape(q)}
<1>1. PICK n \in Nat : n = Len(s)
  OBVIOUS
<1>2. PICK w, f : Filled(s, w, f)
  BY FillNothing
<1>3. /\ ReferencesFrom(s) \in [1..(n + 1) -> Seq(Seq(Tokens))] /\ ReferencesFrom(s)[n + 1] = <<>>
      /\ References(s) = ReferencesFrom(s)[1]
  BY <1>1, ReferencesIs DEF Chained
<1> DEFINE P == {i \in 1..(n + 1) : Among(ReferencesFrom(s)[i], shaped)}
<1>4. \A q : Shape(q) => q \in shaped
  BY DEF Shape
<1> HIDE DEF shaped
<1>5. ASSUME NEW i \in 1..(n + 1), \A j \in (i + 1)..(n + 1) : j \in P PROVE i \in P
  <2>1. CASE i = n + 1
    <3>1. DOMAIN <<>> = {}
      OBVIOUS
    <3> QED BY ONLY <1>3, <2>1, <3>1, i \in 1..(n + 1) DEF Among
  <2>2. CASE i \in 1..n
    <3>1. Unfolded(s, i, w, f)
      BY ONLY <1>1, <1>2, <2>2, Unfold, s \in Seq(Tokens)
    <3>2. CASE MatchEnd(s, i) = 0
      BY ONLY <1>1, <1>5, <3>1, <3>2, i \in 1..(n + 1) DEF Unfolded
    <3>3. CASE MatchEnd(s, i) # 0
      BY ONLY <1>1, <1>4, <1>5, <3>1, <3>3, i \in 1..(n + 1) DEF Unfolded
    <3> QED BY <3>2, <3>3
  <2> QED BY <2>1, <2>2
<1>6. 1 \in P
  <2> HIDE DEF P
  <2>1. \A i \in 1..(n + 1) : i \in P
    BY <1>5, FromTheEnd
  <2> QED BY <2>1
<1>7. References(s) \in Seq(Seq(Tokens))
  <2>1. 1 \in 1..(n + 1)
    OBVIOUS
  <2> QED BY ONLY <1>3, <2>1
<1>8. DOMAIN References(s) = 1..Len(References(s))
  <2>1. PICK Q : Q = Seq(Tokens)
    OBVIOUS
  <2>2. References(s) \in Seq(Q)
    BY ONLY <1>7, <2>1
  <2> QED BY ONLY <2>2, LenProperties
<1> QED BY <1>3, <1>6, <1>7, <1>8 DEF Among, shaped

\* Texts for whose references the same is put are the same.
LEMMA FillsAgree ==
  ASSUME NEW s \in Seq(Tokens), NEW w, NEW f, Filled(s, w, f), NEW x, NEW g, Filled(s, x, g),
         \A k \in 1..Len(References(s)) : w[References(s)[k]] = x[References(s)[k]]
  PROVE  f[1] = g[1]
<1> DEFINE same == {q \in Seq(Tokens) : w[q] = x[q]}
<1>1. PICK n \in Nat : n = Len(s)
  OBVIOUS
<1>2. f[n + 1] = <<>> /\ g[n + 1] = <<>>
  BY <1>1 DEF Filled, Chained
<1>3. Among(ReferencesFrom(s)[1], same)
  <2>1. \A k \in DOMAIN References(s) : References(s)[k] \in same
    <3>1. PICK Q : Q = Seq(Tokens)
      OBVIOUS
    <3>2. References(s) \in Seq(Q)
      BY ONLY <3>1, RefsShaped, s \in Seq(Tokens)
    <3>3. DOMAIN References(s) = 1..Len(References(s)) /\ \A k \in 1..Len(References(s)) : References(s)[k] \in Q
      BY ONLY <3>2, LenProperties, ElementOfSeq
    <3> QED BY <3>1, <3>3
  <2> QED BY ONLY <2>1, ReferencesIs, s \in Seq(Tokens) DEF Among
<1> DEFINE P == {i \in 1..(n + 1) : Among(ReferencesFrom(s)[i], same) => f[i] = g[i]}
<1>4. \A q \in same : w[q] = x[q]
  OBVIOUS
<1> HIDE DEF same
<1>5. ASSUME NEW i \in 1..(n + 1), \A j \in (i + 1)..(n + 1) : j \in P PROVE i \in P
  <2>1. CASE i = n + 1
    BY ONLY <1>2, <2>1, i \in 1..(n + 1)
  <2>2. CASE i \in 1..n
    <3>1. Unfolded(s, i, w, f) /\ Unfolded(s, i, x, g)
      BY ONLY <1>1, <2>2, Unfold, s \in Seq(Tokens), Filled(s, w, f), Filled(s, x, g)
    <3>2. CASE MatchEnd(s, i) = 0
      BY ONLY <1>1, <1>5, <3>1, <3>2, i \in 1..(n + 1) DEF Unfolded
    <3>3. CASE MatchEnd(s, i) # 0
      BY ONLY <1>1, <1>4, <1>5, <3>1, <3>3, i \in 1..(n + 1) DEF Unfolded
    <3> QED BY <3>2, <3>3
  <2> QED BY <2>1, <2>2
<1>6. 1 \in P
  <2> HIDE DEF P
  <2>1. \A i \in 1..(n + 1) : i \in P
    BY <1>5, FromTheEnd
  <2> QED BY <2>1
<1> QED BY <1>3, <1>6

-----------------------------------------------------------------------------
(* The invariant.                                                           *)

\* ValueOf, and whether there is one, in a given environment.
ValueIn(env, ref) == IF ref[1] \in DOMAIN env THEN env[ref[1]] ELSE DefaultOf(ref)
HasValue(env, ref) == ref[1] \in DOMAIN env \/ HasDefault(ref)

\* What stands for each reference at the end, and once the first k references
\* are replaced.
Values(env) == [q \in Seq(Tokens) |-> ValueIn(env, q)]
FirstValues(s, env, k) ==
  [q \in Seq(Tokens) |-> IF HasValue(env, q) /\ \E i \in 1..k : References(s)[i] = q
                         THEN ValueIn(env, q) ELSE q]

\* What ResolvesOnce supposes.
Simple(s, env) ==
  /\ ~Nested(s) /\ \A name \in DOMAIN env : NoReference(env[name])
  /\ \A i \in DOMAIN References(s) : NoReference(Tail(References(s)[i]))

\* The first k references of s are dealt with.
Reached(s, env, k, rest, res, undef) ==
  /\ k \in 0..Len(References(s)) /\ rest = SubSeq(References(s), k + 1, Len(References(s)))
  /\ undef = {name \in VariableNames : \E i \in 1..k : /\ References(s)[i][1] = name
                                                       /\ ~HasValue(env, References(s)[i])}
  /\ Simple(s, env) => \E f : Filled(s, FirstValues(s, env, k), f) /\ res = f[1]

\* The inductive invariant: some of the references are dealt with, and the
\* text so far is the input with their values where they stand.
ResolverInv ==
  /\ text \in Texts /\ variables \in Environments
  /\ \E k \in 0..Len(References(text)) : Reached(text, variables, k, matches, result, undefined)

\* The values of references are texts, without a reference if the input is simple.
LEMMA ValuesTyped ==
  ASSUME NEW env \in Environments
  PROVE  /\ \A q \in Seq(Tokens) : ValueIn(env, q) \in Seq(Tokens)
         /\ Values(env) \in [Seq(Tokens) -> Seq(Tokens)]
         /\ \A s, k : FirstValues(s, env, k) \in [Seq(Tokens) -> Seq(Tokens)]
<1>1. ASSUME NEW q \in Seq(Tokens) PROVE ValueIn(env, q) \in Seq(Tokens)
  <2>1. \A name \in DOMAIN env : env[name] \in Seq(Tokens)
    BY VariableAssumption
  <2>2. SubSeq(q, 3, Len(q) - 1) \in Seq(Tokens)
    <3>1. Len(q) \in Nat /\ \A i \in 3..(Len(q) - 1) : i \in 1..Len(q)
      OBVIOUS
    <3>2. 3 \in Int /\ Len(q) - 1 \in Int /\ \A i \in 3..(Len(q) - 1) : q[i] \in Tokens
      BY <3>1
    <3> QED BY ONLY <3>2, SubSeqProperties
  <2> QED BY ONLY <2>1, <2>2 DEF ValueIn, DefaultOf
<1>2. Values(env) \in [Seq(Tokens) -> Seq(Tokens)]
  BY <1>1 DEF Values
<1>3. ASSUME NEW s, NEW k PROVE FirstValues(s, env, k) \in [Seq(Tokens) -> Seq(Tokens)]
  BY <1>1 DEF FirstValues
<1> QED BY <1>1, <1>2, <1>3

\* There is a text with any values for its references.
LEMMA FillExists ==
  ASSUME NEW s \in Seq(Tokens), NEW w \in [Seq(Tokens) -> Seq(Tokens)]
  PROVE  \E f : Filled(s, w, f)
<1>1. TextPieces(s, w) \in [1..Len(s) -> Seq(Tokens)]
  BY TextFits
<1> QED BY <1>1, TextFits, ChainExists DEF Filled

\* References has references.
LEMMA RefIs ==
  ASSUME NEW s \in Seq(Tokens)
  PROVE  /\ Len(References(s)) \in Nat /\ DOMAIN References(s) = 1..Len(References(s))
         /\ \A i \in 1..Len(References(s)) : /\ References(s)[i] \in Seq(Tokens)
                                             /\ Shape(References(s)[i])
<1>1. PICK Q : Q = Seq(Tokens)
  OBVIOUS
<1>2. References(s) \in Seq(Q) /\ \A i \in 1..Len(References(s)) : Shape(References(s)[i])
  BY ONLY <1>1, RefsShaped, s \in Seq(Tokens)
<1>3. /\ Len(References(s)) \in Nat /\ DOMAIN References(s) = 1..Len(References(s))
      /\ \A i \in 1..Len(References(s)) : References(s)[i] \in Q
  BY ONLY <1>2, LenProperties, ElementOfSeq
<1> QED BY <1>1, <1>2, <1>3

\* In a simple text no value contains a reference.
LEMMA ValuePlain ==
  ASSUME NEW env \in Environments, NEW s \in Seq(Tokens), Simple(s, env),
         NEW i \in 1..Len(References(s))
  PROVE  NoReference(ValueIn(env, References(s)[i]))
<1>1. PICK q \in Seq(Tokens) : q = References(s)[i]
  BY RefIs
<1>2. Shape(q) /\ NoReference(Tail(q))
  BY <1>1, RefIs DEF Simple
<1>3. NoReference(DefaultOf(q))
  <2>1. PICK m \in Nat : m = Len(q) /\ m > 1
    BY <1>2 DEF Shape
  <2>2. \A j \in 2..m : q[j] \notin VariableNames
    <3>1. Len(Tail(q)) = m - 1 /\ DOMAIN Tail(q) = 1..(m - 1) /\ \A j \in 1..(m - 1) : Tail(q)[j] = q[j + 1]
      BY <2>1
    <3>2. \A j \in 2..m : j - 1 \in 1..(m - 1) /\ j - 1 + 1 = j
      BY <2>1
    <3> QED BY ONLY <1>2, <3>1, <3>2 DEF NoReference
  <2>3. /\ DOMAIN SubSeq(q, 3, m - 1) = 1..Len(SubSeq(q, 3, m - 1))
        /\ \A j \in 1..Len(SubSeq(q, 3, m - 1)) : j + 2 \in 2..m /\ SubSeq(q, 3, m - 1)[j] = q[j + 2]
    BY <2>1
  <2> QED BY ONLY <2>1, <2>2, <2>3 DEF DefaultOf, NoReference
<1> QED BY <1>1, <1>3 DEF ValueIn, Simple

\* At first no reference is dealt with.
LEMMA NoneReached ==
  ASSUME NEW s \in Seq(Tokens), NEW env
  PROVE  0 \in 0..Len(References(s)) /\ Reached(s, env, 0, References(s), s, {})
<1>1. SubSeq(References(s), 0 + 1, Len(References(s))) = References(s)
  <2>1. PICK Q : Q = Seq(Tokens)
    OBVIOUS
  <2>2. References(s) \in Seq(Q)
    BY ONLY <2>1, RefsShaped, s \in Seq(Tokens)
  <2> QED BY ONLY <2>2, SubSeqFull
<1>2. 0 \in 0..Len(References(s)) /\ 1..0 = {}
  BY RefIs
<1>3. FirstValues(s, env, 0) = [q \in Seq(Tokens) |-> q]
  BY <1>2 DEF FirstValues
<1>4. \E f : Filled(s, FirstValues(s, env, 0), f) /\ s = f[1]
  BY <1>3, FillNothing
<1> QED BY ONLY <1>1, <1>2, <1>4 DEF Reached

\* One more reference dealt with.
LEMMA OneMore ==
  ASSUME NEW s \in Seq(Tokens), NEW env \in Environments, NEW k \in 0..Len(References(s)),
         NEW rest, NEW res, NEW undef, Reached(s, env, k, rest, res, undef), rest # <<>>,
         NEW res2, NEW undef2,
         \/ HasValue(env, Head(rest)) /\ undef2 = undef
            /\ res2 = Replaced(res, Head(rest), ValueIn(env, Head(rest)))
         \/ ~HasValue(env, Head(rest)) /\ undef2 = undef \cup {Head(rest)[1]} /\ res2 = res
  PROVE  /\ k + 1 \in 0..Len(References(s))
         /\ Reached(s, env, k + 1, Tail(rest), res2, undef2)
<1>1. PICK R : R = References(s)
  OBVIOUS
<1>2. PICK n \in Nat : n = Len(R)
  BY <1>1, RefIs
<1>3. k \in Nat /\ k + 1 \in 1..n /\ Head(rest) = R[k + 1] /\ Tail(rest) = SubSeq(R, k + 1 + 1, n)
  <2>1. PICK Q : Q = Seq(Tokens)
    OBVIOUS
  <2>2. R \in Seq(Q) /\ rest = SubSeq(R, k + 1, n)
    BY ONLY <1>1, <1>2, <2>1, RefsShaped, s \in Seq(Tokens), Reached(s, env, k, rest, res, undef) DEF Reached
  <2>3. k \in 0..n
    BY <1>1, <1>2
  <2>4. k \in Nat /\ k + 1 \in 1..n
    <3>1. ~(k + 1 > n)
      BY ONLY <1>1, <1>2, <2>2, <2>3, SubSeqEmpty, n \in Nat, rest # <<>>
    <3> QED BY ONLY <2>3, <3>1, n \in Nat
  <2>5. n \in (k + 1)..Len(R) /\ k + 1 \in 1..Len(R)
    BY ONLY <1>1, <1>2, <2>4, n \in Nat
  <2> QED BY ONLY <2>2, <2>4, <2>5, HeadTailOfSubSeq
<1>4. PICK r \in Seq(Tokens) : r = R[k + 1] /\ Shape(r)
  BY ONLY <1>1, <1>2, <1>3, RefIs, s \in Seq(Tokens)
<1>5. \A i : i \in 1..(k + 1) <=> i \in 1..k \/ i = k + 1
  BY ONLY <1>3
<1>6. r[1] \in VariableNames
  BY ONLY <1>4 DEF Shape
<1>7. undef = {name \in VariableNames : \E i \in 1..k : R[i][1] = name /\ ~HasValue(env, R[i])}
  BY ONLY <1>1, Reached(s, env, k, rest, res, undef) DEF Reached
<1> DEFINE w == FirstValues(s, env, k)
           w2 == FirstValues(s, env, k + 1)
           v == ValueIn(env, r)
<1>8. /\ w \in [Seq(Tokens) -> Seq(Tokens)] /\ w2 \in [Seq(Tokens) -> Seq(Tokens)] /\ v \in Seq(Tokens)
  BY ONLY <1>4, ValuesTyped, env \in Environments
<1>9. \A q \in Seq(Tokens) : w[q] = IF HasValue(env, q) /\ \E i \in 1..k : R[i] = q THEN ValueIn(env, q) ELSE q
  BY <1>1 DEF FirstValues
<1>10. \A q \in Seq(Tokens) : w2[q] = IF HasValue(env, q) /\ \E i \in 1..(k + 1) : R[i] = q THEN ValueIn(env, q) ELSE q
  BY <1>1 DEF FirstValues
<1> HIDE DEF w, w2
<1>11. CASE HasValue(env, r)
  <2>1. undef2 = undef /\ res2 = Replaced(res, r, v)
    BY <1>3, <1>4, <1>11
  <2>2. undef2 = {name \in VariableNames : \E i \in 1..(k + 1) : R[i][1] = name /\ ~HasValue(env, R[i])}
    BY ONLY <1>4, <1>5, <1>7, <1>11, <2>1
  <2>3. ASSUME Simple(s, env) PROVE \E g : Filled(s, w2, g) /\ res2 = g[1]
    <3>1. PICK f : Filled(s, w, f) /\ res = f[1]
      BY ONLY <2>3, Reached(s, env, k, rest, res, undef) DEF Reached, w
    <3>2. \A i \in 1..(k + 1) : i \in 1..Len(References(s))
      BY ONLY <1>1, <1>2, <1>3
    <3>3. \A q \in Seq(Tokens) : w[q] = q \/ NoReference(w[q])
      <4>1. ASSUME NEW i \in 1..k, R[i] \in Seq(Tokens) PROVE NoReference(ValueIn(env, R[i]))
        BY ONLY <1>1, <1>5, <2>3, <3>2, ValuePlain, env \in Environments, s \in Seq(Tokens), i \in 1..k
      <4> QED BY ONLY <1>9, <4>1
    <3>4. NoReference(v) /\ k + 1 \in 1..(k + 1)
      <4>1. k + 1 \in 1..(k + 1)
        BY ONLY <1>3
      <4> QED BY ONLY <1>1, <1>4, <2>3, <3>2, <4>1, ValuePlain, env \in Environments, s \in Seq(Tokens)
    <3>5. w[r] = r \/ w[r] = v
      BY <1>9
    <3>6. AndAlso(w, r, v, w2)
      <4>1. w2[r] = v
        BY ONLY <1>4, <1>10, <1>11, <3>4, Zenon DEF v
      <4>2. ASSUME NEW q \in Seq(Tokens), q # r PROVE w2[q] = w[q]
        BY ONLY <1>4, <1>5, <1>9, <1>10, <4>2, q \in Seq(Tokens), Zenon
      <4> QED BY <4>1, <4>2 DEF AndAlso
    <3>7. Partly(w, r, v)
      BY <3>3, <3>5 DEF Partly
    <3>8. ~Nested(s) /\ Among(References(s), PlainTails)
      BY ONLY <2>3, RefIs, s \in Seq(Tokens) DEF Simple, Among, PlainTails
    <3>9. PICK g : Filled(s, w2, g)
      BY ONLY <1>8, FillExists, s \in Seq(Tokens)
    <3> HIDE DEF v
    <3>10. Becomes(f, r, v, g)
      BY ONLY <1>4, <1>8, <3>1, <3>4, <3>6, <3>7, <3>8, <3>9, OnePass, s \in Seq(Tokens)
    <3> QED BY ONLY <2>1, <3>1, <3>9, <3>10 DEF Becomes, v
  <2> QED BY ONLY <1>1, <1>2, <1>3, <2>2, <2>3 DEF Reached, w2
<1>12. CASE ~HasValue(env, r)
  <2>1. undef2 = undef \cup {r[1]} /\ res2 = res
    BY <1>3, <1>4, <1>12
  <2>2. undef2 = {name \in VariableNames : \E i \in 1..(k + 1) : R[i][1] = name /\ ~HasValue(env, R[i])}
    BY ONLY <1>4, <1>5, <1>6, <1>7, <1>12, <2>1
  <2>3. w2 = w
    <3>1. ASSUME NEW q \in Seq(Tokens) PROVE w2[q] = w[q]
      BY ONLY <1>4, <1>9, <1>10, <1>12, <1>5, q \in Seq(Tokens), Zenon
    <3> QED BY ONLY <1>8, <3>1
  <2>4. Simple(s, env) => \E f : Filled(s, w2, f) /\ res2 = f[1]
    BY ONLY <2>1, <2>3, Reached(s, env, k, rest, res, undef) DEF Reached, w
  <2> QED BY ONLY <1>1, <1>2, <1>3, <2>2, <2>4 DEF Reached, w2
<1> QED BY <1>11, <1>12

\* The function behind Meaning.
MeaningFrom(s, env) ==
  CHOOSE from : from = [i \in 1..(Len(s) + 1) |->
    IF i > Len(s) THEN <<>>
    ELSE IF MatchEnd(s, i) = 0 THEN <<s[i]>> \o from[i + 1]
    ELSE (IF s[i] \in DOMAIN env THEN env[s[i]] ELSE SubSeq(s, i + 2, MatchEnd(s, i) - 1))
           \o from[MatchEnd(s, i) + 1]]

\* Meaning is the text with the values of its references.
LEMMA MeaningIs ==
  ASSUME text \in Seq(Tokens), variables \in Environments
  PROVE  /\ Meaning = MeaningFrom(text, variables)[1]
         /\ Filled(text, Values(variables), MeaningFrom(text, variables))
<1>1. Meaning = MeaningFrom(text, variables)[1]
  BY DEF Meaning, MeaningFrom
<1>2. ASSUME NEW s \in Seq(Tokens), NEW env \in Environments
      PROVE  Filled(s, Values(env), MeaningFrom(s, env))
  <2> DEFINE Body(i, f) ==
               IF i > Len(s) THEN <<>>
               ELSE IF MatchEnd(s, i) = 0 THEN <<s[i]>> \o f[i + 1]
               ELSE (IF s[i] \in DOMAIN env THEN env[s[i]] ELSE SubSeq(s, i + 2, MatchEnd(s, i) - 1))
                      \o f[MatchEnd(s, i) + 1]
             Fix(f) == f = [i \in 1..(Len(s) + 1) |-> Body(i, f)]
             from == MeaningFrom(s, env)
             w == Values(env)
  <2>1. PICK n \in Nat : n = Len(s)
    OBVIOUS
  <2>2. w \in [Seq(Tokens) -> Seq(Tokens)] /\ \A q \in Seq(Tokens) : w[q] = ValueIn(env, q)
    BY ValuesTyped DEF Values
  <2> HIDE DEF w
  <2>3. /\ TextPieces(s, w) \in [1..n -> Seq(Tokens)] /\ TextNext(s) \in [1..n -> 1..(n + 1)]
        /\ \A i \in 1..n : TextNext(s)[i] > i
    BY <2>1, <2>2, TextFits
  <2>4. n + 1 > n /\ n + 1 \in 1..(n + 1) /\ \A i \in 1..n : ~(i > n) /\ i \in 1..(n + 1)
    OBVIOUS
  <2>5. ASSUME NEW i \in 1..n, MatchEnd(s, i) # 0
        PROVE  w[RefAt(s, i)] = IF s[i] \in DOMAIN env THEN env[s[i]] ELSE SubSeq(s, i + 2, MatchEnd(s, i) - 1)
    <3>1. MatchEnd(s, i) \in (i + 1)..n /\ RefAt(s, i) \in Seq(Tokens)
      <4>1. i \in 1..Len(s)
        BY <2>1
      <4> QED BY ONLY <2>1, <2>5, <4>1, MatchIs, s \in Seq(Tokens) DEF Shape
    <3>2. PICK e \in (i + 1)..n : e = MatchEnd(s, i)
      BY <3>1
    <3>3. RefAt(s, i)[1] = s[i] /\ Len(RefAt(s, i)) = e - i + 1
      BY <2>1, <3>2 DEF RefAt
    <3>4. DefaultOf(RefAt(s, i)) = SubSeq(s, i + 2, e - 1)
      <4>1. DefaultOf(RefAt(s, i)) = SubSeq(SubSeq(s, i, e), 3, e - i + 1 - 1)
        BY ONLY <3>2, <3>3 DEF DefaultOf, RefAt
      <4>2. SubSeq(SubSeq(s, i, e), 3, e - i + 1 - 1) = SubSeq(s, i + 2, e - 1)
        BY <2>1, <3>2
      <4> QED BY ONLY <4>1, <4>2
    <3> QED BY ONLY <2>2, <3>1, <3>2, <3>3, <3>4 DEF ValueIn
  <2>6. ASSUME NEW i \in 1..n, NEW f PROVE Body(i, f) = TextPieces(s, w)[i] \o f[TextNext(s)[i]]
    <3>1. i \in 1..Len(s) /\ ~(i > Len(s))
      BY <2>1, <2>4
    <3>2. CASE MatchEnd(s, i) = 0
      BY <3>1, <3>2 DEF TextPieces, TextNext
    <3>3. CASE MatchEnd(s, i) # 0
      BY ONLY <2>5, <3>1, <3>3, i \in 1..n DEF TextPieces, TextNext
    <3> QED BY <3>2, <3>3
  <2>7. \A f : Body(n + 1, f) = <<>>
    BY <2>1, <2>4
  <2> HIDE DEF Body
  <2>8. \E f : Fix(f)
    <3>1. PICK f : Chained(Tokens, n, TextPieces(s, w), TextNext(s), f)
      BY ONLY <2>1, <2>3, ChainExists
    <3>2. \A i \in 1..(n + 1) : f[i] = Body(i, f)
      <4> SUFFICES ASSUME NEW i \in 1..(n + 1) PROVE f[i] = Body(i, f)
        OBVIOUS
      <4>1. CASE i \in 1..n
        BY <2>6, <3>1, <4>1 DEF Chained
      <4>2. CASE i = n + 1
        BY <2>7, <3>1, <4>2 DEF Chained
      <4> QED BY <4>1, <4>2
    <3>3. f = [i \in 1..(n + 1) |-> f[i]]
      BY <3>1 DEF Chained
    <3>4. Fix(f)
      BY ONLY <2>1, <3>2, <3>3
    <3> QED BY <3>4
  <2>9. from = CHOOSE f : Fix(f)
    BY DEF MeaningFrom, Body
  <2> HIDE DEF Fix
  <2>10. Fix(from)
    BY ONLY <2>8, <2>9, Zenon
  <2> HIDE DEF from
  <2>11. from = [i \in 1..(n + 1) |-> Body(i, from)]
    BY <2>1, <2>10 DEF Fix
  <2>12. Chained(Tokens, n, TextPieces(s, w), TextNext(s), from)
    <3>1. DOMAIN from = 1..(n + 1) /\ from = [i \in 1..(n + 1) |-> from[i]]
      BY ONLY <2>11
    <3>2. from[n + 1] = <<>>
      BY ONLY <2>4, <2>7, <2>11
    <3>3. \A i \in 1..n : from[i] = TextPieces(s, w)[i] \o from[TextNext(s)[i]]
      BY ONLY <2>4, <2>6, <2>11
    <3> QED BY ONLY <2>3, <3>1, <3>2, <3>3, n \in Nat, ChainTyped
  <2> QED BY <2>1, <2>12 DEF Filled, from, w
<1> QED BY <1>1, <1>2

\* When every reference is dealt with, the result is the meaning of the text.
LEMMA ReachedAll ==
  ASSUME text \in Texts, variables \in Environments, NEW k \in 0..Len(References(text)),
         Reached(text, variables, k, matches, result, undefined), matches = <<>>,
         Simple(text, variables)
  PROVE  /\ undefined = {name \in VariableNames \ DOMAIN variables :
                           \E i \in DOMAIN References(text) :
                             References(text)[i][1] = name /\ ~HasDefault(References(text)[i])}
         /\ undefined = {} => result = Meaning
<1>1. text \in Seq(Tokens)
  BY VariableAssumption
<1>2. PICK R : R = References(text)
  OBVIOUS
<1>3. PICK n \in Nat : n = Len(R)
  BY <1>1, <1>2, RefIs
<1>4. /\ DOMAIN R = 1..n /\ \A i \in 1..n : R[i] \in Seq(Tokens) /\ R[i][1] \in VariableNames
  BY ONLY <1>1, <1>2, <1>3, RefIs DEF Shape
<1>5. k = n
  <2>1. PICK Q : Q = Seq(Tokens)
    OBVIOUS
  <2>2. R \in Seq(Q) /\ matches = SubSeq(R, k + 1, n)
    BY ONLY <1>1, <1>2, <1>3, <2>1, RefsShaped, Reached(text, variables, k, matches, result, undefined) DEF Reached
  <2>3. k \in 0..n
    BY <1>2, <1>3
  <2>4. CASE k < n
    <3>1. SubSeq(R, k + 1, n) # <<>>
      <4>1. /\ k + 1 \in Int /\ n \in Int /\ k + 1 <= n /\ n - (k + 1) + 1 # 0
            /\ \A i \in (k + 1)..n : i \in 1..n
        BY ONLY <2>3, <2>4, n \in Nat
      <4>2. \A i \in (k + 1)..n : R[i] \in Q
        BY ONLY <1>3, <2>2, <4>1, ElementOfSeq
      <4>3. Len(SubSeq(R, k + 1, n)) # 0
        BY ONLY <4>1, <4>2, SubSeqProperties
      <4> QED BY ONLY <4>3, Len(<<>>) = 0
    <3> QED BY <2>2, <3>1
  <2> QED BY ONLY <2>3, <2>4, n \in Nat
<1>6. undefined = {name \in VariableNames : \E i \in 1..n : R[i][1] = name /\ ~HasValue(variables, R[i])}
  BY ONLY <1>2, <1>5, Reached(text, variables, k, matches, result, undefined) DEF Reached
<1>7. undefined = {name \in VariableNames \ DOMAIN variables :
                     \E i \in DOMAIN R : R[i][1] = name /\ ~HasDefault(R[i])}
  BY ONLY <1>4, <1>6 DEF HasValue
<1>8. ASSUME undefined = {} PROVE result = Meaning
  <2>1. PICK f : Filled(text, FirstValues(text, variables, n), f) /\ result = f[1]
    BY ONLY <1>5, Reached(text, variables, k, matches, result, undefined), Simple(text, variables) DEF Reached
  <2>2. ASSUME NEW i \in 1..n
        PROVE  FirstValues(text, variables, n)[R[i]] = Values(variables)[R[i]]
    <3>1. HasValue(variables, R[i]) /\ R[i] \in Seq(Tokens)
      BY ONLY <1>4, <1>6, <1>8, i \in 1..n
    <3> QED BY ONLY <1>2, <3>1, i \in 1..n DEF FirstValues, Values
  <2>3. f[1] = MeaningFrom(text, variables)[1]
    BY ONLY <1>1, <1>2, <1>3, <2>1, <2>2, FillsAgree, MeaningIs, variables \in Environments
  <2> QED BY ONLY <1>1, <2>1, <2>3, MeaningIs, variables \in Environments
<1> QED BY <1>2, <1>7, <1>8

\* It holds of the input.
LEMMA InvInit == ResolverInit => ResolverInv
<1> SUFFICES ASSUME ResolverInit PROVE ResolverInv
  OBVIOUS
<1>1. /\ text \in Texts /\ variables \in Environments
      /\ matches = References(text) /\ result = text /\ undefined = {}
  BY DEF ResolverInit
<1>2. text \in Seq(Tokens)
  BY <1>1, VariableAssumption
<1>3. 0 \in 0..Len(References(text)) /\ Reached(text, variables, 0, References(text), text, {})
  BY <1>2, NoneReached
<1> QED BY ONLY <1>1, <1>3 DEF ResolverInv

\* It is kept by a replacement.
LEMMA InvKept == ResolverInv /\ [ResolverNext]_resolverVars => ResolverInv'
<1> SUFFICES ASSUME ResolverInv, [ResolverNext]_resolverVars PROVE ResolverInv'
  OBVIOUS
<1>1. CASE UNCHANGED resolverVars
  BY <1>1 DEF ResolverInv, resolverVars
<1>2. CASE Substitute
  <2>1. /\ text \in Texts /\ variables \in Environments /\ text' = text /\ variables' = variables
        /\ matches # <<>> /\ matches' = Tail(matches)
    BY <1>2 DEF ResolverInv, Substitute
  <2>2. text \in Seq(Tokens)
    BY <2>1, VariableAssumption
  <2>3. PICK k \in 0..Len(References(text)) : Reached(text, variables, k, matches, result, undefined)
    BY DEF ResolverInv
  <2>4. \/ HasValue(variables, Head(matches)) /\ undefined' = undefined
           /\ result' = Replaced(result, Head(matches), ValueIn(variables, Head(matches)))
        \/ ~HasValue(variables, Head(matches)) /\ undefined' = undefined \cup {Head(matches)[1]} /\ result' = result
    BY ONLY <1>2 DEF Substitute, HasValue, ValueIn, ValueOf
  <2>5. PICK rest, res, undef, res2, undef2 : /\ rest = matches /\ res = result /\ undef = undefined
                                              /\ res2 = result' /\ undef2 = undefined'
    OBVIOUS
  <2>6. /\ k + 1 \in 0..Len(References(text))
        /\ Reached(text, variables, k + 1, Tail(rest), res2, undef2)
    BY ONLY <2>1, <2>2, <2>3, <2>4, <2>5, OneMore
  <2>7. Reached(text', variables', k + 1, matches', result', undefined')
    BY ONLY <2>1, <2>5, <2>6
  <2> QED BY ONLY <2>1, <2>6, <2>7 DEF ResolverInv
<1> QED BY <1>1, <1>2 DEF ResolverNext

\* It says what ResolvesOnce does.
LEMMA InvResolves == ResolverInv => ResolvesOnce
<1> SUFFICES ASSUME ResolverInv, matches = <<>>, Simple(text, variables)
             PROVE  /\ undefined = {name \in VariableNames \ DOMAIN variables :
                                      \E i \in DOMAIN References(text) :
                                        References(text)[i][1] = name /\ ~HasDefault(References(text)[i])}
                    /\ undefined = {} => result = Meaning
  BY DEF ResolvesOnce, Simple
<1>1. PICK k \in 0..Len(References(text)) : Reached(text, variables, k, matches, result, undefined)
  BY DEF ResolverInv
<1> QED BY <1>1, ReachedAll DEF ResolverInv

\* Replacing references one after the other in the whole text gives what
\* replacing each where it stands would, for any text and environment without
\* references in values and defaults and none that begins in another.
THEOREM ReplacingMeansSubstituting == ResolverSpec => []ResolvesOnce
<1>1. ResolverSpec => []ResolverInv
  BY InvInit, InvKept, PTL DEF ResolverSpec
<1> QED BY <1>1, InvResolves, PTL
=============================================================================
