---------------------------- MODULE NaturalLemmas ----------------------------
(***************************************************************************)
(* What the proofs about recursive functions rest on: a set of naturals    *)
(* that is not empty has a least element, so a claim that fails somewhere  *)
(* fails somewhere first; and, by that, what dropping a byte makes of a     *)
(* text.                                                                   *)
(***************************************************************************)
EXTENDS Bytes, SequenceTheorems, NaturalsInduction, WellFoundedInduction, TLAPS

\* A set of naturals that is not empty has a least element.
LEMMA LeastElement ==
    ASSUME NEW B \in SUBSET Nat, B # {}
    PROVE  \E n \in B : \A m \in B : n <= m
<1>1. IsWellFoundedOn(OpToRel(<, Nat), Nat)
    BY NatLessThanWellFounded
<1>2. PICK n \in B : \A m \in B : <<m, n>> \notin OpToRel(<, Nat)
    BY <1>1, WFMin
<1>3. n \in Nat /\ \A m \in B : m \in Nat /\ ~(m < n)
    BY <1>2 DEF OpToRel
<1> QED
    BY <1>3

\* The recursive function exists: what is kept of each beginning of the text.
LEMMA WithoutKept ==
    ASSUME NEW S, NEW s \in Seq(S), NEW b
    PROVE  \E kept :
              /\ Without(s, b) = kept[Len(s)]
              /\ \A i \in 0..Len(s) :
                    /\ kept[i] = IF i = 0 THEN <<>>
                                 ELSE IF s[i] = b THEN kept[i - 1] ELSE Append(kept[i - 1], s[i])
                    /\ kept[i] \in Seq(S) /\ Len(kept[i]) <= i
<1> DEFINE n == Len(s)
           Rule(f, m) ==
               f = [i \in 0..m |->
                       IF i = 0 THEN <<>>
                       ELSE IF s[i] = b THEN f[i - 1] ELSE Append(f[i - 1], s[i])]
           kept == CHOOSE f : Rule(f, n)
<1>1. n \in Nat /\ \A i \in 1..n : s[i] \in S
    BY LenProperties, ElementOfSeq
<1>2. \A m \in Nat : \E f : Rule(f, m)
    <2> DEFINE B == {m \in Nat : ~\E f : Rule(f, m)}
    <2> SUFFICES ASSUME B # {} PROVE FALSE
        OBVIOUS
    <2>1. PICK m \in B : \A k \in B : m <= k
        <3>1. B \in SUBSET Nat
            OBVIOUS
        <3> HIDE DEF B
        <3> QED
            BY <3>1, LeastElement
    <2>2. CASE m = 0
        <3> DEFINE f == [i \in 0..0 |-> <<>>]
        <3>1. Rule(f, 0)
            OBVIOUS
        <3> QED
            BY <2>2, <3>1
    <2>3. CASE m # 0
        <3> m \in Nat
            BY <2>1
        <3>1. m - 1 \in Nat /\ m - 1 \notin B
            <4> HIDE DEF B
            <4> QED
                BY <2>1, <2>3
        <3>2. PICK f : Rule(f, m - 1)
            BY <3>1
        <3>2a. \A i \in 0..m - 1 :
                 f[i] = IF i = 0 THEN <<>>
                        ELSE IF s[i] = b THEN f[i - 1] ELSE Append(f[i - 1], s[i])
            BY <3>2
        <3> DEFINE g == [i \in 0..m |->
                            IF i = 0 THEN <<>>
                            ELSE IF s[i] = b THEN f[i - 1] ELSE Append(f[i - 1], s[i])]
        <3>3. \A i \in 0..m - 1 : g[i] = f[i]
            BY <3>1, <3>2a
        <3>4. \A i \in 0..m : i # 0 => i - 1 \in 0..m - 1
            BY <3>1
        <3>5. Rule(g, m)
            BY <3>3, <3>4
        <3> QED
            BY <2>1, <3>5
    <2> QED
        BY <2>2, <2>3
<1>3. Rule(kept, n)
    BY <1>1, <1>2
<1>4. \A i \in 0..n :
          kept[i] = IF i = 0 THEN <<>>
                    ELSE IF s[i] = b THEN kept[i - 1] ELSE Append(kept[i - 1], s[i])
    BY <1>3
<1>5. \A i \in 0..n : kept[i] \in Seq(S) /\ Len(kept[i]) <= i
    <2> HIDE DEF kept
    <2> DEFINE B == {i \in 0..n : ~(kept[i] \in Seq(S) /\ Len(kept[i]) <= i)}
    <2> SUFFICES ASSUME B # {} PROVE FALSE
        OBVIOUS
    <2>1. PICK i \in B : \A k \in B : i <= k
        <3>1. B \in SUBSET Nat
            BY <1>1
        <3> HIDE DEF B
        <3> QED
            BY <3>1, LeastElement
    <2>2. i # 0
        <3>1. i \in 0..n
            BY <2>1
        <3>2. i = 0 => kept[i] = <<>>
            BY <1>4, <3>1
        <3> QED
            BY <2>1, <3>2, EmptySeq
    <2>3. i \in 1..n /\ i - 1 \in 0..n /\ i - 1 \notin B
        BY <1>1, <2>1, <2>2
    <2>4. kept[i - 1] \in Seq(S) /\ Len(kept[i - 1]) <= i - 1
        BY <2>3
    <2>5. kept[i] = IF s[i] = b THEN kept[i - 1] ELSE Append(kept[i - 1], s[i])
        BY <1>4, <2>3
    <2>6. /\ Append(kept[i - 1], s[i]) \in Seq(S)
          /\ Len(Append(kept[i - 1], s[i])) = Len(kept[i - 1]) + 1
        BY <1>1, <2>3, <2>4, AppendProperties
    <2>7. kept[i] \in Seq(S) /\ Len(kept[i]) <= i
        BY <1>1, <2>3, <2>4, <2>5, <2>6, LenProperties
    <2> QED
        BY <2>1, <2>7
<1>6. Without(s, b) = kept[n]
    BY DEF Without
<1> HIDE DEF kept
<1> QED
    BY <1>4, <1>5, <1>6

\* Without a byte a text is no longer, and if it is as long it is the same.
LEMMA WithoutFacts ==
    ASSUME NEW S, NEW s \in Seq(S), NEW b
    PROVE  /\ Without(s, b) \in Seq(S)
           /\ Len(Without(s, b)) <= Len(s)
           /\ Len(Without(s, b)) = Len(s) => Without(s, b) = s
<1> DEFINE n == Len(s)
<1>1. n \in Nat /\ \A i \in 1..n : s[i] \in S
    BY LenProperties, ElementOfSeq
<1>2. PICK kept :
        /\ Without(s, b) = kept[n]
        /\ \A i \in 0..n :
              /\ kept[i] = IF i = 0 THEN <<>>
                           ELSE IF s[i] = b THEN kept[i - 1] ELSE Append(kept[i - 1], s[i])
              /\ kept[i] \in Seq(S) /\ Len(kept[i]) <= i
    BY WithoutKept
\* A text that loses nothing keeps every byte in its place.
<1>3. \A i \in 0..n : Len(kept[i]) = i => \A k \in 1..i : kept[i][k] = s[k]
    <2> DEFINE Same(i) == Len(kept[i]) = i => \A k \in 1..i : kept[i][k] = s[k]
               B == {i \in 0..n : ~Same(i)}
    <2> SUFFICES ASSUME B # {} PROVE FALSE
        OBVIOUS
    <2>1. PICK i \in B : \A k \in B : i <= k
        <3>1. B \in SUBSET Nat
            BY <1>1
        <3> HIDE DEF B
        <3> QED
            BY <3>1, LeastElement
    <2>2. i \in 0..n /\ i \in Nat /\ i # 0 /\ Len(kept[i]) = i
        BY <1>1, <2>1
    <2>3. i - 1 \in 0..n /\ i - 1 \in Nat /\ i - 1 \notin B
        <3>1. i - 1 \in 0..n /\ i - 1 \in Nat /\ ~(i <= i - 1)
            BY <1>1, <2>2
        <3> HIDE DEF B
        <3> QED
            BY <2>1, <3>1
    <2>4. Same(i - 1) /\ kept[i - 1] \in Seq(S) /\ Len(kept[i - 1]) <= i - 1
        BY <1>2, <2>3
    <2>5. kept[i] = IF s[i] = b THEN kept[i - 1] ELSE Append(kept[i - 1], s[i])
        BY <1>2, <2>2
    <2>6. kept[i] = Append(kept[i - 1], s[i])
        BY <2>2, <2>3, <2>4, <2>5, LenProperties
    <2>7. s[i] \in S
        BY <1>1, <2>2
    <2>8. /\ Len(kept[i]) = Len(kept[i - 1]) + 1
          /\ \A k \in 1..Len(kept[i - 1]) : kept[i][k] = kept[i - 1][k]
          /\ kept[i][Len(kept[i - 1]) + 1] = s[i]
        BY <2>4, <2>6, <2>7, AppendProperties
    <2>9. Len(kept[i - 1]) = i - 1
        BY <2>2, <2>3, <2>4, <2>8, LenProperties, SMTT(30)
    <2>10. \A k \in 1..i : kept[i][k] = s[k]
        <3> SUFFICES ASSUME NEW k \in 1..i PROVE kept[i][k] = s[k]
            OBVIOUS
        <3>1. CASE k = i
            BY <2>2, <2>8, <2>9, <3>1
        <3>2. CASE k # i
            <4>1. k \in 1..i - 1
                BY <2>2, <3>2
            <4> QED
                BY <2>4, <2>8, <2>9, <4>1
        <3> QED
            BY <3>1, <3>2
    <2> QED
        BY <2>1, <2>10
<1>4. kept[n] \in Seq(S) /\ Len(kept[n]) <= n
    BY <1>1, <1>2
<1>5. ASSUME Len(kept[n]) = n PROVE kept[n] = s
    BY <1>1, <1>3, <1>4, <1>5, SeqEqual, SMTT(30)
<1> QED
    BY <1>2, <1>4, <1>5

\* The last byte is dropped or kept.
LEMMA WithoutAppend ==
    ASSUME NEW S, NEW s \in Seq(S), NEW e \in S, NEW b
    PROVE  Without(Append(s, e), b) =
               IF e = b THEN Without(s, b) ELSE Append(Without(s, b), e)
<1> DEFINE n == Len(s)
           t == Append(s, e)
<1>1. /\ n \in Nat /\ t \in Seq(S) /\ Len(t) = n + 1
      /\ \A i \in 1..n : t[i] = s[i]
      /\ t[n + 1] = e
    BY LenProperties, AppendProperties
<1>2. PICK f :
        /\ Without(s, b) = f[n]
        /\ \A i \in 0..n :
              /\ f[i] = IF i = 0 THEN <<>>
                        ELSE IF s[i] = b THEN f[i - 1] ELSE Append(f[i - 1], s[i])
              /\ f[i] \in Seq(S) /\ Len(f[i]) <= i
    BY WithoutKept
<1> HIDE DEF t
<1>3. PICK g :
        /\ Without(t, b) = g[Len(t)]
        /\ \A i \in 0..Len(t) :
              /\ g[i] = IF i = 0 THEN <<>>
                        ELSE IF t[i] = b THEN g[i - 1] ELSE Append(g[i - 1], t[i])
              /\ g[i] \in Seq(S) /\ Len(g[i]) <= i
    <2>1. t \in Seq(S)
        BY <1>1
    <2> QED
        BY <2>1, WithoutKept
<1>4. \A i \in 0..n : g[i] = f[i]
    <2> DEFINE B == {i \in 0..n : g[i] # f[i]}
    <2> SUFFICES ASSUME B # {} PROVE FALSE
        OBVIOUS
    <2>1. PICK i \in B : \A k \in B : i <= k
        <3>1. B \in SUBSET Nat
            BY <1>1
        <3> HIDE DEF B
        <3> QED
            BY <3>1, LeastElement
    <2>2. i \in 0..n /\ i \in 0..Len(t)
        BY <1>1, <2>1
    <2>3. i # 0
        <3>1. i = 0 => g[i] = <<>> /\ f[i] = <<>>
            BY <1>2, <1>3, <2>2
        <3> QED
            BY <2>1, <3>1
    <2>4. i - 1 \in 0..n /\ i - 1 \notin B /\ i \in 1..n
        <3>1. i - 1 \in 0..n /\ ~(i <= i - 1) /\ i \in 1..n
            BY <1>1, <2>2, <2>3
        <3> HIDE DEF B
        <3> QED
            BY <2>1, <3>1
    <2>5. g[i - 1] = f[i - 1] /\ t[i] = s[i]
        BY <1>1, <2>4
    <2>6. g[i] = IF t[i] = b THEN g[i - 1] ELSE Append(g[i - 1], t[i])
        BY <1>3, <2>2, <2>3
    <2>7. f[i] = IF s[i] = b THEN f[i - 1] ELSE Append(f[i - 1], s[i])
        BY <1>2, <2>2, <2>3
    <2> QED
        BY <2>1, <2>5, <2>6, <2>7
<1>5. n + 1 \in 0..Len(t) /\ n + 1 # 0 /\ (n + 1) - 1 = n /\ n \in 0..n
    BY <1>1
<1>6. g[n + 1] = IF t[n + 1] = b THEN g[(n + 1) - 1] ELSE Append(g[(n + 1) - 1], t[n + 1])
    BY <1>3, <1>5
<1>7. Without(t, b) = IF e = b THEN Without(s, b) ELSE Append(Without(s, b), e)
    BY <1>1, <1>2, <1>3, <1>4, <1>5, <1>6
<1> QED
    BY <1>7 DEF t

\* Nothing is dropped of nothing.
LEMMA WithoutEmpty == \A b : Without(<<>>, b) = <<>>
<1> TAKE b
<1>1. <<>> \in Seq({}) /\ Len(<<>>) = 0
    BY EmptySeq
<1>2. Without(<<>>, b) \in Seq({}) /\ Len(Without(<<>>, b)) <= 0
    BY <1>1, WithoutFacts
<1> QED
    BY <1>2, EmptySeq, LenProperties
=============================================================================
