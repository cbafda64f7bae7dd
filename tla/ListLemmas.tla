----------------------------- MODULE ListLemmas -----------------------------
(***************************************************************************)
(* Lemmas about sequences that several components need: filters, one       *)
(* element less or more, sequences laid end to end, beginnings.  What a    *)
(* recursion yields is shown from its equation, by the least number for    *)
(* which it would not.                                                     *)
(***************************************************************************)
EXTENDS Naturals, SequencesExt, Selection, NaturalsInduction, WellFoundedInduction, TLAPS

-----------------------------------------------------------------------------
(* Induction over an initial segment of the numbers                        *)

\* Of a set of numbers that is not empty, one is the least.
LEMMA LeastNumber ==
    ASSUME NEW P, P \subseteq Nat, P # {}
    PROVE  \E n \in P : \A m \in P : n <= m
<1>1. PICK n \in P : \A m \in P : ~(<<m, n>> \in OpToRel(<, Nat))
    BY WFMin, NatLessThanWellFounded, Zenon
<1>2. \A m \in P : ~(m < n)
    BY <1>1, Zenon DEF OpToRel
<1> QED
    BY <1>2

\* What holds of 0, and of a number with the one before it, holds up to n.
LEMMA UpTo ==
    ASSUME NEW n \in Nat, NEW P, 0 \in P,
           \A m \in 1 .. n : m - 1 \in P => m \in P
    PROVE  \A m \in 0 .. n : m \in P
<1> DEFINE Bad == {m \in 0 .. n : m \notin P}
<1>1. Bad \subseteq Nat
    OBVIOUS
<1>2. SUFFICES ASSUME Bad # {} PROVE FALSE
    OBVIOUS
<1> HIDE DEF Bad
<1>3. PICK m \in Bad : \A k \in Bad : m <= k
    BY <1>1, <1>2, LeastNumber
<1> USE DEF Bad
<1>4. m # 0 /\ m \in 1 .. n
    BY <1>3
<1>5. m - 1 \in 0 .. n /\ m - 1 \notin Bad
    BY <1>3, <1>4
<1> QED
    BY <1>3, <1>4, <1>5

-----------------------------------------------------------------------------
(* What is kept of a sequence                                              *)

Extended(seq, S, before, m) == IF seq[m] \in S THEN Append(before, seq[m]) ELSE before

\* f[m] is what is kept of the first m elements.
IsKept(seq, S, f, n) ==
    /\ f = [m \in 0 .. n |-> f[m]]
    /\ f[0] = <<>>
    /\ \A m \in 1 .. n : f[m] = Extended(seq, S, f[m - 1], m)

LEMMA KeptNext ==
    ASSUME NEW seq, NEW S, NEW n \in Nat \ {0}, NEW f, IsKept(seq, S, f, n - 1)
    PROVE  \E g : IsKept(seq, S, g, n)
<1> DEFINE g == [m \in 0 .. n |-> IF m = n THEN Extended(seq, S, f[n - 1], n) ELSE f[m]]
<1>1. g = [m \in 0 .. n |-> g[m]]
    OBVIOUS
<1>2. \A m \in 0 .. n - 1 : g[m] = f[m]
    OBVIOUS
<1>3. g[n] = Extended(seq, S, f[n - 1], n)
    OBVIOUS
<1> HIDE DEF g
<1>4. g[0] = f[0]
    BY <1>2
<1>5. g[0] = <<>>
    BY <1>4, Zenon DEF IsKept
<1>6. ASSUME NEW m \in 1 .. n PROVE g[m] = Extended(seq, S, g[m - 1], m)
    <2>1. CASE m = n
        BY <1>2, <1>3, <2>1
    <2>2. CASE m # n
        <3>1. m \in 1 .. n - 1 /\ m - 1 \in 0 .. n - 1 /\ m \in 0 .. n - 1
            BY <2>2
        <3>2. f[m] = Extended(seq, S, f[m - 1], m)
            BY <3>1, Zenon DEF IsKept
        <3> QED
            BY <1>2, <3>1, <3>2
    <2> QED
        BY <2>1, <2>2
<1> QED
    BY <1>1, <1>5, <1>6, Zenon DEF IsKept

LEMMA KeptType ==
    ASSUME NEW T, NEW seq \in Seq(T), NEW S, NEW f, IsKept(seq, S, f, Len(seq))
    PROVE  \A n \in 0 .. Len(seq) : f[n] \in Seq(T)
<1> DEFINE Q == {m \in 0 .. Len(seq) : f[m] \in Seq(T)}
<1>1. 0 \in Q
    <2>1. f[0] = <<>> /\ 0 \in 0 .. Len(seq)
        BY DEF IsKept
    <2>2. <<>> \in Seq(T)
        OBVIOUS
    <2>3. f[0] \in Seq(T)
        BY <2>1, <2>2, Zenon
    <2> QED
        BY <2>1, <2>3
<1>2. ASSUME NEW m \in 1 .. Len(seq), m - 1 \in Q PROVE m \in Q
    <2>1. f[m] = Extended(seq, S, f[m - 1], m)
        BY DEF IsKept
    <2>2. f[m - 1] \in Seq(T) /\ seq[m] \in T
        BY <1>2
    <2>3. f[m] \in Seq(T)
        BY <2>1, <2>2 DEF Extended
    <2> QED
        BY <2>3
<1> HIDE DEF Q
<1>3. \A m \in 0 .. Len(seq) : m \in Q
    BY <1>1, <1>2, UpTo
<1> QED
    BY <1>3 DEF Q

\* The function that Kept is defined with exists.
LEMMA KeptSteps ==
    ASSUME NEW T, NEW seq \in Seq(T), NEW S
    PROVE  \E f : /\ IsKept(seq, S, f, Len(seq))
                  /\ \A n \in 0 .. Len(seq) : f[n] \in Seq(T)
                  /\ Kept(seq, S) = f[Len(seq)]
<1> DEFINE kept[n \in 0 .. Len(seq)] ==
             IF n = 0 THEN <<>>
             ELSE IF seq[n] \in S THEN Append(kept[n - 1], seq[n])
             ELSE kept[n - 1]
<1>1. Kept(seq, S) = kept[Len(seq)]
    BY DEF Kept
<1>2. \E f : IsKept(seq, S, f, Len(seq))
    <2> HIDE DEF kept
    <2> DEFINE P == {n \in 0 .. Len(seq) : \E f : IsKept(seq, S, f, n)}
    <2>1. 0 \in P
        <3>1. IsKept(seq, S, [n \in 0 .. 0 |-> <<>>], 0)
            BY DEF IsKept
        <3> QED
            BY <3>1
    <2>0. Len(seq) \in Nat
        OBVIOUS
    <2>2. ASSUME NEW n \in 1 .. Len(seq), n - 1 \in P PROVE n \in P
        <3>1. PICK f : IsKept(seq, S, f, n - 1)
            BY <2>2
        <3>2. \E g : IsKept(seq, S, g, n)
            BY <3>1, KeptNext
        <3> QED
            BY <3>2
    <2> HIDE DEF P
    <2>3. \A n \in 0 .. Len(seq) : n \in P
        BY <2>0, <2>1, <2>2, UpTo
    <2>4. Len(seq) \in P
        BY <2>3
    <2> QED
        BY <2>4 DEF P
<1>3. kept = [n \in 0 .. Len(seq) |->
               IF n = 0 THEN <<>>
               ELSE IF seq[n] \in S THEN Append(kept[n - 1], seq[n])
               ELSE kept[n - 1]]
    <2>1. PICK f : IsKept(seq, S, f, Len(seq))
        BY <1>2
    <2>2. \A n \in 0 .. Len(seq) : f[n] = IF n = 0 THEN <<>> ELSE Extended(seq, S, f[n - 1], n)
        <3> SUFFICES ASSUME NEW n \in 0 .. Len(seq)
                     PROVE  f[n] = IF n = 0 THEN <<>> ELSE Extended(seq, S, f[n - 1], n)
            OBVIOUS
        <3>1. CASE n = 0
            BY <2>1, <3>1, Zenon DEF IsKept
        <3>2. CASE n # 0
            BY <2>1, <3>2 DEF IsKept
        <3> QED
            BY <3>1, <3>2
    <2>3. f = [n \in 0 .. Len(seq) |->
                IF n = 0 THEN <<>>
                ELSE IF seq[n] \in S THEN Append(f[n - 1], seq[n])
                ELSE f[n - 1]]
        <3>1. f = [n \in 0 .. Len(seq) |-> IF n = 0 THEN <<>> ELSE Extended(seq, S, f[n - 1], n)]
            BY <2>1, <2>2 DEF IsKept
        <3> QED
            BY <3>1, Zenon DEF Extended
    <2> QED
        BY <2>3, Zenon
<1> HIDE DEF kept
<1>4. IsKept(seq, S, kept, Len(seq))
    <2>1. kept = [n \in 0 .. Len(seq) |-> kept[n]]
        BY <1>3
    <2>2. \A n \in 0 .. Len(seq) : kept[n] =
               IF n = 0 THEN <<>>
               ELSE IF seq[n] \in S THEN Append(kept[n - 1], seq[n])
               ELSE kept[n - 1]
        BY <1>3
    <2>3. \A n \in 1 .. Len(seq) : n # 0 /\ n \in 0 .. Len(seq)
        OBVIOUS
    <2>4. \A n \in 1 .. Len(seq) : kept[n] = Extended(seq, S, kept[n - 1], n)
        BY <2>2, <2>3, Zenon DEF Extended
    <2>5. kept[0] = <<>>
        BY <2>2
    <2> QED
        BY <2>1, <2>4, <2>5, Zenon DEF IsKept
<1> QED
    BY <1>1, <1>4, KeptType

LEMMA KeptLen ==
    ASSUME NEW T, NEW seq \in Seq(T)
    PROVE  Len(seq) \in Nat /\ \A n \in 1 .. Len(seq) : seq[n] \in T
OBVIOUS

LEMMA NoneUpTo ==
    ASSUME NEW T, NEW seq \in Seq(T), NEW S, NEW f, IsKept(seq, S, f, Len(seq)),
           NEW n \in 0 .. Len(seq), \A m \in 1 .. n : seq[m] \notin S
    PROVE  f[n] = <<>>
<1> DEFINE Q == {m \in 0 .. n : f[m] = <<>>}
<1>1. 0 \in Q
    <2>1. 0 \in 0 .. n
        BY KeptLen
    <2>2. f[0] = <<>>
        BY DEF IsKept
    <2> QED
        BY <2>1, <2>2, Zenon
<1>2. ASSUME NEW m \in 1 .. n, m - 1 \in Q PROVE m \in Q
    <2>1. m \in 1 .. Len(seq) /\ m \in 0 .. n
        BY KeptLen
    <2>2. f[m] = Extended(seq, S, f[m - 1], m)
        BY <2>1, Zenon DEF IsKept
    <2>3. f[m] = f[m - 1]
        BY <2>1, <2>2 DEF Extended
    <2> QED
        BY <1>2, <2>1, <2>3, Zenon
<1> HIDE DEF Q
<1>3. n \in Nat /\ n \in 0 .. n
    BY KeptLen
<1>4. \A m \in 0 .. n : m \in Q
    BY <1>1, <1>2, <1>3, UpTo
<1>5. n \in Q
    BY <1>3, <1>4
<1> QED
    BY <1>5, Zenon DEF Q

LEMMA KeptNone ==
    ASSUME NEW T, NEW seq \in Seq(T), NEW S, \A m \in 1 .. Len(seq) : seq[m] \notin S
    PROVE  Kept(seq, S) = <<>>
<1>1. PICK f : IsKept(seq, S, f, Len(seq)) /\ Kept(seq, S) = f[Len(seq)]
    BY KeptSteps
<1>2. Len(seq) \in 0 .. Len(seq)
    BY KeptLen
<1>3. f[Len(seq)] = <<>>
    BY <1>1, <1>2, NoneUpTo
<1> QED
    BY <1>1, <1>3, Zenon

LEMMA AppendToConcat ==
    ASSUME NEW T, NEW s \in Seq(T), NEW t \in Seq(T), NEW x \in T
    PROVE  s \o Append(t, x) = Append(s \o t, x)
<1> DEFINE u == s \o Append(t, x)
           v == Append(s \o t, x)
<1>1. u \in Seq(T) /\ v \in Seq(T) /\ Len(u) = Len(s) + Len(t) + 1 /\ Len(v) = Len(u)
    OBVIOUS
<1>2. \A i \in 1 .. Len(u) : u[i] = v[i]
    OBVIOUS
<1> HIDE DEF u, v
<1>3. u = v
    BY <1>1, <1>2
<1> QED
    BY <1>3 DEF u, v

\* What is kept of two sets, those of the one before those of the other.
LEMMA KeptBoth ==
    ASSUME NEW T, NEW seq \in Seq(T), NEW A, NEW B,
           \A i, j \in 1 .. Len(seq) : i <= j /\ seq[i] \in B => seq[j] \notin A
    PROVE  Kept(seq, A) \o Kept(seq, B) = Kept(seq, A \cup B)
<1>1. PICK f : /\ IsKept(seq, A, f, Len(seq)) /\ Kept(seq, A) = f[Len(seq)]
               /\ \A n \in 0 .. Len(seq) : f[n] \in Seq(T)
    BY KeptSteps
<1>2. PICK g : /\ IsKept(seq, B, g, Len(seq)) /\ Kept(seq, B) = g[Len(seq)]
               /\ \A n \in 0 .. Len(seq) : g[n] \in Seq(T)
    BY KeptSteps
<1>3. PICK h : /\ IsKept(seq, A \cup B, h, Len(seq)) /\ Kept(seq, A \cup B) = h[Len(seq)]
               /\ \A n \in 0 .. Len(seq) : h[n] \in Seq(T)
    BY KeptSteps
<1> DEFINE Q == {m \in 0 .. Len(seq) : f[m] \o g[m] = h[m]}
<1>4. 0 \in Q
    <2>0. 0 \in 0 .. Len(seq)
        BY KeptLen
    <2>1. f[0] = <<>> /\ g[0] = <<>> /\ h[0] = <<>>
        BY <1>1, <1>2, <1>3, Zenon DEF IsKept
    <2>2. <<>> \o <<>> = <<>>
        OBVIOUS
    <2>3. f[0] \o g[0] = h[0]
        BY <2>1, <2>2, Zenon
    <2> QED
        BY <2>0, <2>3
<1>5. ASSUME NEW m \in 1 .. Len(seq), m - 1 \in Q PROVE m \in Q
    <2>1. /\ f[m] = Extended(seq, A, f[m - 1], m) /\ g[m] = Extended(seq, B, g[m - 1], m)
          /\ h[m] = Extended(seq, A \cup B, h[m - 1], m)
        BY <1>1, <1>2, <1>3, Zenon DEF IsKept
    <2>2. m - 1 \in 0 .. Len(seq) /\ m \in 0 .. Len(seq) /\ seq[m] \in T
        BY KeptLen
    <2>3. f[m - 1] \in Seq(T) /\ g[m - 1] \in Seq(T) /\ f[m - 1] \o g[m - 1] = h[m - 1]
        BY <1>1, <1>2, <1>5, <2>2
    <2>4. CASE seq[m] \in A
        <3>1. \A k \in 1 .. m : seq[k] \notin B
            BY <2>4, KeptLen
        <3>2. g[m] = <<>> /\ g[m - 1] = <<>>
            BY <1>2, <2>2, <3>1, NoneUpTo
        <3>3. f[m - 1] = h[m - 1]
            BY <2>3, <3>2
        <3>4. f[m] = Append(f[m - 1], seq[m]) /\ h[m] = Append(h[m - 1], seq[m])
            BY <2>1, <2>4 DEF Extended
        <3>5. f[m] \o <<>> = f[m]
            BY <2>2, <1>1
        <3> QED
            BY <2>2, <3>2, <3>3, <3>4, <3>5
    <2>5. CASE seq[m] \notin A /\ seq[m] \in B
        <3>1. f[m] = f[m - 1] /\ g[m] = Append(g[m - 1], seq[m]) /\ h[m] = Append(h[m - 1], seq[m])
            BY <2>1, <2>5 DEF Extended
        <3>0. \A s, t \in Seq(T) : \A x \in T : s \o Append(t, x) = Append(s \o t, x)
            BY AppendToConcat
        <3>2. f[m - 1] \o Append(g[m - 1], seq[m]) = Append(f[m - 1] \o g[m - 1], seq[m])
            BY <2>2, <2>3, <3>0, Zenon
        <3> QED
            BY <2>2, <2>3, <3>1, <3>2
    <2>6. CASE seq[m] \notin A /\ seq[m] \notin B
        BY <2>1, <2>2, <2>3, <2>6 DEF Extended
    <2> QED
        BY <2>4, <2>5, <2>6
<1>6. Len(seq) \in Nat /\ Len(seq) \in 0 .. Len(seq)
    BY KeptLen
<1> HIDE DEF Q
<1>7. \A m \in 0 .. Len(seq) : m \in Q
    BY <1>4, <1>5, <1>6, UpTo
<1>8. Len(seq) \in Q
    BY <1>6, <1>7
<1> QED
    BY <1>1, <1>2, <1>3, <1>8, Zenon DEF Q

LEMMA KeptAll ==
    ASSUME NEW T, NEW seq \in Seq(T), NEW S, \A m \in 1 .. Len(seq) : seq[m] \in S
    PROVE  Kept(seq, S) = seq
<1>1. PICK f : /\ IsKept(seq, S, f, Len(seq)) /\ Kept(seq, S) = f[Len(seq)]
               /\ \A n \in 0 .. Len(seq) : f[n] \in Seq(T)
    BY KeptSteps
<1> DEFINE Q == {m \in 0 .. Len(seq) : f[m] = SubSeq(seq, 1, m)}
<1>2. 0 \in Q
    <2>0. 0 \in 0 .. Len(seq)
        BY KeptLen
    <2>1. f[0] = <<>>
        BY <1>1, Zenon DEF IsKept
    <2>2. SubSeq(seq, 1, 0) = <<>>
        OBVIOUS
    <2> QED
        BY <2>0, <2>1, <2>2, Zenon
<1>3. ASSUME NEW m \in 1 .. Len(seq), m - 1 \in Q PROVE m \in Q
    <2>1. f[m] = Append(f[m - 1], seq[m])
        BY <1>1 DEF IsKept, Extended
    <2>2. m \in 0 .. Len(seq) /\ f[m - 1] = SubSeq(seq, 1, m - 1)
        BY <1>3, KeptLen
    <2>3. Append(SubSeq(seq, 1, m - 1), seq[m]) = SubSeq(seq, 1, m)
        BY KeptLen
    <2> QED
        BY <2>1, <2>2, <2>3
<1>4. Len(seq) \in Nat /\ Len(seq) \in 0 .. Len(seq)
    BY KeptLen
<1> HIDE DEF Q
<1>5. \A m \in 0 .. Len(seq) : m \in Q
    BY <1>2, <1>3, <1>4, UpTo
<1>6. f[Len(seq)] = SubSeq(seq, 1, Len(seq))
    BY <1>4, <1>5 DEF Q
<1>7. SubSeq(seq, 1, Len(seq)) = seq
    OBVIOUS
<1> QED
    BY <1>1, <1>6, <1>7

\* The elements kept are elements, and in the order they had.
LEMMA KeptOrder ==
    ASSUME NEW T, NEW seq \in Seq(T), NEW S, NEW R,
           \A i, j \in 1 .. Len(seq) : i < j => <<seq[i], seq[j]>> \in R
    PROVE  /\ Kept(seq, S) \in Seq(T)
           /\ \A i \in 1 .. Len(Kept(seq, S)) : \E k \in 1 .. Len(seq) : Kept(seq, S)[i] = seq[k]
           /\ \A i, j \in 1 .. Len(Kept(seq, S)) : i < j => <<Kept(seq, S)[i], Kept(seq, S)[j]>> \in R
<1>1. PICK f : /\ IsKept(seq, S, f, Len(seq)) /\ Kept(seq, S) = f[Len(seq)]
               /\ \A n \in 0 .. Len(seq) : f[n] \in Seq(T)
    BY KeptSteps
<1> DEFINE From(m) == \A i \in 1 .. Len(f[m]) : \E k \in 1 .. m : f[m][i] = seq[k]
           Order(m) == \A i, j \in 1 .. Len(f[m]) : i < j => <<f[m][i], f[m][j]>> \in R
           Q == {m \in 0 .. Len(seq) : From(m) /\ Order(m)}
<1>2. 0 \in Q
    <2>1. 0 \in 0 .. Len(seq)
        BY KeptLen
    <2>2. f[0] = <<>>
        BY <1>1, Zenon DEF IsKept
    <2>3. Len(<<>>) = 0
        OBVIOUS
    <2>4. Len(f[0]) = 0
        BY <2>2, <2>3, Zenon
    <2> QED
        BY <2>1, <2>4
<1>3. ASSUME NEW m \in 1 .. Len(seq), m - 1 \in Q PROVE m \in Q
    <2>1. m \in 0 .. Len(seq) /\ m - 1 \in 0 .. Len(seq) /\ seq[m] \in T
        BY KeptLen
    <2>2. f[m] = Extended(seq, S, f[m - 1], m)
        BY <1>1, Zenon DEF IsKept
    <2> DEFINE s == f[m - 1]
    <2>3. /\ s \in Seq(T)
          /\ \A i \in 1 .. Len(s) : \E k \in 1 .. m - 1 : s[i] = seq[k]
          /\ \A i, j \in 1 .. Len(s) : i < j => <<s[i], s[j]>> \in R
        BY <1>1, <1>3, <2>1
    <2>4. f[m] = Extended(seq, S, s, m)
        BY <2>2
    <2> HIDE DEF s
    <2>5. CASE seq[m] \in S
        <3>1. f[m] = Append(s, seq[m])
            BY <2>4, <2>5 DEF Extended
        <3>2. /\ Len(f[m]) = Len(s) + 1 /\ Len(s) \in Nat
              /\ \A i \in 1 .. Len(s) : f[m][i] = s[i]
              /\ f[m][Len(s) + 1] = seq[m]
            BY <2>1, <2>3, <3>1
        <3>3. From(m)
            BY <2>3, <3>2, KeptLen
        <3>4. \A i \in 1 .. Len(s) : <<s[i], seq[m]>> \in R
            <4> SUFFICES ASSUME NEW i \in 1 .. Len(s) PROVE <<s[i], seq[m]>> \in R
                OBVIOUS
            <4>1. PICK k \in 1 .. m - 1 : s[i] = seq[k]
                BY <2>3
            <4>2. k \in 1 .. Len(seq) /\ k < m
                BY KeptLen
            <4> QED
                BY <4>1, <4>2
        <3>5. Order(m)
            <4> SUFFICES ASSUME NEW i \in 1 .. Len(f[m]), NEW j \in 1 .. Len(f[m]), i < j
                         PROVE  <<f[m][i], f[m][j]>> \in R
                OBVIOUS
            <4>1. CASE j = Len(s) + 1
                <5>1. i \in 1 .. Len(s)
                    BY <3>2, <4>1
                <5> QED
                    BY <3>2, <3>4, <4>1, <5>1
            <4>2. CASE j # Len(s) + 1
                <5>1. i \in 1 .. Len(s) /\ j \in 1 .. Len(s)
                    BY <3>2, <4>2
                <5> QED
                    BY <2>3, <3>2, <5>1
            <4> QED
                BY <4>1, <4>2
        <3> QED
            BY <2>1, <3>3, <3>5
    <2>6. CASE seq[m] \notin S
        <3>1. f[m] = s
            BY <2>4, <2>6 DEF Extended
        <3>2. From(m)
            BY <2>3, <3>1, KeptLen
        <3>3. Order(m)
            BY <2>3, <3>1
        <3> QED
            BY <2>1, <3>2, <3>3
    <2> QED
        BY <2>5, <2>6
<1>4. Len(seq) \in Nat /\ Len(seq) \in 0 .. Len(seq)
    BY KeptLen
<1> HIDE DEF Q
<1>5. \A m \in 0 .. Len(seq) : m \in Q
    BY <1>2, <1>3, <1>4, UpTo
<1>6. From(Len(seq)) /\ Order(Len(seq))
    BY <1>4, <1>5 DEF Q
<1> QED
    BY <1>1, <1>4, <1>6

\* What is kept when one is not.
LEMMA KeptButOne ==
    ASSUME NEW T, NEW seq \in Seq(T), NEW S, NEW at \in 1 .. Len(seq), seq[at] \notin S,
           \A i \in 1 .. Len(seq) : i # at => seq[i] \in S
    PROVE  Kept(seq, S) = SubSeq(seq, 1, at - 1) \o SubSeq(seq, at + 1, Len(seq))
<1>1. PICK f : /\ IsKept(seq, S, f, Len(seq)) /\ Kept(seq, S) = f[Len(seq)]
               /\ \A n \in 0 .. Len(seq) : f[n] \in Seq(T)
    BY KeptSteps
<1> DEFINE Before(m) == m < at => f[m] = SubSeq(seq, 1, m)
           After(m) == at <= m => f[m] = SubSeq(seq, 1, at - 1) \o SubSeq(seq, at + 1, m)
           Q == {m \in 0 .. Len(seq) : Before(m) /\ After(m)}
<1>2. 0 \in Q
    <2>1. 0 \in 0 .. Len(seq) /\ 0 < at /\ ~(at <= 0)
        BY KeptLen
    <2>2. f[0] = <<>>
        BY <1>1, Zenon DEF IsKept
    <2>3. SubSeq(seq, 1, 0) = <<>>
        OBVIOUS
    <2> QED
        BY <2>1, <2>2, <2>3, Zenon
<1>3. ASSUME NEW m \in 1 .. Len(seq), m - 1 \in Q PROVE m \in Q
    <2>1. m \in 0 .. Len(seq) /\ m - 1 \in 0 .. Len(seq) /\ seq[m] \in T
        BY KeptLen
    <2>2. f[m] = Extended(seq, S, f[m - 1], m)
        BY <1>1, Zenon DEF IsKept
    <2>p. Before(m - 1) /\ After(m - 1)
        BY <1>3, Zenon
    <2>3. CASE m < at
        <3>0. f[m - 1] = SubSeq(seq, 1, m - 1) /\ seq[m] \in S /\ ~(at <= m)
            BY <2>1, <2>3, <2>p, KeptLen
        <3>1. f[m] = Append(SubSeq(seq, 1, m - 1), seq[m])
            BY <2>2, <3>0, Zenon DEF Extended
        <3>2. Append(SubSeq(seq, 1, m - 1), seq[m]) = SubSeq(seq, 1, m)
            BY KeptLen
        <3> QED
            BY <2>1, <3>0, <3>1, <3>2, Zenon
    <2>4. CASE m = at
        <3>0. f[m - 1] = SubSeq(seq, 1, m - 1) /\ seq[m] \notin S /\ ~(m < at)
            BY <2>1, <2>4, <2>p, KeptLen
        <3>1. f[m] = SubSeq(seq, 1, m - 1)
            BY <2>2, <3>0, Zenon DEF Extended
        <3>2. SubSeq(seq, 1, at - 1) \o SubSeq(seq, at + 1, at) = SubSeq(seq, 1, at - 1)
            BY KeptLen
        <3>3. f[m] = SubSeq(seq, 1, at - 1) \o SubSeq(seq, at + 1, m)
            BY <2>4, <3>1, <3>2
        <3> QED
            BY <2>1, <3>0, <3>3, Zenon
    <2>5. CASE m > at
        <3>0. f[m - 1] = SubSeq(seq, 1, at - 1) \o SubSeq(seq, at + 1, m - 1) /\ seq[m] \in S /\ ~(m < at)
            BY <2>1, <2>5, <2>p, KeptLen
        <3>1. f[m] = Append(SubSeq(seq, 1, at - 1) \o SubSeq(seq, at + 1, m - 1), seq[m])
            BY <2>2, <3>0, Zenon DEF Extended
        <3>2. SubSeq(seq, 1, at - 1) \in Seq(T) /\ SubSeq(seq, at + 1, m - 1) \in Seq(T)
            BY KeptLen
        <3>3. Append(SubSeq(seq, at + 1, m - 1), seq[m]) = SubSeq(seq, at + 1, m)
            BY KeptLen, <2>5
        <3>4. SubSeq(seq, 1, at - 1) \o Append(SubSeq(seq, at + 1, m - 1), seq[m])
                = Append(SubSeq(seq, 1, at - 1) \o SubSeq(seq, at + 1, m - 1), seq[m])
            BY <2>1, <3>2, AppendToConcat
        <3>5. f[m] = SubSeq(seq, 1, at - 1) \o SubSeq(seq, at + 1, m)
            BY <3>1, <3>3, <3>4
        <3> QED
            BY <2>1, <3>0, <3>5, Zenon
    <2> QED
        BY <2>3, <2>4, <2>5
<1>4. Len(seq) \in Nat /\ Len(seq) \in 0 .. Len(seq) /\ at <= Len(seq)
    BY KeptLen
<1> HIDE DEF Q
<1>5. \A m \in 0 .. Len(seq) : m \in Q
    BY <1>2, <1>3, <1>4, UpTo
<1>6. Len(seq) \in Q
    BY <1>4, <1>5
<1>7. After(Len(seq))
    BY <1>6, Zenon DEF Q
<1> QED
    BY <1>1, <1>4, <1>7, Zenon

-----------------------------------------------------------------------------
(* Sequences with one element less and with one more                      *)

\* r is s followed by t.
IsJoin(r, s, t, T) ==
    /\ r \in Seq(T) /\ Len(r) = Len(s) + Len(t)
    /\ \A k \in 1 .. Len(s) + Len(t) : r[k] = IF k <= Len(s) THEN s[k] ELSE t[k - Len(s)]

LEMMA Joined ==
    ASSUME NEW T, NEW s \in Seq(T), NEW t \in Seq(T)
    PROVE  IsJoin(s \o t, s, t, T)
BY DEF IsJoin

IsCut(r, seq, i, n, T) ==
    r \in Seq(T) /\ Len(r) = n /\ \A k \in 1 .. n : r[k] = seq[k + i - 1]

LEMMA CutOut ==
    ASSUME NEW T, NEW seq \in Seq(T), NEW i \in 1 .. Len(seq) + 1, NEW j \in 0 .. Len(seq), i <= j + 1
    PROVE  IsCut(SubSeq(seq, i, j), seq, i, j - i + 1, T)
BY DEF IsCut

\* r is seq without the element at a position.
LacksOne(r, seq, at, T) ==
    /\ r \in Seq(T) /\ Len(r) = Len(seq) - 1
    /\ \A k \in 1 .. Len(r) : r[k] = IF k < at THEN seq[k] ELSE seq[k + 1]

LEMMA WithoutOne ==
    ASSUME NEW T, NEW seq \in Seq(T), NEW at \in 1 .. Len(seq), NEW s, NEW t, NEW r,
           IsCut(s, seq, 1, at - 1, T), IsCut(t, seq, at + 1, Len(seq) - at, T), IsJoin(r, s, t, T)
    PROVE  LacksOne(r, seq, at, T)
<1>1. Len(seq) \in Nat /\ Len(s) = at - 1 /\ Len(t) = Len(seq) - at
    BY DEF IsCut
<1>2. r \in Seq(T) /\ Len(r) = Len(seq) - 1
    BY <1>1 DEF IsJoin
<1>3. ASSUME NEW k \in 1 .. Len(r) PROVE r[k] = IF k < at THEN seq[k] ELSE seq[k + 1]
    <2>1. k \in 1 .. Len(s) + Len(t)
        BY <1>1, <1>2
    <2>2. r[k] = IF k <= Len(s) THEN s[k] ELSE t[k - Len(s)]
        BY <2>1, Zenon DEF IsJoin
    <2>3. CASE k < at
        <3>1. k \in 1 .. at - 1 /\ k + 1 - 1 = k /\ k <= Len(s)
            BY <1>1, <1>2, <2>3
        <3>2. s[k] = seq[k + 1 - 1]
            BY <3>1, Zenon DEF IsCut
        <3> QED
            BY <2>2, <2>3, <3>1, <3>2
    <2>4. CASE ~(k < at)
        <3>1. /\ k - Len(s) \in 1 .. Len(seq) - at /\ ~(k <= Len(s))
              /\ k - Len(s) + (at + 1) - 1 = k + 1
            BY <1>1, <1>2, <2>4
        <3>2. t[k - Len(s)] = seq[k - Len(s) + (at + 1) - 1]
            BY <3>1, Zenon DEF IsCut
        <3> QED
            BY <2>2, <2>4, <3>1, <3>2
    <2> QED
        BY <2>3, <2>4
<1> QED
    BY <1>2, <1>3 DEF LacksOne

LEMMA Removed ==
    ASSUME NEW T, NEW seq \in Seq(T), NEW at \in 1 .. Len(seq)
    PROVE  LacksOne(SubSeq(seq, 1, at - 1) \o SubSeq(seq, at + 1, Len(seq)), seq, at, T)
<1> DEFINE s == SubSeq(seq, 1, at - 1)
           t == SubSeq(seq, at + 1, Len(seq))
<1>0. /\ Len(seq) \in Nat /\ at - 1 - 1 + 1 = at - 1 /\ Len(seq) - (at + 1) + 1 = Len(seq) - at
      /\ 1 \in 1 .. Len(seq) + 1 /\ at + 1 \in 1 .. Len(seq) + 1 /\ at - 1 \in 0 .. Len(seq)
      /\ Len(seq) \in 0 .. Len(seq) /\ 1 <= at - 1 + 1 /\ at + 1 <= Len(seq) + 1
    OBVIOUS
<1>1. IsCut(s, seq, 1, at - 1 - 1 + 1, T)
    BY <1>0, CutOut
<1>2. IsCut(t, seq, at + 1, Len(seq) - (at + 1) + 1, T)
    BY <1>0, CutOut
<1>3. IsCut(s, seq, 1, at - 1, T) /\ IsCut(t, seq, at + 1, Len(seq) - at, T)
    BY <1>0, <1>1, <1>2
<1>4. IsJoin(s \o t, s, t, T)
    BY <1>3, Joined DEF IsCut
<1>5. LacksOne(s \o t, seq, at, T)
    <2> HIDE DEF s, t
    <2> QED
        BY <1>3, <1>4, WithoutOne
<1> QED
    BY <1>5, Zenon

\* r is seq with x at a position.
HasOneMore(r, seq, at, x, T) ==
    /\ r \in Seq(T) /\ Len(r) = Len(seq) + 1
    /\ \A k \in 1 .. Len(r) : r[k] = IF k < at THEN seq[k] ELSE IF k = at THEN x ELSE seq[k - 1]

LEMMA WithOneMore ==
    ASSUME NEW T, NEW seq \in Seq(T), NEW at \in 1 .. Len(seq) + 1, NEW x \in T,
           NEW a, NEW b, NEW s, NEW t, NEW r, b = <<x>>,
           IsCut(a, seq, 1, at - 1, T), IsJoin(s, a, b, T),
           IsCut(t, seq, at, Len(seq) - at + 1, T), IsJoin(r, s, t, T)
    PROVE  HasOneMore(r, seq, at, x, T)
<1>0. Len(b) = 1 /\ b[1] = x
    OBVIOUS
<1>1. /\ Len(seq) \in Nat /\ Len(a) = at - 1 /\ Len(s) = at /\ Len(t) = Len(seq) - at + 1
    BY <1>0 DEF IsCut, IsJoin
<1>2. r \in Seq(T) /\ Len(r) = Len(seq) + 1
    BY <1>1 DEF IsJoin
<1>3. ASSUME NEW k \in 1 .. Len(r)
      PROVE  r[k] = IF k < at THEN seq[k] ELSE IF k = at THEN x ELSE seq[k - 1]
    <2>1. k \in 1 .. Len(s) + Len(t)
        BY <1>1, <1>2
    <2>2. r[k] = IF k <= Len(s) THEN s[k] ELSE t[k - Len(s)]
        BY <2>1, Zenon DEF IsJoin
    <2>3. CASE k <= at
        <3>1. k \in 1 .. Len(a) + Len(b) /\ k <= Len(s)
            BY <1>0, <1>1, <1>2, <2>3
        <3>2. s[k] = IF k <= Len(a) THEN a[k] ELSE b[k - Len(a)]
            BY <3>1, Zenon DEF IsJoin
        <3>3. k < at => k \in 1 .. at - 1 /\ k + 1 - 1 = k /\ k <= Len(a)
            BY <1>1, <1>2
        <3>4. k < at => a[k] = seq[k]
            <4> SUFFICES ASSUME k < at PROVE a[k] = seq[k]
                OBVIOUS
            <4>1. a[k] = seq[k + 1 - 1]
                BY <3>3, Zenon DEF IsCut
            <4> QED
                BY <3>3, <4>1
        <3>5. k = at => k - Len(a) = 1 /\ ~(k <= Len(a))
            BY <1>1
        <3>6. k = at => s[k] = x
            BY <1>0, <3>2, <3>5, Zenon
        <3>7. k < at => s[k] = seq[k]
            BY <3>2, <3>3, <3>4, Zenon
        <3>8. r[k] = s[k]
            BY <2>2, <3>1, Zenon
        <3>9. k < at \/ (k = at /\ ~(k < at))
            BY <1>1, <1>2, <2>3
        <3> QED
            BY <3>6, <3>7, <3>8, <3>9, Zenon
    <2>4. CASE ~(k <= at)
        <3>1. /\ k - Len(s) \in 1 .. Len(seq) - at + 1 /\ ~(k <= Len(s)) /\ ~(k < at) /\ k # at
              /\ k - Len(s) + at - 1 = k - 1
            BY <1>1, <1>2, <2>4
        <3>2. t[k - Len(s)] = seq[k - Len(s) + at - 1]
            BY <3>1, Zenon DEF IsCut
        <3>3. r[k] = t[k - Len(s)]
            BY <2>2, <3>1, Zenon
        <3> QED
            BY <3>1, <3>2, <3>3, Zenon
    <2> QED
        BY <2>3, <2>4
<1> QED
    BY <1>2, <1>3 DEF HasOneMore

LEMMA KeptLacks ==
    ASSUME NEW T, NEW seq \in Seq(T), NEW S, NEW at \in 1 .. Len(seq), seq[at] \notin S,
           \A i \in 1 .. Len(seq) : i # at => seq[i] \in S
    PROVE  LacksOne(Kept(seq, S), seq, at, T)
<1>1. Kept(seq, S) = SubSeq(seq, 1, at - 1) \o SubSeq(seq, at + 1, Len(seq))
    BY KeptButOne
<1>2. LacksOne(SubSeq(seq, 1, at - 1) \o SubSeq(seq, at + 1, Len(seq)), seq, at, T)
    BY Removed
<1> QED
    BY <1>1, <1>2, Zenon

LEMMA AppendHasMore ==
    ASSUME NEW T, NEW seq \in Seq(T), NEW x \in T
    PROVE  HasOneMore(Append(seq, x), seq, Len(seq) + 1, x, T)
BY DEF HasOneMore

Elements(seq) == {seq[i] : i \in 1 .. Len(seq)}

\* Where the elements come from: two of them from two.
ComesLess(r, seq, at) ==
    /\ \A i, j \in 1 .. Len(r) : i # j =>
         \E m, n \in 1 .. Len(seq) : m # n /\ r[i] = seq[m] /\ r[j] = seq[n]
    /\ \A k \in 1 .. Len(r) : \E i \in 1 .. Len(seq) : i # at /\ r[k] = seq[i]
    /\ \A i \in 1 .. Len(seq) : i # at => \E k \in 1 .. Len(r) : r[k] = seq[i]

LEMMA LacksFrom ==
    ASSUME NEW T, NEW seq \in Seq(T), NEW at \in 1 .. Len(seq), NEW r, LacksOne(r, seq, at, T)
    PROVE  ComesLess(r, seq, at)
<1>1. Len(seq) \in Nat /\ Len(r) = Len(seq) - 1
    BY KeptLen, Zenon DEF LacksOne
<1>2. ASSUME NEW k \in 1 .. Len(r)
      PROVE  r[k] = seq[IF k < at THEN k ELSE k + 1]
    BY <1>2, Zenon DEF LacksOne
<1>4. ASSUME NEW i \in 1 .. Len(r), NEW j \in 1 .. Len(r), i # j
      PROVE  \E m, n \in 1 .. Len(seq) : m # n /\ r[i] = seq[m] /\ r[j] = seq[n]
    <2> DEFINE m == IF i < at THEN i ELSE i + 1
               n == IF j < at THEN j ELSE j + 1
    <2>1. m \in 1 .. Len(seq) /\ n \in 1 .. Len(seq) /\ m # n
        BY <1>1, <1>4
    <2>2. r[i] = seq[m] /\ r[j] = seq[n]
        BY <1>2
    <2> HIDE DEF m, n
    <2> QED
        BY <2>1, <2>2, Zenon
<1>5. \A k \in 1 .. Len(r) : \E i \in 1 .. Len(seq) : i # at /\ r[k] = seq[i]
    <2> TAKE k \in 1 .. Len(r)
    <2> DEFINE m == IF k < at THEN k ELSE k + 1
    <2>1. m \in 1 .. Len(seq) /\ m # at
        BY <1>1
    <2>2. r[k] = seq[m]
        BY <1>2
    <2> QED
        BY <2>1, <2>2, Zenon
<1>6. \A i \in 1 .. Len(seq) : i # at => \E k \in 1 .. Len(r) : r[k] = seq[i]
    <2> SUFFICES ASSUME NEW i \in 1 .. Len(seq), i # at PROVE \E k \in 1 .. Len(r) : r[k] = seq[i]
        OBVIOUS
    <2> DEFINE k == IF i < at THEN i ELSE i - 1
    <2>1. k \in 1 .. Len(r) /\ (IF k < at THEN k ELSE k + 1) = i
        BY <1>1
    <2> HIDE DEF k
    <2>2. r[k] = seq[i]
        BY <1>2, <2>1, Zenon
    <2> QED
        BY <2>1, <2>2
<1> QED
    BY <1>4, <1>5, <1>6, Zenon DEF ComesLess

ComesMore(r, seq, at, x) ==
    /\ at \in 1 .. Len(r) /\ r[at] = x
    /\ \A k \in 1 .. Len(r) : k # at => \E i \in 1 .. Len(seq) : r[k] = seq[i]
    /\ \A i, j \in 1 .. Len(r) : i # j /\ i # at /\ j # at =>
         \E m, n \in 1 .. Len(seq) : m # n /\ r[i] = seq[m] /\ r[j] = seq[n]
    /\ \A i \in 1 .. Len(seq) : \E k \in 1 .. Len(r) : r[k] = seq[i]

LEMMA MoreFrom ==
    ASSUME NEW T, NEW seq \in Seq(T), NEW at \in 1 .. Len(seq) + 1, NEW x \in T,
           NEW r, HasOneMore(r, seq, at, x, T)
    PROVE  ComesMore(r, seq, at, x)
<1>1. Len(seq) \in Nat /\ Len(r) = Len(seq) + 1
    BY KeptLen, Zenon DEF HasOneMore
<1>3. at \in 1 .. Len(r) /\ r[at] = x
    BY <1>1 DEF HasOneMore
<1>4. ASSUME NEW k \in 1 .. Len(r), k # at
      PROVE  \E i \in 1 .. Len(seq) : i = (IF k < at THEN k ELSE k - 1) /\ r[k] = seq[i]
    <2>1. (IF k < at THEN k ELSE k - 1) \in 1 .. Len(seq)
        BY <1>1, <1>4
    <2>2. r[k] = seq[IF k < at THEN k ELSE k - 1]
        BY <1>4, Zenon DEF HasOneMore
    <2> QED
        BY <2>1, <2>2, Zenon
<1>5. \A i \in 1 .. Len(seq) : \E k \in 1 .. Len(r) : r[k] = seq[i]
    <2> TAKE i \in 1 .. Len(seq)
    <2> DEFINE k == IF i < at THEN i ELSE i + 1
    <2>1. k \in 1 .. Len(r) /\ k # at /\ (IF k < at THEN k ELSE k - 1) = i
        BY <1>1
    <2> HIDE DEF k
    <2> QED
        BY <1>4, <2>1, Zenon
<1>6. ASSUME NEW i \in 1 .. Len(r), NEW j \in 1 .. Len(r), i # j, i # at, j # at
      PROVE  \E m, n \in 1 .. Len(seq) : m # n /\ r[i] = seq[m] /\ r[j] = seq[n]
    <2>1. PICK m \in 1 .. Len(seq) : m = (IF i < at THEN i ELSE i - 1) /\ r[i] = seq[m]
        BY <1>4, <1>6, Zenon
    <2>2. PICK n \in 1 .. Len(seq) : n = (IF j < at THEN j ELSE j - 1) /\ r[j] = seq[n]
        BY <1>4, <1>6, Zenon
    <2>3. m # n
        BY <1>1, <1>6, <2>1, <2>2
    <2> QED
        BY <2>1, <2>2, <2>3, Zenon
<1> QED
    BY <1>3, <1>4, <1>5, <1>6, Zenon DEF ComesMore

\* No element twice.
Distinct(seq) == \A i, j \in 1 .. Len(seq) : seq[i] = seq[j] => i = j

LEMMA DistinctLacks ==
    ASSUME NEW T, NEW seq \in Seq(T), Distinct(seq), NEW at \in 1 .. Len(seq),
           NEW r, LacksOne(r, seq, at, T)
    PROVE  Distinct(r) /\ Elements(r) = Elements(seq) \ {seq[at]}
<1>0. ComesLess(r, seq, at)
    BY LacksFrom
<1>1. Distinct(r)
    <2> SUFFICES ASSUME NEW i \in 1 .. Len(r), NEW j \in 1 .. Len(r), i # j PROVE r[i] # r[j]
        BY Zenon DEF Distinct
    <2>1. PICK m \in 1 .. Len(seq), n \in 1 .. Len(seq) : m # n /\ r[i] = seq[m] /\ r[j] = seq[n]
        BY <1>0, Zenon DEF ComesLess
    <2> QED
        BY <2>1, Zenon DEF Distinct
<1>2. \A k \in 1 .. Len(r) : \E i \in 1 .. Len(seq) : i # at /\ r[k] = seq[i]
    BY <1>0, Zenon DEF ComesLess
<1>3. \A i \in 1 .. Len(seq) : i # at => \E k \in 1 .. Len(r) : r[k] = seq[i]
    BY <1>0, Zenon DEF ComesLess
<1>4. \A i \in 1 .. Len(seq) : i # at => seq[i] # seq[at]
    BY Zenon DEF Distinct
<1>5. \A y : y \in Elements(r) <=> \E k \in 1 .. Len(r) : r[k] = y
    BY Zenon DEF Elements
<1>6. \A y : y \in Elements(seq) <=> \E k \in 1 .. Len(seq) : seq[k] = y
    BY Zenon DEF Elements
<1>7. \A y : y \in Elements(r) <=> y \in Elements(seq) /\ y # seq[at]
    <2>1. ASSUME NEW y \in Elements(r) PROVE y \in Elements(seq) /\ y # seq[at]
        <3>1. PICK k \in 1 .. Len(r) : r[k] = y
            BY <1>5, Zenon
        <3>2. PICK i \in 1 .. Len(seq) : i # at /\ r[k] = seq[i]
            BY <1>2, Zenon
        <3> QED
            BY <1>4, <1>6, <3>1, <3>2, Zenon
    <2>2. ASSUME NEW y \in Elements(seq), y # seq[at] PROVE y \in Elements(r)
        BY <1>3, <1>5, <1>6, <2>2, Zenon
    <2> QED
        BY <2>1, <2>2, Zenon
<1> QED
    BY <1>1, <1>7, Zenon

LEMMA DistinctMore ==
    ASSUME NEW T, NEW seq \in Seq(T), Distinct(seq), NEW at \in 1 .. Len(seq) + 1, NEW x \in T,
           x \notin Elements(seq), NEW r, HasOneMore(r, seq, at, x, T)
    PROVE  Distinct(r) /\ Elements(r) = Elements(seq) \cup {x}
<1>0. ComesMore(r, seq, at, x)
    BY MoreFrom
<1>1. at \in 1 .. Len(r) /\ r[at] = x
    BY <1>0, Zenon DEF ComesMore
<1>2. \A k \in 1 .. Len(r) : k # at => \E i \in 1 .. Len(seq) : r[k] = seq[i]
    BY <1>0, Zenon DEF ComesMore
<1>3. \A i \in 1 .. Len(seq) : \E k \in 1 .. Len(r) : r[k] = seq[i]
    BY <1>0, Zenon DEF ComesMore
<1>4. \A k \in 1 .. Len(r) : k # at => r[k] # x
    BY <1>2 DEF Elements
<1>5. \A i, j \in 1 .. Len(r) : i # j /\ i # at /\ j # at => r[i] # r[j]
    <2> SUFFICES ASSUME NEW i \in 1 .. Len(r), NEW j \in 1 .. Len(r), i # j, i # at, j # at
                 PROVE  r[i] # r[j]
        BY Zenon
    <2>1. PICK m \in 1 .. Len(seq), n \in 1 .. Len(seq) : m # n /\ r[i] = seq[m] /\ r[j] = seq[n]
        BY <1>0, Zenon DEF ComesMore
    <2> QED
        BY <2>1, Zenon DEF Distinct
<1>6. Distinct(r)
    BY <1>1, <1>4, <1>5, Zenon DEF Distinct
<1>7. \A y : y \in Elements(r) <=> \E k \in 1 .. Len(r) : r[k] = y
    BY Zenon DEF Elements
<1>8. \A y : y \in Elements(seq) <=> \E k \in 1 .. Len(seq) : seq[k] = y
    BY Zenon DEF Elements
<1>9. \A y : y \in Elements(r) <=> y \in Elements(seq) \/ y = x
    BY <1>1, <1>2, <1>3, <1>7, <1>8, Zenon
<1> QED
    BY <1>6, <1>9, Zenon

LEMMA DivisionInOrder ==
    ASSUME NEW a \in Nat, NEW b \in Nat, NEW n \in Nat \ {0}, a <= b
    PROVE  a \div n \in Nat /\ a \div n <= b \div n
<1> DEFINE x == a \div n
           y == b \div n
<1>1. x \in Nat /\ y \in Nat
    OBVIOUS
<1>2. a = n * x + (a % n) /\ 0 <= a % n /\ b = n * y + (b % n) /\ b % n < n
    OBVIOUS
<1> HIDE DEF x, y
<1>3. SUFFICES ASSUME y + 1 <= x PROVE FALSE
    BY <1>1 DEF x, y
<1>4. n * (y + 1) <= n * x /\ n * (y + 1) = n * y + n
    BY <1>1, <1>3
<1>5. a % n \in Nat /\ b % n \in Nat
    OBVIOUS
<1> QED
    BY <1>1, <1>2, <1>4, <1>5

LEMMA SameSeq ==
    ASSUME NEW T, NEW u \in Seq(T), NEW v \in Seq(T), Len(u) = Len(v),
           \A i \in 1 .. Len(u) : u[i] = v[i]
    PROVE  u = v
OBVIOUS

-----------------------------------------------------------------------------
(* A filter over what is laid end to end                                   *)

\* What a filter keeps of s \o t is what it keeps of s, then of t.
Splits(s, t, S, T) ==
    /\ Kept(s, S) \in Seq(T)
    /\ Kept(s \o t, S) = Kept(s, S) \o Kept(t, S)

\* The recursion on a sequence that is followed by another goes on where that
\* of the first has ended.
LEMMA KeptConcat ==
    ASSUME NEW T, NEW s \in Seq(T), NEW t \in Seq(T), NEW S
    PROVE  Splits(s, t, S, T)
<1> DEFINE u == s \o t
<1>0. u \in Seq(T) /\ Len(u) = Len(s) + Len(t) /\ Len(s) \in Nat /\ Len(t) \in Nat
    OBVIOUS
<1>e. /\ \A m \in 1 .. Len(s) : u[m] = s[m]
      /\ \A m \in 1 .. Len(t) : u[Len(s) + m] = t[m]
    OBVIOUS
<1> HIDE DEF u
<1>1. PICK f : /\ IsKept(s, S, f, Len(s)) /\ Kept(s, S) = f[Len(s)]
               /\ \A n \in 0 .. Len(s) : f[n] \in Seq(T)
    BY KeptSteps
<1>2. PICK g : /\ IsKept(t, S, g, Len(t)) /\ Kept(t, S) = g[Len(t)]
               /\ \A n \in 0 .. Len(t) : g[n] \in Seq(T)
    BY KeptSteps
<1>3. PICK h : /\ IsKept(u, S, h, Len(u)) /\ Kept(u, S) = h[Len(u)]
               /\ \A n \in 0 .. Len(u) : h[n] \in Seq(T)
    BY <1>0, KeptSteps
<1> DEFINE P == {m \in 0 .. Len(s) : h[m] = f[m]}
           Q == {m \in 0 .. Len(t) : h[Len(s) + m] = f[Len(s)] \o g[m]}
<1>4. 0 \in P
    <2>1. h[0] = <<>> /\ f[0] = <<>>
        BY <1>1, <1>3, Zenon DEF IsKept
    <2> QED
        BY <1>0, <2>1
<1>5. ASSUME NEW m \in 1 .. Len(s), m - 1 \in P PROVE m \in P
    <2>1. m \in 1 .. Len(u) /\ m \in 0 .. Len(s) /\ h[m - 1] = f[m - 1]
        BY <1>0, <1>5
    <2>2. h[m] = Extended(u, S, h[m - 1], m) /\ f[m] = Extended(s, S, f[m - 1], m)
        BY <1>1, <1>3, <2>1, Zenon DEF IsKept
    <2>3. u[m] = s[m]
        BY <1>e
    <2>4. Extended(u, S, f[m - 1], m) = Extended(s, S, f[m - 1], m)
        BY <2>3, Zenon DEF Extended
    <2>5. h[m] = f[m]
        BY <2>1, <2>2, <2>4, Zenon
    <2> QED
        BY <2>1, <2>5
<1> HIDE DEF P
<1>6. \A m \in 0 .. Len(s) : m \in P
    BY <1>0, <1>4, <1>5, UpTo
<1>7. h[Len(s)] = f[Len(s)] /\ f[Len(s)] \in Seq(T)
    BY <1>0, <1>1, <1>6 DEF P
<1>8. 0 \in Q
    <2>1. g[0] = <<>>
        BY <1>2, Zenon DEF IsKept
    <2>2. Len(s) + 0 = Len(s) /\ 0 \in 0 .. Len(t)
        BY <1>0
    <2>3. f[Len(s)] \o <<>> = f[Len(s)]
        BY <1>7
    <2>4. h[Len(s) + 0] = f[Len(s)] \o g[0]
        BY <1>7, <2>1, <2>2, <2>3, Zenon
    <2> QED
        BY <2>2, <2>4, Zenon
<1>9. ASSUME NEW m \in 1 .. Len(t), m - 1 \in Q PROVE m \in Q
    <2>0. h[Len(s) + (m - 1)] = f[Len(s)] \o g[m - 1]
        BY <1>9, Zenon
    <2>1. /\ Len(s) + m \in 1 .. Len(u) /\ m \in 0 .. Len(t) /\ m - 1 \in 0 .. Len(t)
          /\ Len(s) + m - 1 = Len(s) + (m - 1)
        BY <1>0
    <2>a. \A n \in 1 .. Len(u) : h[n] = Extended(u, S, h[n - 1], n)
        BY <1>3, Zenon DEF IsKept
    <2>b. \A n \in 1 .. Len(t) : g[n] = Extended(t, S, g[n - 1], n)
        BY <1>2, Zenon DEF IsKept
    <2>2. /\ h[Len(s) + m] = Extended(u, S, h[Len(s) + m - 1], Len(s) + m)
          /\ g[m] = Extended(t, S, g[m - 1], m)
        BY <2>a, <2>b, <2>1
    <2>3. u[Len(s) + m] = t[m] /\ t[m] \in T /\ g[m - 1] \in Seq(T)
        BY <1>2, <1>e, <2>1
    <2>4. h[Len(s) + m] = Extended(u, S, f[Len(s)] \o g[m - 1], Len(s) + m)
        BY <2>0, <2>1, <2>2, Zenon
    <2>5. CASE t[m] \in S
        <3>1. h[Len(s) + m] = Append(f[Len(s)] \o g[m - 1], t[m]) /\ g[m] = Append(g[m - 1], t[m])
            BY <2>2, <2>3, <2>4, <2>5, Zenon DEF Extended
        <3>2. f[Len(s)] \o Append(g[m - 1], t[m]) = Append(f[Len(s)] \o g[m - 1], t[m])
            <4>1. \A a, b \in Seq(T), x \in T : a \o Append(b, x) = Append(a \o b, x)
                BY AppendToConcat
            <4> QED
                BY <1>7, <2>3, <4>1, Zenon
        <3>3. h[Len(s) + m] = f[Len(s)] \o g[m]
            BY <3>1, <3>2, Zenon
        <3> QED
            BY <2>1, <3>3
    <2>6. CASE t[m] \notin S
        <3>1. h[Len(s) + m] = f[Len(s)] \o g[m - 1] /\ g[m] = g[m - 1]
            BY <2>2, <2>3, <2>4, <2>6, Zenon DEF Extended
        <3>2. h[Len(s) + m] = f[Len(s)] \o g[m]
            BY <3>1, Zenon
        <3> QED
            BY <2>1, <3>2
    <2> QED
        BY <2>5, <2>6
<1> HIDE DEF Q
<1>10. \A m \in 0 .. Len(t) : m \in Q
    BY <1>0, <1>8, <1>9, UpTo
<1>11. h[Len(s) + Len(t)] = f[Len(s)] \o g[Len(t)]
    <2>1. Len(t) \in 0 .. Len(t)
        BY <1>0
    <2> QED
        BY <1>10, <2>1, Zenon DEF Q
<1>12. Kept(u, S) = Kept(s, S) \o Kept(t, S)
    BY <1>0, <1>1, <1>2, <1>3, <1>11, Zenon
<1> QED
    BY <1>1, <1>7, <1>12, Zenon DEF u, Splits

\* Only what is in the sequence counts.
LEMMA KeptSame ==
    ASSUME NEW T, NEW seq \in Seq(T), NEW A, NEW B,
           \A m \in 1 .. Len(seq) : seq[m] \in A <=> seq[m] \in B
    PROVE  Kept(seq, A) = Kept(seq, B)
<1>1. PICK f : IsKept(seq, A, f, Len(seq)) /\ Kept(seq, A) = f[Len(seq)]
    BY KeptSteps
<1>2. PICK g : IsKept(seq, B, g, Len(seq)) /\ Kept(seq, B) = g[Len(seq)]
    BY KeptSteps
<1> DEFINE P == {m \in 0 .. Len(seq) : f[m] = g[m]}
<1>3. 0 \in P
    <2>1. f[0] = <<>> /\ g[0] = <<>>
        BY <1>1, <1>2, Zenon DEF IsKept
    <2>2. 0 \in 0 .. Len(seq)
        BY KeptLen
    <2> QED
        BY <2>1, <2>2, Zenon
<1>4. ASSUME NEW m \in 1 .. Len(seq), m - 1 \in P PROVE m \in P
    <2>1. f[m] = Extended(seq, A, f[m - 1], m) /\ g[m] = Extended(seq, B, g[m - 1], m)
        BY <1>1, <1>2, Zenon DEF IsKept
    <2>2. m \in 0 .. Len(seq) /\ f[m - 1] = g[m - 1]
        BY <1>4, KeptLen
    <2>3. f[m] = g[m]
        BY <2>1, <2>2, Zenon DEF Extended
    <2> QED
        BY <2>2, <2>3
<1> HIDE DEF P
<1>5. Len(seq) \in Nat /\ Len(seq) \in 0 .. Len(seq)
    BY KeptLen
<1>6. \A m \in 0 .. Len(seq) : m \in P
    BY <1>3, <1>4, <1>5, UpTo
<1>7. f[Len(seq)] = g[Len(seq)]
    BY <1>5, <1>6 DEF P
<1> QED
    BY <1>1, <1>2, <1>7, Zenon

-----------------------------------------------------------------------------
(* A sequence of sequences laid end to end                                 *)

Followed(seqs, before, m) == IF m = 1 THEN seqs[m] ELSE before \o seqs[m]

\* f[m] is the first m sequences, end to end.
IsFlat(seqs, f, n) ==
    /\ f = [m \in 1 .. n |-> f[m]]
    /\ \A m \in 1 .. n : f[m] = Followed(seqs, f[m - 1], m)

LEMMA FlatNext ==
    ASSUME NEW seqs, NEW n \in Nat \ {0}, NEW f, IsFlat(seqs, f, n - 1)
    PROVE  \E g : IsFlat(seqs, g, n)
<1> DEFINE g == [m \in 1 .. n |-> IF m = n THEN Followed(seqs, f[n - 1], n) ELSE f[m]]
<1>1. g = [m \in 1 .. n |-> g[m]]
    OBVIOUS
<1>2. \A m \in 1 .. n - 1 : g[m] = f[m]
    OBVIOUS
<1>3. g[n] = Followed(seqs, f[n - 1], n)
    OBVIOUS
<1> HIDE DEF g
<1>4. ASSUME NEW m \in 1 .. n PROVE g[m] = Followed(seqs, g[m - 1], m)
    <2>1. CASE m = 1
        <3>1. g[m] = Followed(seqs, f[m - 1], m)
            <4>1. CASE n = 1
                BY <1>3, <2>1, <4>1
            <4>2. CASE n # 1
                <5>1. m \in 1 .. n - 1
                    BY <2>1, <4>2
                <5>2. f[m] = Followed(seqs, f[m - 1], m)
                    BY <5>1, Zenon DEF IsFlat
                <5> QED
                    BY <1>2, <5>1, <5>2, Zenon
            <4> QED
                BY <4>1, <4>2
        <3> QED
            BY <2>1, <3>1, Zenon DEF Followed
    <2>2. CASE m # 1 /\ m = n
        <3>1. n - 1 \in 1 .. n - 1
            BY <2>2
        <3>2. g[n - 1] = f[n - 1]
            BY <1>2, <3>1, Zenon
        <3> QED
            BY <1>3, <2>2, <3>2, Zenon
    <2>3. CASE m # 1 /\ m # n
        <3>1. m \in 1 .. n - 1 /\ m - 1 \in 1 .. n - 1
            BY <2>3
        <3>2. f[m] = Followed(seqs, f[m - 1], m)
            BY <3>1, Zenon DEF IsFlat
        <3>3. g[m] = f[m] /\ g[m - 1] = f[m - 1]
            BY <1>2, <3>1, Zenon
        <3> QED
            BY <3>2, <3>3, Zenon
    <2> QED
        BY <2>1, <2>2, <2>3
<1> QED
    BY <1>1, <1>4, Zenon DEF IsFlat

\* The function that FlattenSeq is defined with exists.
LEMMA FlatSteps ==
    ASSUME NEW T, NEW seqs \in Seq(Seq(T)), seqs # <<>>
    PROVE  \E f : /\ IsFlat(seqs, f, Len(seqs))
                  /\ \A m \in 1 .. Len(seqs) : f[m] \in Seq(T)
                  /\ FlattenSeq(seqs) = f[Len(seqs)]
<1> DEFINE flatten[i \in 1 .. Len(seqs)] ==
             IF i = 1 THEN seqs[i] ELSE flatten[i - 1] \o seqs[i]
<1>0. Len(seqs) \in Nat /\ Len(seqs) # 0
    OBVIOUS
<1>1. FlattenSeq(seqs) = flatten[Len(seqs)]
    BY <1>0 DEF FlattenSeq
<1>2. \E f : IsFlat(seqs, f, Len(seqs))
    <2> HIDE DEF flatten
    <2> DEFINE P == {n \in 0 .. Len(seqs) : \E f : IsFlat(seqs, f, n)}
    <2>1. 0 \in P
        <3>1. IsFlat(seqs, [n \in 1 .. 0 |-> <<>>], 0)
            BY DEF IsFlat
        <3> QED
            BY <1>0, <3>1
    <2>2. ASSUME NEW n \in 1 .. Len(seqs), n - 1 \in P PROVE n \in P
        <3>1. PICK f : IsFlat(seqs, f, n - 1)
            BY <2>2
        <3>2. \E g : IsFlat(seqs, g, n)
            BY <3>1, FlatNext
        <3> QED
            BY <3>2
    <2> HIDE DEF P
    <2>3. \A n \in 0 .. Len(seqs) : n \in P
        BY <1>0, <2>1, <2>2, UpTo
    <2>4. Len(seqs) \in P
        BY <1>0, <2>3
    <2> QED
        BY <2>4 DEF P
<1>3. flatten = [i \in 1 .. Len(seqs) |->
                  IF i = 1 THEN seqs[i] ELSE flatten[i - 1] \o seqs[i]]
    <2>1. PICK f : IsFlat(seqs, f, Len(seqs))
        BY <1>2
    <2>2. f = [i \in 1 .. Len(seqs) |-> Followed(seqs, f[i - 1], i)]
        BY <2>1 DEF IsFlat
    <2>3. f = [i \in 1 .. Len(seqs) |-> IF i = 1 THEN seqs[i] ELSE f[i - 1] \o seqs[i]]
        BY <2>2, Zenon DEF Followed
    <2> QED
        BY <2>3, Zenon
<1> HIDE DEF flatten
<1>4. IsFlat(seqs, flatten, Len(seqs))
    <2>1. flatten = [i \in 1 .. Len(seqs) |-> Followed(seqs, flatten[i - 1], i)]
        BY <1>3, Zenon DEF Followed
    <2>2. \A i \in 1 .. Len(seqs) : flatten[i] = Followed(seqs, flatten[i - 1], i)
        BY <2>1
    <2>3. flatten = [i \in 1 .. Len(seqs) |-> flatten[i]]
        BY <2>1
    <2> QED
        BY <2>2, <2>3, Zenon DEF IsFlat
<1>5. ASSUME NEW m \in 1 .. Len(seqs) PROVE flatten[m] \in Seq(T)
    <2> DEFINE Q == {n \in 0 .. Len(seqs) : n = 0 \/ flatten[n] \in Seq(T)}
    <2>1. 0 \in Q
        BY <1>0
    <2>2. ASSUME NEW n \in 1 .. Len(seqs), n - 1 \in Q PROVE n \in Q
        <3>1. flatten[n] = Followed(seqs, flatten[n - 1], n)
            BY <1>4, Zenon DEF IsFlat
        <3>2. seqs[n] \in Seq(T) /\ n \in 0 .. Len(seqs)
            BY <1>0
        <3>3. CASE n = 1
            BY <3>1, <3>2, <3>3 DEF Followed
        <3>4. CASE n # 1
            <4>1. flatten[n - 1] \in Seq(T)
                BY <2>2, <3>4
            <4>2. flatten[n] = flatten[n - 1] \o seqs[n]
                BY <3>1, <3>4, Zenon DEF Followed
            <4>3. \A a, b \in Seq(T) : a \o b \in Seq(T)
                OBVIOUS
            <4> QED
                BY <3>2, <4>1, <4>2, <4>3, Zenon
        <3> QED
            BY <3>3, <3>4
    <2> HIDE DEF Q
    <2>3. \A n \in 0 .. Len(seqs) : n \in Q
        BY <1>0, <2>1, <2>2, UpTo
    <2>4. m \in 0 .. Len(seqs) /\ m # 0
        BY <1>0
    <2> QED
        BY <2>3, <2>4, Zenon DEF Q
<1> QED
    BY <1>1, <1>4, <1>5, Zenon

LEMMA OneMoreIs ==
    ASSUME NEW S, NEW seq \in Seq(S), NEW x \in S
    PROVE  /\ Append(seq, x) \in Seq(S) /\ Append(seq, x) # <<>>
           /\ Len(Append(seq, x)) = Len(seq) + 1
           /\ Append(seq, x)[Len(seq) + 1] = x
           /\ \A m \in 1 .. Len(seq) : Append(seq, x)[m] = seq[m]
OBVIOUS

LEMMA SomeLen ==
    ASSUME NEW S, NEW seq \in Seq(S), seq # <<>>
    PROVE  Len(seq) \in Nat \ {0}
OBVIOUS

LEMMA FlatNone == FlattenSeq(<<>>) = <<>>
BY DEF FlattenSeq

LEMMA FlatType ==
    ASSUME NEW T, NEW seqs \in Seq(Seq(T))
    PROVE  FlattenSeq(seqs) \in Seq(T)
<1>1. CASE seqs = <<>>
    <2>1. <<>> \in Seq(T)
        OBVIOUS
    <2> QED
        BY <1>1, <2>1, FlatNone, Zenon
<1>2. CASE seqs # <<>>
    <2>1. PICK f : /\ \A m \in 1 .. Len(seqs) : f[m] \in Seq(T)
                   /\ FlattenSeq(seqs) = f[Len(seqs)]
        BY <1>2, FlatSteps
    <2>2. Len(seqs) \in 1 .. Len(seqs)
        BY <1>2
    <2> QED
        BY <2>1, <2>2, Zenon
<1> QED
    BY <1>1, <1>2

\* One more sequence comes at the end.
LEMMA FlatAppend ==
    ASSUME NEW T, NEW seqs \in Seq(Seq(T)), NEW x \in Seq(T)
    PROVE  FlattenSeq(Append(seqs, x)) = FlattenSeq(seqs) \o x
<1> DEFINE more == Append(seqs, x)
<1>0. /\ Len(seqs) \in Nat /\ more \in Seq(Seq(T)) /\ more # <<>> /\ Len(more) = Len(seqs) + 1
      /\ more[Len(seqs) + 1] = x /\ \A m \in 1 .. Len(seqs) : more[m] = seqs[m]
    <2>1. Len(seqs) \in Nat
        OBVIOUS
    <2>2. /\ Append(seqs, x) \in Seq(Seq(T)) /\ Append(seqs, x) # <<>>
          /\ Len(Append(seqs, x)) = Len(seqs) + 1
          /\ Append(seqs, x)[Len(seqs) + 1] = x
          /\ \A m \in 1 .. Len(seqs) : Append(seqs, x)[m] = seqs[m]
        BY OneMoreIs
    <2> QED
        BY <2>1, <2>2, Zenon
<1> HIDE DEF more
<1>1. PICK g : IsFlat(more, g, Len(more)) /\ FlattenSeq(more) = g[Len(more)]
    BY <1>0, FlatSteps
<1>g. \A m \in 1 .. Len(seqs) + 1 : g[m] = Followed(more, g[m - 1], m)
    BY <1>0, <1>1, Zenon DEF IsFlat
<1>2. CASE seqs = <<>>
    <2>1. Len(seqs) = 0 /\ 1 \in 1 .. 1 /\ 0 + 1 = 1
        BY <1>2
    <2>2. g[1] = more[1] /\ more[1] = x /\ Len(more) = 1
        BY <1>0, <1>g, <2>1, Zenon DEF Followed
    <2>3. <<>> \o x = x
        OBVIOUS
    <2>4. FlattenSeq(more) = <<>> \o x
        BY <1>1, <2>2, <2>3, Zenon
    <2> QED
        BY <1>2, <2>4, FlatNone, Zenon DEF more
<1>3. CASE seqs # <<>>
    <2>1. PICK f : IsFlat(seqs, f, Len(seqs)) /\ FlattenSeq(seqs) = f[Len(seqs)]
        BY <1>3, FlatSteps
    <2>f. \A m \in 1 .. Len(seqs) : f[m] = Followed(seqs, f[m - 1], m)
        BY <2>1, Zenon DEF IsFlat
    <2> DEFINE P == {m \in 0 .. Len(seqs) : m = 0 \/ g[m] = f[m]}
    <2>2. 0 \in P
        BY <1>0
    <2>3. ASSUME NEW m \in 1 .. Len(seqs), m - 1 \in P PROVE m \in P
        <3>1. m \in 0 .. Len(seqs) /\ m \in 1 .. Len(seqs) + 1
            BY <1>0
        <3>2. /\ g[m] = Followed(more, g[m - 1], m) /\ f[m] = Followed(seqs, f[m - 1], m)
              /\ more[m] = seqs[m]
            BY <1>0, <1>g, <2>f, <3>1, Zenon
        <3>3. m = 1 \/ g[m - 1] = f[m - 1]
            BY <2>3
        <3>4. g[m] = f[m]
            BY <3>2, <3>3, Zenon DEF Followed
        <3> QED
            BY <3>1, <3>4, Zenon
    <2> HIDE DEF P
    <2>4. \A m \in 0 .. Len(seqs) : m \in P
        BY <1>0, <2>2, <2>3, UpTo
    <2>5. /\ Len(seqs) \in 0 .. Len(seqs) /\ Len(seqs) # 0
          /\ Len(seqs) + 1 \in 1 .. Len(seqs) + 1 /\ Len(seqs) + 1 # 1
          /\ (Len(seqs) + 1) - 1 = Len(seqs)
        BY <1>0, <1>3
    <2>6. g[Len(seqs)] = f[Len(seqs)]
        BY <2>4, <2>5, Zenon DEF P
    <2>7. g[Len(seqs) + 1] = Followed(more, g[(Len(seqs) + 1) - 1], Len(seqs) + 1)
        BY <1>g, <2>5, Zenon
    <2>8. g[Len(seqs) + 1] = g[Len(seqs)] \o x
        BY <1>0, <2>5, <2>7, Zenon DEF Followed
    <2> QED
        BY <1>0, <1>1, <2>1, <2>6, <2>8, Zenon DEF more
<1> QED
    BY <1>2, <1>3

Associate(a, b, c) == (a \o b) \o c = a \o (b \o c)

LEMMA ConcatThree ==
    ASSUME NEW T, NEW a \in Seq(T), NEW b \in Seq(T), NEW c \in Seq(T)
    PROVE  Associate(a, b, c)
<1> DEFINE u == (a \o b) \o c
           v == a \o (b \o c)
<1>1. u \in Seq(T) /\ v \in Seq(T) /\ Len(u) = Len(a) + Len(b) + Len(c) /\ Len(v) = Len(u)
    OBVIOUS
<1>2. \A i \in 1 .. Len(u) : u[i] = v[i]
    OBVIOUS
<1> HIDE DEF u, v
<1>3. u = v
    BY <1>1, <1>2
<1> QED
    BY <1>3 DEF u, v, Associate

\* The first sequence comes first.
LEMMA FlatFirst ==
    ASSUME NEW T, NEW seqs \in Seq(Seq(T)), seqs # <<>>
    PROVE  FlattenSeq(seqs) = Head(seqs) \o FlattenSeq(Tail(seqs))
<1> DEFINE rest == Tail(seqs)
<1>0. /\ Len(seqs) \in Nat \ {0} /\ rest \in Seq(Seq(T)) /\ Len(rest) = Len(seqs) - 1
      /\ Head(seqs) = seqs[1] /\ seqs[1] \in Seq(T)
      /\ \A m \in 1 .. Len(seqs) - 1 : rest[m] = seqs[m + 1] /\ rest[m] \in Seq(T)
    OBVIOUS
<1> HIDE DEF rest
<1>1. PICK f : IsFlat(seqs, f, Len(seqs)) /\ FlattenSeq(seqs) = f[Len(seqs)]
    BY FlatSteps
<1>f. \A m \in 1 .. Len(seqs) : f[m] = Followed(seqs, f[m - 1], m)
    BY <1>1, Zenon DEF IsFlat
<1>h. f[1] = seqs[1] /\ 1 \in 1 .. Len(seqs)
    <2>1. 1 \in 1 .. Len(seqs)
        BY <1>0
    <2> QED
        BY <1>f, <2>1, Zenon DEF Followed
<1>2. CASE rest = <<>>
    <2>1. Len(seqs) = 1
        BY <1>0, <1>2
    <2>2. seqs[1] \o <<>> = seqs[1]
        BY <1>0
    <2> QED
        BY <1>0, <1>1, <1>2, <1>h, <2>1, <2>2, FlatNone, Zenon DEF rest
<1>3. CASE rest # <<>>
    <2>1. PICK g : /\ IsFlat(rest, g, Len(rest)) /\ FlattenSeq(rest) = g[Len(rest)]
                   /\ \A m \in 1 .. Len(rest) : g[m] \in Seq(T)
        BY <1>0, <1>3, FlatSteps
    <2>g. \A m \in 1 .. Len(seqs) - 1 : g[m] = Followed(rest, g[m - 1], m)
        BY <1>0, <2>1, Zenon DEF IsFlat
    <2> DEFINE n == Len(seqs) - 1
               P == {m \in 0 .. n : m = 0 \/ f[m + 1] = seqs[1] \o g[m]}
    <2>n. n \in Nat /\ n = Len(rest) /\ n # 0 /\ n + 1 = Len(seqs)
        <3>1. Len(rest) \in Nat \ {0}
            BY <1>0, <1>3, SomeLen, Zenon
        <3> QED
            BY <1>0, <3>1
    <2> HIDE DEF n
    <2>2. 0 \in P
        BY <2>n
    <2>3. ASSUME NEW m \in 1 .. n, m - 1 \in P PROVE m \in P
        <3>1. /\ m \in 0 .. n /\ m + 1 \in 1 .. Len(seqs) /\ m + 1 # 1
              /\ (m + 1) - 1 = m /\ (m - 1) + 1 = m /\ m \in 1 .. Len(seqs) - 1
              /\ 1 - 1 = 0
            BY <1>0, <2>n
        <3>2. f[m + 1] = Followed(seqs, f[m], m + 1)
            BY <1>f, <3>1
        <3>3. f[m + 1] = f[m] \o seqs[m + 1]
            BY <3>1, <3>2, Zenon DEF Followed
        <3>4. g[m] = Followed(rest, g[m - 1], m) /\ rest[m] = seqs[m + 1] /\ rest[m] \in Seq(T)
            BY <1>0, <2>g, <3>1, Zenon
        <3>5. CASE m = 1
            <4>1. g[m] = rest[m]
                BY <3>4, <3>5, Zenon DEF Followed
            <4> QED
                BY <1>h, <3>1, <3>3, <3>4, <3>5, <4>1, Zenon
        <3>6. CASE m # 1
            <4>1. g[m] = g[m - 1] \o rest[m] /\ m - 1 \in 1 .. Len(rest)
                <5>1. m - 1 \in 1 .. Len(rest)
                    BY <2>n, <3>6
                <5> QED
                    BY <3>4, <3>6, <5>1, Zenon DEF Followed
            <4>2. f[m] = seqs[1] \o g[m - 1]
                <5>1. m - 1 = 0 \/ f[(m - 1) + 1] = seqs[1] \o g[m - 1]
                    BY <2>3, Zenon
                <5>2. m - 1 # 0
                    BY <3>6
                <5> QED
                    BY <3>1, <5>1, <5>2, Zenon
            <4>3. g[m - 1] \in Seq(T)
                BY <2>1, <4>1, Zenon
            <4>4. (seqs[1] \o g[m - 1]) \o rest[m] = seqs[1] \o (g[m - 1] \o rest[m])
                <5>1. seqs[1] \in Seq(T) /\ g[m - 1] \in Seq(T) /\ rest[m] \in Seq(T)
                    BY <1>0, <3>4, <4>3, Zenon
                <5>2. Associate(seqs[1], g[m - 1], rest[m])
                    BY <5>1, ConcatThree, Zenon
                <5> QED
                    BY <5>2 DEF Associate
            <4>5. f[m + 1] = seqs[1] \o g[m]
                BY <3>3, <3>4, <4>1, <4>2, <4>4, Zenon
            <4> QED
                BY <3>1, <4>5, Zenon
        <3> QED
            BY <3>5, <3>6
    <2> HIDE DEF P
    <2>4. \A m \in 0 .. n : m \in P
        BY <2>n, <2>2, <2>3, UpTo
    <2>5. n \in 0 .. n
        BY <2>n
    <2>6. f[n + 1] = seqs[1] \o g[n]
        BY <2>n, <2>4, <2>5, Zenon DEF P
    <2> QED
        BY <1>0, <1>1, <2>1, <2>6, <2>n, Zenon DEF rest
<1> QED
    BY <1>2, <1>3

-----------------------------------------------------------------------------
(* Beginnings of a sequence                                                *)

LEMMA PrefixIs ==
    ASSUME NEW T, NEW s \in Seq(T), NEW t \in Seq(T)
    PROVE  IsPrefix(s, t) <=> Len(s) <= Len(t) /\ \A i \in 1 .. Len(s) : s[i] = t[i]
<1>0. Len(s) \in Nat /\ Len(t) \in Nat
    OBVIOUS
<1>1. CASE Len(s) <= Len(t)
    <2> DEFINE u == SubSeq(s, 1, Len(s))
               v == SubSeq(t, 1, Len(s))
    <2>1. u \in Seq(T) /\ Len(u) = Len(s) /\ \A i \in 1 .. Len(s) : u[i] = s[i]
        BY <1>0
    <2>2. v \in Seq(T) /\ Len(v) = Len(s) /\ \A i \in 1 .. Len(s) : v[i] = t[i]
        BY <1>0, <1>1
    <2>3. IsPrefix(s, t) <=> u = v
        BY <1>1 DEF IsPrefix
    <2> HIDE DEF u, v
    <2>4. ASSUME \A i \in 1 .. Len(s) : s[i] = t[i] PROVE u = v
        <3>1. \A i \in 1 .. Len(u) : u[i] = v[i]
            BY <2>1, <2>2, <2>4
        <3> QED
            BY <2>1, <2>2, <3>1, SameSeq
    <2>5. ASSUME u = v PROVE \A i \in 1 .. Len(s) : s[i] = t[i]
        BY <2>1, <2>2, <2>5
    <2> QED
        BY <1>1, <2>3, <2>4, <2>5
<1>2. CASE ~(Len(s) <= Len(t))
    BY <1>2 DEF IsPrefix
<1> QED
    BY <1>1, <1>2

LEMMA PrefixGives ==
    ASSUME NEW T, NEW s \in Seq(T), NEW t \in Seq(T), IsPrefix(s, t)
    PROVE  Len(s) <= Len(t) /\ \A i \in 1 .. Len(s) : s[i] = t[i]
BY PrefixIs

LEMMA PrefixSelf ==
    ASSUME NEW T, NEW s \in Seq(T)
    PROVE  IsPrefix(s, s)
<1>1. Len(s) <= Len(s)
    OBVIOUS
<1> QED
    BY <1>1, PrefixIs

LEMMA PrefixMore ==
    ASSUME NEW T, NEW s \in Seq(T), NEW t \in Seq(T), NEW u \in Seq(T), IsPrefix(s, t)
    PROVE  IsPrefix(s, t \o u) /\ t \o u \in Seq(T)
<1> DEFINE v == t \o u
<1>1. v \in Seq(T) /\ Len(t) <= Len(v) /\ \A i \in 1 .. Len(t) : v[i] = t[i]
    OBVIOUS
<1> HIDE DEF v
<1>2. Len(s) <= Len(t) /\ \A i \in 1 .. Len(s) : s[i] = t[i]
    BY PrefixIs
<1>3. Len(s) <= Len(v) /\ \A i \in 1 .. Len(s) : s[i] = v[i]
    BY <1>1, <1>2
<1>4. IsPrefix(s, v)
    BY <1>1, <1>3, PrefixIs
<1> QED
    BY <1>1, <1>4 DEF v

LEMMA PrefixFirst ==
    ASSUME NEW T, NEW s \in Seq(T), NEW u \in Seq(T)
    PROVE  IsPrefix(s, s \o u) /\ s \o u \in Seq(T)
BY PrefixSelf, PrefixMore

LEMMA PrefixOf ==
    ASSUME NEW T, NEW r \in Seq(T), NEW s \in Seq(T), NEW t \in Seq(T), IsPrefix(r, s), IsPrefix(s, t)
    PROVE  IsPrefix(r, t)
<1>1. Len(r) <= Len(s) /\ \A i \in 1 .. Len(r) : r[i] = s[i]
    BY PrefixIs
<1>2. Len(s) <= Len(t) /\ \A i \in 1 .. Len(s) : s[i] = t[i]
    BY PrefixIs
<1>3. Len(r) <= Len(t) /\ \A i \in 1 .. Len(r) : r[i] = t[i]
    BY <1>1, <1>2
<1> QED
    BY <1>3, PrefixIs

LEMMA NoneFirst ==
    ASSUME NEW T, NEW s \in Seq(T)
    PROVE  IsPrefix(<<>>, s)
<1>1. <<>> \in Seq(T) /\ Len(<<>>) = 0 /\ Len(<<>>) <= Len(s) /\ \A i \in 1 .. 0 : <<>>[i] = s[i]
    OBVIOUS
<1> QED
    BY <1>1, PrefixIs

LEMMA PrefixNone ==
    ASSUME NEW T, NEW s \in Seq(T), IsPrefix(s, <<>>)
    PROVE  s = <<>>
BY DEF IsPrefix
=============================================================================
