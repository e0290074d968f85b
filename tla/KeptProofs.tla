----------------------------- MODULE KeptProofs -----------------------------
(***************************************************************************)
(* Facts about data that need induction.  The induction theorems of the    *)
(* library take a predicate; these take a set of naturals, and rest on the *)
(* naturals being well-founded.                                            *)
(***************************************************************************)
EXTENDS Kept, WellFoundedInduction, SequenceTheorems, TLAPS

\* A set that holds 0 and with each number the next holds all of them.
LEMMA Induction ==
    ASSUME NEW T, 0 \in T, \A n \in Nat : n \in T => n + 1 \in T
    PROVE  Nat \subseteq T
<1> DEFINE LT == {p \in Nat \X Nat : p[1] < p[2]}
<1>1. IsWellFoundedOn(LT, Nat)
    BY NatLessThanWellFounded DEF OpToRel
<1> SUFFICES ASSUME Nat \ T # {} PROVE FALSE
    OBVIOUS
<1>2. PICK n \in Nat \ T : \A m \in Nat \ T : <<m, n>> \notin LT
    <2> HIDE DEF LT
    <2> QED BY <1>1, WFMin
<1>3. n - 1 \in Nat /\ n - 1 < n /\ (n - 1) + 1 = n
    OBVIOUS
<1>4. n - 1 \in T
    BY <1>2, <1>3
<1> QED BY <1>3, <1>4

\* One step of the loop.
KeepStep(s, S, before, n) == IF s[n] \in S THEN Append(before, s[n]) ELSE before

\* live records the loop over the first n elements.
Records(live, s, S, n) ==
    live = [i \in 0..n |-> IF i = 0 THEN <<>> ELSE KeepStep(s, S, live[i - 1], i)]

\* The recursive function in Kept exists.
LEMMA LoopExists ==
    ASSUME NEW s, NEW S, NEW n \in Nat
    PROVE  \E live : Records(live, s, S, n)
<1> DEFINE T == {m \in Nat : \E live : Records(live, s, S, m)}
<1>1. 0 \in T
    <2>1. Records([i \in 0..0 |-> <<>>], s, S, 0)
        BY DEF Records
    <2> QED BY <2>1
<1>2. ASSUME NEW m \in Nat, m \in T PROVE m + 1 \in T
    <2>1. PICK live : Records(live, s, S, m)
        BY <1>2
    <2> DEFINE more == [i \in 0..(m + 1) |->
                          IF i = m + 1 THEN KeepStep(s, S, live[m], i) ELSE live[i]]
    <2>2. \A i \in 0..m : /\ live[i] = IF i = 0 THEN <<>> ELSE KeepStep(s, S, live[i - 1], i)
                          /\ more[i] = live[i]
        BY <2>1 DEF Records
    <2>3. ASSUME NEW i \in 0..(m + 1)
          PROVE  more[i] = IF i = 0 THEN <<>> ELSE KeepStep(s, S, more[i - 1], i)
        <3>1. CASE i = m + 1
            <4>1. i # 0 /\ i - 1 = m /\ m \in 0..m
                BY <3>1
            <4>2. more[m] = live[m] /\ more[i] = KeepStep(s, S, live[m], i)
                BY <2>2, <3>1, <4>1
            <4> HIDE DEF more
            <4> QED BY <4>1, <4>2
        <3>2. CASE i \in 0..m
            <4>1. i # 0 => i - 1 \in 0..m
                BY <3>2
            <4> HIDE DEF more
            <4> QED BY <2>2, <3>2, <4>1
        <3> QED BY <3>1, <3>2
    <2>4. Records(more, s, S, m + 1)
        BY <2>3 DEF Records
    <2> QED BY <2>4
<1> QED BY <1>1, <1>2, Induction

\* Kept is what the loop has at its end.
LEMMA KeptIsLoop ==
    ASSUME NEW s, NEW S, Len(s) \in Nat
    PROVE  \E live : Records(live, s, S, Len(s)) /\ Kept(s, S) = live[Len(s)]
<1> DEFINE loop == CHOOSE live : Records(live, s, S, Len(s))
<1>1. Records(loop, s, S, Len(s))
    BY LoopExists
<1>2. Kept(s, S) = loop[Len(s)]
    BY DEF Kept, Records, KeepStep
<1> QED BY <1>1, <1>2

\* Filtering drops elements and adds none.
LEMMA KeptType ==
    ASSUME NEW A, NEW s \in Seq(A), NEW S
    PROVE  /\ Kept(s, S) \in Seq(A \cap S)
           /\ Len(Kept(s, S)) <= Len(s)
           /\ In(Kept(s, S)) = In(s) \cap S
<1>1. Len(s) \in Nat
    BY LenProperties
<1>2. PICK live : Records(live, s, S, Len(s)) /\ Kept(s, S) = live[Len(s)]
    BY <1>1, KeptIsLoop
<1> DEFINE Good(t, n) == /\ t \in Seq(A \cap S) /\ Len(t) <= n
                         /\ {t[i] : i \in 1..Len(t)} = {s[i] : i \in 1..n} \cap S
           T == {n \in Nat : n <= Len(s) => Good(live[n], n)}
<1>3. 0 \in T
    <2>1. live[0] = <<>>
        BY <1>1, <1>2 DEF Records
    <2>2. Good(<<>>, 0)
        BY EmptySeq
    <2> QED BY <2>1, <2>2
<1>4. ASSUME NEW n \in Nat, n \in T PROVE n + 1 \in T
    <2> SUFFICES ASSUME n + 1 <= Len(s) PROVE Good(live[n + 1], n + 1)
        OBVIOUS
    <2>1. Good(live[n], n) /\ n + 1 \in 1..Len(s) /\ s[n + 1] \in A
        BY <1>1, <1>4, ElementOfSeq
    <2>2. live[n + 1] = KeepStep(s, S, live[n], n + 1)
        BY <1>1, <1>2, <2>1 DEF Records
    <2>3. {s[i] : i \in 1..(n + 1)} = {s[i] : i \in 1..n} \cup {s[n + 1]}
        OBVIOUS
    <2>4. CASE s[n + 1] \in S
        <3> DEFINE t == live[n]  u == Append(t, s[n + 1])
        <3>1. /\ u \in Seq(A \cap S) /\ Len(u) = Len(t) + 1 /\ Len(t) \in Nat
              /\ \A i \in 1..Len(t) : u[i] = t[i]
              /\ u[Len(t) + 1] = s[n + 1]
            BY <2>1, <2>4, AppendProperties, LenProperties
        <3>2. {u[i] : i \in 1..Len(u)} = {t[i] : i \in 1..Len(t)} \cup {s[n + 1]}
            <4> HIDE DEF u, t
            <4> QED BY <3>1
        <3>3. live[n + 1] = u
            BY <2>2, <2>4 DEF KeepStep
        <3>4. /\ t \in Seq(A \cap S) /\ Len(t) <= n
              /\ {t[i] : i \in 1..Len(t)} = {s[i] : i \in 1..n} \cap S
            BY <2>1
        <3> HIDE DEF u, t
        <3>5. {u[i] : i \in 1..Len(u)} = {s[i] : i \in 1..(n + 1)} \cap S
            <4>1. {u[i] : i \in 1..Len(u)} = ({s[i] : i \in 1..n} \cap S) \cup {s[n + 1]}
                BY <3>2, <3>4
            <4>2. {s[i] : i \in 1..(n + 1)} \cap S
                    = ({s[i] : i \in 1..n} \cap S) \cup {s[n + 1]}
                BY <2>3, <2>4
            <4> QED BY <4>1, <4>2
        <3>6. Good(u, n + 1)
            BY <3>1, <3>4, <3>5
        <3> QED BY <3>3, <3>6
    <2>5. CASE s[n + 1] \notin S
        BY <2>1, <2>2, <2>3, <2>5 DEF KeepStep
    <2> QED BY <2>4, <2>5
<1>5. Len(s) \in T
    <2> HIDE DEF T
    <2> QED BY <1>1, <1>3, <1>4, Induction
<1> QED BY <1>1, <1>2, <1>5 DEF In

\* Filtering keeps the order of what it keeps, whatever the order.
LEMMA KeptInOrder ==
    ASSUME NEW A, NEW s \in Seq(A), NEW S, NEW R,
           \A i, j \in 1..Len(s) : i < j => <<s[i], s[j]>> \in R
    PROVE  \A i, j \in 1..Len(Kept(s, S)) : i < j => <<Kept(s, S)[i], Kept(s, S)[j]>> \in R
<1>1. Len(s) \in Nat
    BY LenProperties
<1>2. PICK live : Records(live, s, S, Len(s)) /\ Kept(s, S) = live[Len(s)]
    BY <1>1, KeptIsLoop
<1> DEFINE Good(t, n) == /\ t \in Seq(A)
                         /\ \A i \in 1..Len(t) : \E k \in 1..n : t[i] = s[k]
                         /\ \A i, j \in 1..Len(t) : i < j => <<t[i], t[j]>> \in R
           T == {n \in Nat : n <= Len(s) => Good(live[n], n)}
<1>3. 0 \in T
    <2>1. live[0] = <<>>
        BY <1>1, <1>2 DEF Records
    <2>2. Good(<<>>, 0)
        BY EmptySeq
    <2> QED BY <2>1, <2>2
<1>4. ASSUME NEW n \in Nat, n \in T PROVE n + 1 \in T
    <2> SUFFICES ASSUME n + 1 <= Len(s) PROVE Good(live[n + 1], n + 1)
        OBVIOUS
    <2>1. Good(live[n], n) /\ n + 1 \in 1..Len(s) /\ s[n + 1] \in A
        BY <1>1, <1>4, ElementOfSeq
    <2>2. live[n + 1] = KeepStep(s, S, live[n], n + 1)
        BY <1>1, <1>2, <2>1 DEF Records
    <2>3. CASE s[n + 1] \in S
        <3> DEFINE t == live[n]  u == Append(t, s[n + 1])
        <3>1. /\ t \in Seq(A) /\ u \in Seq(A) /\ Len(u) = Len(t) + 1 /\ Len(t) \in Nat
              /\ \A i \in 1..Len(t) : u[i] = t[i]
              /\ u[Len(t) + 1] = s[n + 1]
            BY <2>1, AppendProperties, LenProperties
        <3>2. live[n + 1] = u
            BY <2>2, <2>3 DEF KeepStep
        <3>3. /\ \A i \in 1..Len(t) : \E k \in 1..n : t[i] = s[k]
              /\ \A i, j \in 1..Len(t) : i < j => <<t[i], t[j]>> \in R
            BY <2>1
        <3> HIDE DEF t, u
        <3>4. \A i \in 1..Len(u) : \E k \in 1..(n + 1) : u[i] = s[k]
            BY <3>1, <3>3
        <3>5. ASSUME NEW i \in 1..Len(u), NEW j \in 1..Len(u), i < j
              PROVE  <<u[i], u[j]>> \in R
            <4>1. CASE j \in 1..Len(t)
                <5>1. i \in 1..Len(t) /\ u[i] = t[i] /\ u[j] = t[j]
                    BY <3>1, <3>5, <4>1
                <5> QED BY <3>3, <3>5, <4>1, <5>1
            <4>2. CASE j = Len(t) + 1
                <5>1. i \in 1..Len(t) /\ u[i] = t[i]
                    BY <3>1, <3>5, <4>2
                <5>2. PICK k \in 1..n : t[i] = s[k]
                    BY <3>3, <5>1
                <5>3. k \in 1..Len(s) /\ k < n + 1
                    BY <1>1, <2>1
                <5>4. <<s[k], s[n + 1]>> \in R
                    BY <2>1, <5>3
                <5> QED BY <3>1, <4>2, <5>1, <5>2, <5>4
            <4> QED BY <3>1, <4>1, <4>2
        <3>6. Good(u, n + 1)
            BY <3>1, <3>4, <3>5
        <3> QED BY <3>2, <3>6
    <2>4. CASE s[n + 1] \notin S
        <3>1. live[n + 1] = live[n]
            BY <2>2, <2>4 DEF KeepStep
        <3>2. 1..n \subseteq 1..(n + 1)
            OBVIOUS
        <3> QED BY <2>1, <3>1, <3>2
    <2> QED BY <2>3, <2>4
<1>5. Len(s) \in T
    <2> HIDE DEF T
    <2> QED BY <1>1, <1>3, <1>4, Induction
<1> QED BY <1>1, <1>2, <1>5

\* Numbers that rise leave room between the first and a later one for all those
\* in between.
LEMMA RisingRoom ==
    ASSUME NEW n \in Nat, NEW f, \A i \in 1..n : f[i] \in Nat,
           \A i, j \in 1..n : i < j => f[i] < f[j]
    PROVE  \A i \in 1..n : f[1] + i <= f[i] + 1
<1> DEFINE T == {m \in Nat : m \in 1..n => f[1] + m <= f[m] + 1}
<1>1. 0 \in T
    OBVIOUS
<1>2. ASSUME NEW m \in Nat, m \in T PROVE m + 1 \in T
    <2> SUFFICES ASSUME m + 1 \in 1..n PROVE f[1] + (m + 1) <= f[m + 1] + 1
        OBVIOUS
    <2>1. CASE m = 0
        BY <2>1
    <2>2. CASE m # 0
        <3>1. m \in 1..n /\ f[1] + m <= f[m] + 1 /\ 1 \in 1..n
            BY <1>2, <2>2
        <3>2. f[m] < f[m + 1] /\ f[m] \in Nat /\ f[m + 1] \in Nat /\ f[1] \in Nat
            BY <3>1
        <3> QED BY <3>1, <3>2
    <2> QED BY <2>1, <2>2
<1>3. Nat \subseteq T
    <2> HIDE DEF T
    <2> QED BY <1>1, <1>2, Induction
<1> QED BY <1>3
=============================================================================
