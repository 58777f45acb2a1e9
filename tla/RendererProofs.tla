---------------------------- MODULE RendererProofs ----------------------------
(***************************************************************************)
(* Proofs about the lists, the table of sync objects, the acceptor and the *)
(* compositor's clients of the renderer, for any number of contexts,       *)
(* proxies, pids and clients.                                              *)
(***************************************************************************)
EXTENDS RendererProcesses, Lists, SequenceTheorems, FiniteSetTheorems, WellFoundedInduction, TLAPS

Entry == [ctx : Contexts \cup {Main}, of : Contexts \cup {Main, NoContext}]

\* Some numbers have a least one.
LEMMA LeastNumber ==
  ASSUME NEW S, S \subseteq Nat, S # {}
  PROVE  \E x \in S : \A y \in S : x <= y
<1>1. PICK x \in S : \A y \in S : ~(<<y, x>> \in {ss \in Nat \X Nat : ss[1] < ss[2]})
  BY NatLessThanWellFounded, WFMin DEF OpToRel
<1>2. \A y \in S : x <= y
  <2> SUFFICES ASSUME NEW y \in S, ~(x <= y) PROVE FALSE
    OBVIOUS
  <2>1. y < x /\ y \in Nat /\ x \in Nat
    OBVIOUS
  <2>2. <<y, x>> \in {ss \in Nat \X Nat : ss[1] < ss[2]}
    BY <2>1
  <2> QED BY <1>1, <2>2
<1> QED BY <1>2

(***************************************************************************)
(* Entries that leave a list.                                              *)
(***************************************************************************)

\* What is left of the first i entries, and of all that come before the n-th.
Kept(g, i, t, P) ==
  IF i = 0 THEN <<>>
  ELSE IF i \in P THEN g[i - 1] ELSE Append(g[i - 1], t[i])
Loop(g, n, t, P) == g = [i \in 0 .. n |-> Kept(g, i, t, P)]

\* The loop has a result.
LEMMA LoopExists ==
  ASSUME NEW t, NEW P, NEW n \in Nat
  PROVE  \E g : Loop(g, n, t, P)
<1> DEFINE B == {m \in 0 .. n : ~\E g : Loop(g, m, t, P)}
<1> SUFFICES ASSUME B # {} PROVE FALSE
  OBVIOUS
<1>1. PICK m \in B : \A y \in B : m <= y
  <2>1. B \subseteq Nat
    OBVIOUS
  <2> HIDE DEF B
  <2> QED BY <2>1, LeastNumber
<1>2. m # 0
  <2>1. \E g : g = [i \in 0 .. 0 |-> <<>>]
    OBVIOUS
  <2>2. PICK g : g = [i \in 0 .. 0 |-> <<>>]
    BY <2>1
  <2>3. \A i \in 0 .. 0 : Kept(g, i, t, P) = <<>>
    BY DEF Kept
  <2>4. Loop(g, 0, t, P)
    BY <2>2, <2>3 DEF Loop
  <2> QED BY <2>4
<1>3. m - 1 \in 0 .. n /\ m \in 0 .. n /\ ~(m <= m - 1)
  BY <1>2
<1>4. PICK g : Loop(g, m - 1, t, P)
  BY <1>1, <1>3
<1> DEFINE h == [i \in 0 .. m |-> IF i = m THEN Kept(g, m, t, P) ELSE g[i]]
<1>5. ASSUME NEW i \in 0 .. m PROVE h[i] = Kept(h, i, t, P)
  <2>1. CASE i = 0
    <3>1. h[i] = g[0] /\ 0 \in 0 .. m - 1
      BY <1>2, <1>3, <2>1
    <3>2. g[0] = <<>>
      BY <1>4, <3>1 DEF Loop, Kept
    <3> QED BY <2>1, <3>1, <3>2 DEF Kept
  <2>2. CASE i # 0
    <3>1. i - 1 \in 0 .. m - 1 /\ i - 1 \in 0 .. m /\ i - 1 # m
      BY <1>3, <2>2
    <3>2. h[i - 1] = g[i - 1]
      BY <3>1
    <3>3. h[i] = Kept(g, i, t, P)
      <4>1. CASE i = m
        BY <4>1
      <4>2. CASE i # m
        <5>1. i \in 0 .. m - 1 /\ h[i] = g[i]
          BY <1>3, <4>2
        <5> QED BY <1>4, <5>1 DEF Loop
      <4> QED BY <4>1, <4>2
    <3> HIDE DEF h
    <3> QED BY <2>2, <3>2, <3>3 DEF Kept
  <2> QED BY <2>1, <2>2
<1>6. h = [i \in 0 .. m |-> h[i]]
  OBVIOUS
<1> HIDE DEF h
<1>7. Loop(h, m, t, P)
  BY <1>5, <1>6 DEF Loop
<1> QED BY <1>7

\* It leaves what Without says.
LEMMA LoopResult ==
  ASSUME NEW S, NEW t \in Seq(S), NEW P
  PROVE  \E g : /\ Without(t, P) = g[Len(t)] /\ g[0] = <<>>
                /\ \A i \in 1 .. Len(t) :
                     g[i] = IF i \in P THEN g[i - 1] ELSE Append(g[i - 1], t[i])
<1>1. Len(t) \in Nat
  BY LenProperties
<1> DEFINE g == CHOOSE f : Loop(f, Len(t), t, P)
<1>2. Without(t, P) = g[Len(t)]
  BY DEF Without, Kept, Loop
<1>3. Loop(g, Len(t), t, P)
  BY <1>1, LoopExists
<1> HIDE DEF g
<1>4. \A i \in 0 .. Len(t) : g[i] = Kept(g, i, t, P)
  BY <1>3 DEF Loop
<1> QED BY <1>1, <1>2, <1>4 DEF Kept

\* The three users of the loop have it under names of their own.
LEMMA SameWithout ==
  \A t, P : /\ Syncs!Without(t, P) = Without(t, P) /\ Accept!Without(t, P) = Without(t, P)
            /\ Life!Without(t, P) = Without(t, P)
BY DEF Syncs!Without, Accept!Without, Life!Without, Without

\* The entries of u are those of t at the other places than P, in their order.
Others(u, t, P) ==
  \E f \in [1 .. Len(u) -> 1 .. Len(t)] :
    /\ \A i, j \in 1 .. Len(u) : i < j => f[i] < f[j]
    /\ \A i \in 1 .. Len(u) : f[i] \notin P /\ u[i] = t[f[i]]
    /\ \A j \in 1 .. Len(t) : j \notin P => \E i \in 1 .. Len(u) : f[i] = j

\* They are the entries that are left.
LEMMA WithoutOthers ==
  ASSUME NEW S, NEW t \in Seq(S), NEW P
  PROVE  Without(t, P) \in Seq(S) /\ Others(Without(t, P), t, P)
<1>1. Len(t) \in Nat
  BY LenProperties
<1>2. PICK g : /\ Without(t, P) = g[Len(t)] /\ g[0] = <<>>
               /\ \A i \in 1 .. Len(t) :
                    g[i] = IF i \in P THEN g[i - 1] ELSE Append(g[i - 1], t[i])
  BY LoopResult
<1> DEFINE From(f, m) ==
             /\ f \in [1 .. Len(g[m]) -> 1 .. m]
             /\ \A i, j \in 1 .. Len(g[m]) : i < j => f[i] < f[j]
             /\ \A i \in 1 .. Len(g[m]) : f[i] \notin P /\ g[m][i] = t[f[i]]
             /\ \A j \in 1 .. m : j \notin P => \E i \in 1 .. Len(g[m]) : f[i] = j
           Part(m) == g[m] \in Seq(S) /\ \E f : From(f, m)
           B == {m \in 0 .. Len(t) : ~Part(m)}
<1>3. B = {}
  <2> SUFFICES ASSUME B # {} PROVE FALSE
    OBVIOUS
  <2>1. PICK m \in B : \A y \in B : m <= y
    <3>1. B \subseteq Nat
      BY <1>1
    <3> HIDE DEF B
    <3> QED BY <3>1, LeastNumber
  <2>2. m # 0
    <3>1. g[0] \in Seq(S) /\ Len(g[0]) = 0
      BY <1>2, EmptySeq
    <3>2. From([i \in 1 .. 0 |-> 0], 0)
      <4> DEFINE z == [i \in 1 .. 0 |-> 0]
      <4>1. 1 .. 0 = {} /\ 1 .. Len(g[0]) = 1 .. 0
        BY <3>1
      <4>2. z \in [1 .. Len(g[0]) -> 1 .. 0]
        BY <4>1
      <4> HIDE DEF z
      <4> QED BY <4>1, <4>2
    <3>3. Part(0)
      BY <3>1, <3>2
    <3> HIDE DEF Part
    <3> QED BY <2>1, <3>3
  <2>3. m \in 1 .. Len(t) /\ m - 1 \in 0 .. Len(t) /\ m \in Nat /\ m - 1 < m
    BY <1>1, <2>1, <2>2
  <2>4. Part(m - 1)
    <3> HIDE DEF Part
    <3> QED BY <2>1, <2>3
  <2>5. PICK f : From(f, m - 1)
    BY <2>4
  <2>6. g[m - 1] \in Seq(S) /\ Len(g[m - 1]) \in Nat
    BY <2>4, LenProperties
  <2> DEFINE n == Len(g[m - 1])
  <2>7. CASE m \in P
    <3>1. g[m] = g[m - 1]
      BY <1>2, <2>3, <2>7
    <3>2. From(f, m)
      <4>1. f \in [1 .. Len(g[m]) -> 1 .. m - 1] /\ 1 .. m - 1 \subseteq 1 .. m
        BY <2>3, <2>5, <3>1
      <4>2. f \in [1 .. Len(g[m]) -> 1 .. m]
        BY <4>1
      <4>3. /\ \A i, j \in 1 .. Len(g[m]) : i < j => f[i] < f[j]
            /\ \A i \in 1 .. Len(g[m]) : f[i] \notin P /\ g[m][i] = t[f[i]]
        BY <2>5, <3>1
      <4>4. ASSUME NEW j \in 1 .. m, j \notin P PROVE \E i \in 1 .. Len(g[m]) : f[i] = j
        <5>1. j \in 1 .. m - 1
          BY <2>3, <2>7, <4>4
        <5> QED BY <2>5, <3>1, <4>4, <5>1
      <4> QED BY <4>2, <4>3, <4>4
    <3>3. Part(m)
      BY <2>6, <3>1, <3>2
    <3> QED BY <2>1, <3>3
  <2>8. CASE m \notin P
    <3>1. g[m] = Append(g[m - 1], t[m]) /\ t[m] \in S
      BY <1>2, <2>3, <2>8, ElementOfSeq
    <3>2. /\ g[m] \in Seq(S) /\ Len(g[m]) = n + 1 /\ g[m][n + 1] = t[m]
          /\ \A i \in 1 .. n : g[m][i] = g[m - 1][i]
      BY <2>6, <3>1, AppendProperties
    <3> DEFINE h == [i \in 1 .. n + 1 |-> IF i = n + 1 THEN m ELSE f[i]]
    <3>3. /\ h[n + 1] = m /\ \A i \in 1 .. n : h[i] = f[i] /\ f[i] \in 1 .. m - 1
      <4>1. n \in Nat /\ f \in [1 .. n -> 1 .. m - 1]
        BY <2>5, <2>6
      <4> HIDE DEF n
      <4> QED BY <4>1
    <3>4. h \in [1 .. n + 1 -> 1 .. m]
      <4>1. m \in 1 .. m /\ 1 .. m - 1 \subseteq 1 .. m
        BY <2>3
      <4>2. \A i \in 1 .. n + 1 : i = n + 1 \/ i \in 1 .. n
        BY <2>6
      <4> HIDE DEF n
      <4>3. \A i \in 1 .. n + 1 : h[i] \in 1 .. m
        BY <3>3, <4>1, <4>2
      <4> QED BY <4>3
    <3>5. n \in Nat /\ \A i \in 1 .. n + 1 : i \in 1 .. n \/ i = n + 1
      BY <2>6
    <3> HIDE DEF h, n
    <3>6. ASSUME NEW i \in 1 .. n + 1, NEW j \in 1 .. n + 1, i < j
          PROVE  h[i] < h[j]
      <4>1. i \in 1 .. n /\ h[i] = f[i] /\ f[i] \in 1 .. m - 1
        BY <3>3, <3>5, <3>6
      <4>2. CASE j = n + 1
        <5>1. h[j] = m
          BY <3>3, <4>2
        <5>2. f[i] < m
          BY <2>3, <4>1
        <5> QED BY <4>1, <5>1, <5>2
      <4>3. CASE j # n + 1
        <5>1. j \in 1 .. n /\ h[j] = f[j]
          BY <3>3, <3>5, <4>3
        <5>2. f[i] < f[j]
          BY <2>5, <3>6, <4>1, <5>1 DEF n
        <5> QED BY <4>1, <5>1, <5>2
      <4> QED BY <4>2, <4>3
    <3>7. ASSUME NEW i \in 1 .. n + 1 PROVE h[i] \notin P /\ g[m][i] = t[h[i]]
      <4>1. CASE i = n + 1
        BY <2>8, <3>2, <3>3, <4>1
      <4>2. CASE i \in 1 .. n
        <5>1. f[i] \notin P /\ g[m - 1][i] = t[f[i]]
          BY <2>5, <4>2 DEF n
        <5> QED BY <3>2, <3>3, <4>2, <5>1
      <4> QED BY <3>5, <4>1, <4>2
    <3>8. ASSUME NEW j \in 1 .. m, j \notin P PROVE \E i \in 1 .. n + 1 : h[i] = j
      <4>1. CASE j = m
        BY <3>3, <3>5, <4>1
      <4>2. CASE j # m
        <5>1. j \in 1 .. m - 1
          BY <2>3, <4>2
        <5>2. PICK i \in 1 .. n : f[i] = j
          BY <2>5, <3>8, <5>1 DEF n
        <5>3. h[i] = j /\ i \in 1 .. n + 1
          BY <3>3, <3>5, <5>2
        <5> QED BY <5>3
      <4> QED BY <4>1, <4>2
    <3>9. From(h, m)
      <4>1. Len(g[m]) = n + 1
        BY <3>2
      <4>2. h \in [1 .. Len(g[m]) -> 1 .. m]
        BY <3>4, <4>1
      <4>3. \A i, j \in 1 .. Len(g[m]) : i < j => h[i] < h[j]
        BY <3>6, <4>1
      <4>4. \A i \in 1 .. Len(g[m]) : h[i] \notin P /\ g[m][i] = t[h[i]]
        BY <3>7, <4>1
      <4>5. \A j \in 1 .. m : j \notin P => \E i \in 1 .. Len(g[m]) : h[i] = j
        BY <3>8, <4>1
      <4> QED BY <4>2, <4>3, <4>4, <4>5
    <3> HIDE DEF From
    <3>10. Part(m)
      BY <3>2, <3>9
    <3> HIDE DEF Part
    <3> QED BY <2>1, <3>10
  <2> QED BY <2>7, <2>8
<1>4. Part(Len(t))
  <2> HIDE DEF Part
  <2> QED BY <1>1, <1>3
<1>5. g[Len(t)] \in Seq(S) /\ \E f : From(f, Len(t))
  BY <1>4
<1>6. Others(g[Len(t)], t, P)
  BY <1>5 DEF Others
<1> QED BY <1>2, <1>5, <1>6

\* One entry goes, and the ones behind it move up.
LEMMA WithoutOne ==
  ASSUME NEW S, NEW t \in Seq(S), NEW k \in 1 .. Len(t)
  PROVE  /\ Without(t, {k}) \in Seq(S) /\ Len(Without(t, {k})) = Len(t) - 1
         /\ \A i \in 1 .. Len(t) - 1 :
              Without(t, {k})[i] = IF i < k THEN t[i] ELSE t[i + 1]
<1>2. Len(t) \in Nat
  BY LenProperties
<1>1. PICK g : /\ Without(t, {k}) = g[Len(t)] /\ g[0] = <<>>
               /\ \A i \in 1 .. Len(t) :
                    g[i] = IF i \in {k} THEN g[i - 1] ELSE Append(g[i - 1], t[i])
  BY LoopResult
<1> DEFINE P(i) == /\ g[i] \in Seq(S) /\ Len(g[i]) = IF i < k THEN i ELSE i - 1
                   /\ \A j \in 1 .. Len(g[i]) : g[i][j] = IF j < k THEN t[j] ELSE t[j + 1]
           B == {i \in 0 .. Len(t) : ~P(i)}
<1>4. B = {}
  <2> SUFFICES ASSUME B # {} PROVE FALSE
    OBVIOUS
  <2>1. PICK m \in B : \A y \in B : m <= y
    <3>1. B \subseteq Nat
      BY <1>2
    <3> HIDE DEF B
    <3> QED BY <3>1, LeastNumber
  <2>2. m \in 0 .. Len(t) /\ m \in Nat
    BY <1>2
  <2>3. m # 0
    <3>1. g[0] = <<>> /\ 0 < k
      BY <1>1, <1>2
    <3>2. g[0] \in Seq(S) /\ Len(g[0]) = 0
      BY <3>1, EmptySeq
    <3>3. \A j \in 1 .. 0 : FALSE
      OBVIOUS
    <3>4. P(0)
      BY <3>1, <3>2, <3>3
    <3> QED BY <2>1, <3>4
  <2>4. m - 1 \in 0 .. Len(t) /\ m \in 1 .. Len(t)
    BY <1>2, <2>2, <2>3
  <2>5. P(m - 1)
    <3> HIDE DEF P
    <3> QED BY <2>1, <2>2, <2>4
  <2>6. g[m] = IF m = k THEN g[m - 1] ELSE Append(g[m - 1], t[m])
    BY <1>1, <2>4
  <2>7. CASE m = k
    <3>1. g[m] = g[m - 1] /\ m - 1 < k /\ ~(m < k)
      BY <2>2, <2>6, <2>7
    <3>2. P(m)
      BY <2>2, <2>5, <2>7, <3>1
    <3> QED BY <2>1, <3>2
  <2>8. CASE m # k
    <3>1. t[m] \in S
      BY <2>4, ElementOfSeq
    <3>2. /\ g[m] = Append(g[m - 1], t[m]) /\ g[m - 1] \in Seq(S)
      BY <2>5, <2>6, <2>8
    <3>3. /\ g[m] \in Seq(S) /\ Len(g[m]) = Len(g[m - 1]) + 1
          /\ g[m][Len(g[m - 1]) + 1] = t[m]
          /\ \A j \in 1 .. Len(g[m - 1]) : g[m][j] = g[m - 1][j]
      <4>1. PICK s \in Seq(S), x \in S : s = g[m - 1] /\ x = t[m]
        BY <3>1, <3>2
      <4> HIDE DEF P
      <4> QED BY <3>2, <4>1, AppendProperties
    <3>4. m < k \/ m > k
      BY <2>2, <2>8
    <3>5. Len(g[m - 1]) = (IF m < k THEN m - 1 ELSE m - 2) /\ k \in Nat
      BY <1>2, <2>2, <2>3, <2>5, <2>8
    <3>6. Len(g[m]) = IF m < k THEN m ELSE m - 1
      BY <2>2, <3>3, <3>5
    <3>7. ASSUME NEW j \in 1 .. Len(g[m])
          PROVE  g[m][j] = IF j < k THEN t[j] ELSE t[j + 1]
      <4>1. CASE j \in 1 .. Len(g[m - 1])
        BY <2>5, <3>3, <4>1
      <4>2. CASE j = Len(g[m - 1]) + 1
        <5>1. IF m < k THEN j = m /\ j < k ELSE j + 1 = m /\ ~(j < k)
          BY <2>2, <3>4, <3>5, <4>2
        <5>2. g[m][j] = t[m]
          BY <3>3, <4>2
        <5> QED BY <5>1, <5>2
      <4>3. Len(g[m]) = Len(g[m - 1]) + 1 /\ Len(g[m - 1]) \in Nat
        BY <3>2, <3>3, LenProperties
      <4> QED BY <4>1, <4>2, <4>3
    <3>8. P(m)
      BY <3>3, <3>6, <3>7
    <3> QED BY <2>1, <3>8
  <2> QED BY <2>7, <2>8
<1>5. P(Len(t)) /\ ~(Len(t) < k)
  BY <1>2, <1>4
<1> QED BY <1>1, <1>5

\* Nothing goes: a context without an entry leaves the table as it is.
LEMMA WithoutNone ==
  ASSUME NEW S, NEW t \in Seq(S), NEW none, \A i \in 1 .. Len(t) : i \notin none
  PROVE  /\ Without(t, none) \in Seq(S) /\ Len(Without(t, none)) = Len(t)
         /\ \A i \in 1 .. Len(t) : Without(t, none)[i] = t[i]
<1>1. PICK g : /\ Without(t, none) = g[Len(t)] /\ g[0] = <<>>
               /\ \A i \in 1 .. Len(t) :
                    g[i] = IF i \in none THEN g[i - 1] ELSE Append(g[i - 1], t[i])
  BY LoopResult
<1>2. Len(t) \in Nat
  BY LenProperties
<1> DEFINE P(i) == /\ g[i] \in Seq(S) /\ Len(g[i]) = i
                   /\ \A j \in 1 .. i : g[i][j] = t[j]
           B == {i \in 0 .. Len(t) : ~P(i)}
<1>3. B = {}
  <2> SUFFICES ASSUME B # {} PROVE FALSE
    OBVIOUS
  <2>1. PICK m \in B : \A y \in B : m <= y
    <3>1. B \subseteq Nat
      BY <1>2
    <3> HIDE DEF B
    <3> QED BY <3>1, LeastNumber
  <2>2. m \in 0 .. Len(t) /\ m \in Nat
    BY <1>2
  <2>3. m # 0
    <3>1. g[0] \in Seq(S) /\ Len(g[0]) = 0
      BY <1>1, EmptySeq
    <3>2. P(0)
      BY <3>1
    <3> QED BY <2>1, <3>2
  <2>4. m - 1 \in 0 .. Len(t) /\ m \in 1 .. Len(t)
    BY <1>2, <2>2, <2>3
  <2>5. P(m - 1)
    <3> HIDE DEF P
    <3> QED BY <2>1, <2>2, <2>4
  <2>6. g[m] = Append(g[m - 1], t[m]) /\ t[m] \in S
    BY <1>1, <2>4, ElementOfSeq
  <2>7. /\ g[m] \in Seq(S) /\ Len(g[m]) = Len(g[m - 1]) + 1
        /\ g[m][Len(g[m - 1]) + 1] = t[m]
        /\ \A j \in 1 .. Len(g[m - 1]) : g[m][j] = g[m - 1][j]
    <3>1. PICK s \in Seq(S), x \in S : s = g[m - 1] /\ x = t[m]
      BY <2>5, <2>6
    <3> HIDE DEF P
    <3> QED BY <2>6, <3>1, AppendProperties
  <2>8. \A j \in 1 .. m : j \in 1 .. m - 1 \/ j = m
    BY <2>2
  <2>9. P(m)
    BY <2>2, <2>5, <2>7, <2>8
  <2> QED BY <2>1, <2>9
<1>4. P(Len(t))
  BY <1>2, <1>3
<1> QED BY <1>1, <1>4

(***************************************************************************)
(* The invariant.  An entry has the sync object of the context it is the   *)
(* entry of, or none, and only the context that is current has commands    *)
(* without a sync object.  A context that is current was made current by a *)
(* store, so that its end leaves room; the context that is noted when no   *)
(* context of virglrenderer is current has no entry.                       *)
(***************************************************************************)
Own    == \A i \in DOMAIN table : table[i].of \in {table[i].ctx, NoContext}
Open   == \A c \in Contexts : work[c] = "open" => gl = c
Fences == \A c \in Contexts : work[c] = "fenced" =>
            gl = c \/ \E i \in DOMAIN table : table[i] = [ctx |-> c, of |-> c]
Left   == /\ gl \in {current_ctx, NoContext}
          /\ gl = NoContext => current_ctx \in Contexts /\ work[current_ctx] = "none"
Waited == gl = Main => \A c \in Contexts : work[c] = "none"
Sized  == /\ gl \in Contexts => gsize >= 2
          /\ gl \notin Contexts => Syncs!Slots(table, current_ctx) = {}

SyncInv == /\ Syncs!TypeOK /\ Syncs!RoomLeft /\ Syncs!StoredInside /\ Syncs!OneEntry /\ Syncs!NoSyncLost
           /\ Own /\ Open /\ Fences /\ Left /\ Waited /\ Sized

\* The instance has the operators of FiniteSets under names of its own.
LEMMA SameCardinality ==
  \A S : Syncs!Cardinality(S) = Cardinality(S)
BY DEF Syncs!Cardinality, Cardinality

\* The entries with a sync object are finitely many.
LEMMA SyncedFinite ==
  ASSUME NEW t \in Seq(Entry)
  PROVE  /\ IsFiniteSet(Syncs!Synced(t)) /\ Syncs!Synced(t) \subseteq 1 .. Len(t)
         /\ DOMAIN t = 1 .. Len(t) /\ Len(t) \in Nat
         /\ Syncs!Count(t) \in Nat
<1>1. DOMAIN t = 1 .. Len(t) /\ Len(t) \in Nat
  BY LenProperties
<1>2. IsFiniteSet(1 .. Len(t))
  BY <1>1, FS_Interval
<1>3. Syncs!Synced(t) \subseteq 1 .. Len(t)
  BY <1>1 DEF Syncs!Synced
<1>4. IsFiniteSet(Syncs!Synced(t))
  BY <1>2, <1>3, FS_Subset
<1> QED BY <1>1, <1>3, <1>4, FS_CardinalityType, SameCardinality DEF Syncs!Count

\* One more or one less.
LEMMA CountChanges ==
  ASSUME NEW S, IsFiniteSet(S), NEW k
  PROVE  /\ Cardinality(S \cup {k}) = IF k \in S THEN Cardinality(S) ELSE Cardinality(S) + 1
         /\ Cardinality(S \ {k}) = IF k \in S THEN Cardinality(S) - 1 ELSE Cardinality(S)
         /\ Cardinality(S) \in Nat /\ Cardinality({}) = 0 /\ Cardinality({k}) = 1
BY FS_AddElement, FS_RemoveElement, FS_CardinalityType, FS_EmptySet, FS_Singleton

\* rvgpu_set_glsyncobj stores a sync object for the context that is left and
\* deletes the one it had.
LEMMA SetProperties ==
  ASSUME Syncs!ConstantsAssumption, Syncs!TypeOK, Syncs!RoomLeft, Syncs!OneEntry, Syncs!NoSyncLost, Sized,
         NEW t, t = Syncs!SetEntry(table), NEW e, e = [ctx |-> current_ctx, of |-> gl]
  PROVE  /\ t \in Seq(Entry) /\ Syncs!LiveAfterSet(table) = Syncs!Count(t)
         /\ Len(t) \in {Len(table), Len(table) + 1}
         /\ Syncs!SizeAfterSet(table) \in Nat /\ Syncs!SizeAfterSet(table) >= 2
         /\ Len(t) < Syncs!SizeAfterSet(table) + lacking /\ Len(t) <= gsize + lacking
         /\ \E k \in DOMAIN t :
              /\ t[k] = e
              /\ \A i \in DOMAIN t : i # k => i \in DOMAIN table /\ t[i] = table[i]
                                              /\ t[i].ctx # current_ctx
              /\ \A i \in DOMAIN table : table[i].ctx # current_ctx =>
                                           i \in DOMAIN t /\ t[i] = table[i]
<1>1. /\ table \in Seq(Entry) /\ e \in Entry /\ gsize \in Nat /\ live \in Nat /\ lacking \in Nat
      /\ current_ctx # NoContext
  BY DEF Syncs!TypeOK, Entry, Syncs!ConstantsAssumption
<1>2. /\ DOMAIN table = 1 .. Len(table) /\ Len(table) \in Nat
      /\ IsFiniteSet(Syncs!Synced(table)) /\ Syncs!Synced(table) \subseteq 1 .. Len(table)
      /\ Syncs!Count(table) \in Nat
  BY <1>1, SyncedFinite
<1>3. Len(table) < gsize + lacking /\ gsize > 0 /\ live = Cardinality(Syncs!Synced(table))
  BY SameCardinality DEF Syncs!RoomLeft, Syncs!NoSyncLost, Syncs!Count
<1>4. CASE Syncs!Slots(table, current_ctx) = {}
  <2>1. t = Append(table, e)
    BY <1>4 DEF Syncs!SetEntry
  <2>2. /\ t \in Seq(Entry) /\ Len(t) = Len(table) + 1 /\ t[Len(table) + 1] = e
        /\ \A i \in 1 .. Len(table) : t[i] = table[i]
        /\ DOMAIN t = 1 .. Len(table) + 1
    BY <1>1, <2>1, AppendProperties, LenProperties
  <2>3. \A i \in DOMAIN table : table[i].ctx # current_ctx
    BY <1>4 DEF Syncs!Slots
  <2>4. Syncs!LiveAfterSet(table) = Syncs!Count(t)
    <3>1. Syncs!Slots(table, current_ctx) \cap Syncs!Synced(table) = {}
      BY <1>4
    <3>2. Syncs!LiveAfterSet(table) = live + IF gl = NoContext THEN 0 ELSE 1
      <4>1. Cardinality(Syncs!Slots(table, current_ctx) \cap Syncs!Synced(table)) = 0
        BY <3>1, FS_EmptySet
      <4> QED BY <1>1, <4>1, SameCardinality DEF Syncs!LiveAfterSet
    <3>3. Syncs!Synced(t) = IF gl = NoContext THEN Syncs!Synced(table)
                      ELSE Syncs!Synced(table) \cup {Len(table) + 1}
      <4>1. \A i \in 1 .. Len(table) + 1 :
              t[i].of = IF i \in 1 .. Len(table) THEN table[i].of ELSE gl
        BY <1>2, <2>2
      <4> QED BY <1>2, <2>2, <4>1 DEF Syncs!Synced
    <3>4. Len(table) + 1 \notin Syncs!Synced(table)
      BY <1>2
    <3>5. /\ Cardinality(Syncs!Synced(table) \cup {Len(table) + 1}) = Cardinality(Syncs!Synced(table)) + 1
          /\ Cardinality(Syncs!Synced(table)) \in Nat
      BY <1>2, <3>4, CountChanges
    <3> QED BY <1>3, <3>2, <3>3, <3>5, SameCardinality DEF Syncs!Count
  <2>5. /\ Syncs!SizeAfterSet(table) \in Nat /\ Syncs!SizeAfterSet(table) >= 2
        /\ Len(t) < Syncs!SizeAfterSet(table) + lacking /\ Len(t) <= gsize + lacking
    BY <1>1, <1>2, <1>3, <1>4, <2>2 DEF Syncs!SizeAfterSet, Syncs!rvgpu_increment_glsyncobjs_size
  <2>6. Len(table) + 1 \in DOMAIN t
    BY <1>2, <2>2
  <2>7. \A i \in DOMAIN t : i # Len(table) + 1 => i \in DOMAIN table
    BY <1>2, <2>2
  <2>8. DOMAIN table \subseteq DOMAIN t
    BY <1>2, <2>2
  <2> QED BY <1>2, <2>2, <2>3, <2>4, <2>5, <2>6, <2>7, <2>8
<1>5. CASE Syncs!Slots(table, current_ctx) # {}
  <2> DEFINE k == CHOOSE j \in Syncs!Slots(table, current_ctx) :
                    \A i \in Syncs!Slots(table, current_ctx) : j <= i
  <2>1. k \in Syncs!Slots(table, current_ctx)
    <3>1. Syncs!Slots(table, current_ctx) \subseteq Nat
      BY <1>2 DEF Syncs!Slots
    <3> QED BY <1>5, <3>1, LeastNumber
  <2>2. t = [table EXCEPT ![k] = e]
    BY <1>5 DEF Syncs!SetEntry
  <2> HIDE DEF k
  <2>3. k \in DOMAIN table /\ table[k].ctx = current_ctx
    BY <2>1 DEF Syncs!Slots
  <2>4. \A i \in DOMAIN table : table[i].ctx = current_ctx => i = k
    BY <2>3 DEF Syncs!OneEntry
  <2>5. Syncs!Slots(table, current_ctx) = {k}
    BY <2>3, <2>4 DEF Syncs!Slots
  <2>6. /\ t \in Seq(Entry) /\ Len(t) = Len(table) /\ t[k] = e
        /\ DOMAIN t = DOMAIN table
        /\ \A i \in DOMAIN table : i # k => t[i] = table[i]
    BY <1>1, <1>2, <2>2, <2>3, ExceptSeq, LenProperties
  <2>7. Syncs!LiveAfterSet(table) = Syncs!Count(t)
    <3>1. Syncs!Slots(table, current_ctx) \cap Syncs!Synced(table) =
            IF k \in Syncs!Synced(table) THEN {k} ELSE {}
      BY <2>5
    <3>2. Syncs!LiveAfterSet(table) = live + (IF gl = NoContext THEN 0 ELSE 1)
                                - (IF k \in Syncs!Synced(table) THEN 1 ELSE 0)
      BY <3>1, FS_EmptySet, FS_Singleton, SameCardinality DEF Syncs!LiveAfterSet
    <3>3. Syncs!Synced(t) = IF gl = NoContext THEN Syncs!Synced(table) \ {k} ELSE Syncs!Synced(table) \cup {k}
      BY <2>3, <2>6 DEF Syncs!Synced
    <3>4. Syncs!Count(t) = Cardinality(Syncs!Synced(table)) + (IF gl = NoContext THEN 0 ELSE 1)
                     - (IF k \in Syncs!Synced(table) THEN 1 ELSE 0)
      <4>1. /\ Cardinality(Syncs!Synced(table)) \in Nat
            /\ Cardinality(Syncs!Synced(table) \cup {k}) =
                 IF k \in Syncs!Synced(table) THEN Cardinality(Syncs!Synced(table))
                 ELSE Cardinality(Syncs!Synced(table)) + 1
            /\ Cardinality(Syncs!Synced(table) \ {k}) =
                 IF k \in Syncs!Synced(table) THEN Cardinality(Syncs!Synced(table)) - 1
                 ELSE Cardinality(Syncs!Synced(table))
        BY <1>2, CountChanges
      <4> QED BY <3>3, <4>1, SameCardinality DEF Syncs!Count
    <3> QED BY <1>3, <3>2, <3>4
  <2>8. Syncs!SizeAfterSet(table) = gsize /\ gsize >= 2
    BY <1>5 DEF Syncs!SizeAfterSet, Sized
  <2> QED BY <1>1, <1>3, <2>3, <2>4, <2>6, <2>7, <2>8
<1> QED BY <1>4, <1>5

\* rvgpu_egl_destroy_context deletes the one sync object of the context.
LEMMA DestroyProperties ==
  ASSUME Syncs!TypeOK, Syncs!OneEntry, Syncs!NoSyncLost, NEW c, Syncs!Slots(table, c) # {},
         NEW t, t = Syncs!Without(table, Syncs!Slots(table, c))
  PROVE  /\ t \in Seq(Entry) /\ Len(t) = Len(table) - 1 /\ Len(table) \in Nat /\ Len(table) > 0
         /\ live - Cardinality(Syncs!Slots(table, c) \cap Syncs!Synced(table)) = Syncs!Count(t)
         /\ \A i, j \in DOMAIN t : t[i].ctx = t[j].ctx => i = j
         /\ \A i \in DOMAIN t : \E j \in DOMAIN table : t[i] = table[j]
         /\ \A j \in DOMAIN table : table[j].ctx # c => \E i \in DOMAIN t : t[i] = table[j]
         /\ \A i \in DOMAIN t : t[i].ctx # c
<1>1. table \in Seq(Entry) /\ live \in Nat
  BY DEF Syncs!TypeOK, Entry
<1>2. /\ DOMAIN table = 1 .. Len(table) /\ Len(table) \in Nat
      /\ IsFiniteSet(Syncs!Synced(table)) /\ Syncs!Synced(table) \subseteq 1 .. Len(table)
  BY <1>1, SyncedFinite
<1>3. PICK k \in 1 .. Len(table) : table[k].ctx = c
  BY <1>2 DEF Syncs!Slots
<1>4. \A i \in 1 .. Len(table) : i # k => table[i].ctx # c
  BY <1>2, <1>3 DEF Syncs!OneEntry
<1>5. Syncs!Slots(table, c) = {k}
  BY <1>2, <1>3, <1>4 DEF Syncs!Slots
<1>6. /\ t \in Seq(Entry) /\ Len(t) = Len(table) - 1
      /\ \A i \in 1 .. Len(table) - 1 : t[i] = IF i < k THEN table[i] ELSE table[i + 1]
  BY <1>1, <1>5, WithoutOne, SameWithout
<1>7. DOMAIN t = 1 .. Len(table) - 1 /\ IsFiniteSet(Syncs!Synced(t))
  BY <1>6, SyncedFinite
<1> DEFINE Up(i) == IF i < k THEN i ELSE i + 1
<1>8. /\ \A i \in 1 .. Len(table) - 1 : Up(i) \in 1 .. Len(table) /\ Up(i) # k
      /\ \A i, j \in 1 .. Len(table) - 1 : Up(i) = Up(j) => i = j
  BY <1>2, <1>3
<1>9. \A i \in 1 .. Len(table) - 1 : t[i] = table[Up(i)]
  BY <1>6
<1>10. ASSUME NEW j \in 1 .. Len(table), j # k
       PROVE  \E i \in 1 .. Len(table) - 1 : Up(i) = j
  <2>1. CASE j < k
    <3>1. j \in 1 .. Len(table) - 1 /\ Up(j) = j
      BY <1>2, <1>3, <2>1
    <3> HIDE DEF Up
    <3> QED BY <3>1
  <2>2. CASE ~(j < k)
    <3>1. j - 1 \in 1 .. Len(table) - 1 /\ Up(j - 1) = j
      BY <1>2, <1>3, <1>10, <2>2
    <3> HIDE DEF Up
    <3> QED BY <3>1
  <2> QED BY <2>1, <2>2
<1> HIDE DEF Up
<1>11. \A i, j \in DOMAIN t : t[i].ctx = t[j].ctx => i = j
  BY <1>2, <1>7, <1>8, <1>9 DEF Syncs!OneEntry
<1>12. Cardinality(Syncs!Synced(t)) = Cardinality(Syncs!Synced(table) \ {k})
  <2> DEFINE f == [i \in Syncs!Synced(t) |-> Up(i)]
             T == Syncs!Synced(table) \ {k}
  <2>1. f \in [Syncs!Synced(t) -> T]
    <3> SUFFICES ASSUME NEW i \in Syncs!Synced(t) PROVE Up(i) \in T
      OBVIOUS
    <3>1. i \in 1 .. Len(table) - 1 /\ t[i].of # NoContext
      BY <1>7 DEF Syncs!Synced
    <3> QED BY <1>2, <1>8, <1>9, <3>1 DEF Syncs!Synced
  <2>2. \A i, j \in Syncs!Synced(t) : f[i] = f[j] => i = j
    BY <1>7, <1>8 DEF Syncs!Synced
  <2>3. ASSUME NEW j \in T PROVE \E i \in Syncs!Synced(t) : f[i] = j
    <3>1. j \in 1 .. Len(table) /\ j # k /\ table[j].of # NoContext
      BY <1>2 DEF Syncs!Synced
    <3>2. PICK i \in 1 .. Len(table) - 1 : Up(i) = j
      BY <1>10, <3>1
    <3>3. i \in Syncs!Synced(t)
      BY <1>7, <1>9, <3>1, <3>2 DEF Syncs!Synced
    <3> QED BY <3>2, <3>3
  <2> HIDE DEF f, T
  <2>4. f \in Bijection(Syncs!Synced(t), T)
    BY <2>1, <2>2, <2>3 DEF Bijection, Injection, Surjection, IsInjective
  <2>5. Cardinality(Syncs!Synced(t)) = Cardinality(T)
    BY <1>7, <2>4, FS_Bijection DEF ExistsBijection
  <2> QED BY <2>5 DEF T
<1>13. live - Cardinality(Syncs!Slots(table, c) \cap Syncs!Synced(table)) = Syncs!Count(t)
  <2>1. Syncs!Slots(table, c) \cap Syncs!Synced(table) = IF k \in Syncs!Synced(table) THEN {k} ELSE {}
    BY <1>5
  <2>2. Cardinality(Syncs!Slots(table, c) \cap Syncs!Synced(table)) =
          IF k \in Syncs!Synced(table) THEN 1 ELSE 0
    BY <2>1, FS_EmptySet, FS_Singleton
  <2>3. /\ Cardinality(Syncs!Synced(table) \ {k}) =
             IF k \in Syncs!Synced(table) THEN Cardinality(Syncs!Synced(table)) - 1
             ELSE Cardinality(Syncs!Synced(table))
        /\ Cardinality(Syncs!Synced(table)) \in Nat
    BY <1>2, CountChanges
  <2> QED BY <1>12, <2>2, <2>3, SameCardinality DEF Syncs!Count, Syncs!NoSyncLost
<1>14. ASSUME NEW i \in DOMAIN t PROVE \E j \in DOMAIN table : t[i] = table[j]
  <2>1. t[i] = table[Up(i)] /\ Up(i) \in DOMAIN table
    BY <1>2, <1>7, <1>8, <1>9
  <2> QED BY <2>1
<1>15. ASSUME NEW j \in DOMAIN table, table[j].ctx # c PROVE \E i \in DOMAIN t : t[i] = table[j]
  <2>1. j \in 1 .. Len(table) /\ j # k
    BY <1>2, <1>3, <1>15
  <2>2. PICK i \in 1 .. Len(table) - 1 : Up(i) = j
    BY <1>10, <2>1
  <2> QED BY <1>7, <1>9, <2>2
<1>16. \A i \in DOMAIN t : t[i].ctx # c
  BY <1>4, <1>7, <1>8, <1>9
<1> QED BY <1>2, <1>3, <1>6, <1>11, <1>13, <1>14, <1>15, <1>16

\* Without an entry it deletes none.
LEMMA DestroyUnknown ==
  ASSUME Syncs!TypeOK, Syncs!OneEntry, Syncs!NoSyncLost, NEW c, Syncs!Slots(table, c) = {},
         NEW t, t = Syncs!Without(table, Syncs!Slots(table, c))
  PROVE  /\ t \in Seq(Entry) /\ Len(t) = Len(table) /\ Len(table) \in Nat
         /\ live - Cardinality(Syncs!Slots(table, c) \cap Syncs!Synced(table)) = Syncs!Count(t)
         /\ DOMAIN t = DOMAIN table /\ \A i \in DOMAIN t : t[i] = table[i]
<1>1. table \in Seq(Entry) /\ live \in Nat
  BY DEF Syncs!TypeOK, Entry
<1>2. /\ t \in Seq(Entry) /\ Len(t) = Len(table)
      /\ \A i \in 1 .. Len(table) : t[i] = table[i]
  BY <1>1, WithoutNone, SameWithout
<1>3. DOMAIN t = 1 .. Len(table) /\ DOMAIN table = 1 .. Len(table) /\ Len(table) \in Nat
  BY <1>1, <1>2, LenProperties
<1>4. Syncs!Synced(t) = Syncs!Synced(table)
  BY <1>2, <1>3 DEF Syncs!Synced
<1>5. Cardinality(Syncs!Slots(table, c) \cap Syncs!Synced(table)) = 0
  BY FS_EmptySet
<1> QED BY <1>1, <1>2, <1>3, <1>4, <1>5 DEF Syncs!Count, Syncs!NoSyncLost

\* After rvgpu_set_glsyncobj every context but the next one has finished, or has
\* a sync object in the table behind its commands.
LEMMA SetCovers ==
  ASSUME Syncs!ConstantsAssumption, SyncInv, NEW t, t = Syncs!SetEntry(table)
  PROVE  /\ \A i, j \in DOMAIN t : t[i].ctx = t[j].ctx => i = j
         /\ \A i \in DOMAIN t : t[i].of \in {t[i].ctx, NoContext}
         /\ Syncs!Fenced \in [Contexts -> {"none", "fenced"}]
         /\ \A c \in Contexts : Syncs!Fenced[c] = "fenced" =>
              \E i \in DOMAIN t : t[i] = [ctx |-> c, of |-> c]
<1>1. Syncs!TypeOK /\ Syncs!RoomLeft /\ Syncs!OneEntry /\ Syncs!NoSyncLost /\ Own /\ Open /\ Fences /\ Left /\ Sized
  BY DEF SyncInv
<1> PICK e : e = [ctx |-> current_ctx, of |-> gl]
  OBVIOUS
<1>2. PICK k \in DOMAIN t :
        /\ t[k] = e
        /\ \A i \in DOMAIN t : i # k => i \in DOMAIN table /\ t[i] = table[i]
                                        /\ t[i].ctx # current_ctx
        /\ \A i \in DOMAIN table : table[i].ctx # current_ctx =>
                                     i \in DOMAIN t /\ t[i] = table[i]
  BY <1>1, SetProperties
<1>3. e.ctx = current_ctx /\ e.of = gl
  OBVIOUS
<1>4. \A i, j \in DOMAIN t : t[i].ctx = t[j].ctx => i = j
  BY <1>1, <1>2, <1>3 DEF Syncs!OneEntry
<1>5. \A i \in DOMAIN t : t[i].of \in {t[i].ctx, NoContext}
  BY <1>1, <1>2, <1>3 DEF Own, Left
<1>6. Syncs!Fenced \in [Contexts -> {"none", "fenced"}]
  BY <1>1 DEF Syncs!Fenced, Open, Syncs!TypeOK
<1>7. ASSUME NEW c \in Contexts, Syncs!Fenced[c] = "fenced"
      PROVE  \E i \in DOMAIN t : t[i] = [ctx |-> c, of |-> c]
  <2>1. c # NoContext
    BY DEF Syncs!ConstantsAssumption
  <2>2. CASE gl = c
    <3>1. current_ctx = c
      BY <1>1, <2>1, <2>2 DEF Left
    <3> QED BY <1>2, <2>2, <3>1
  <2>3. CASE gl # c
    <3>1. work[c] = "fenced"
      BY <1>1, <1>7, <2>3 DEF Syncs!Fenced, Syncs!TypeOK
    <3>2. PICK i \in DOMAIN table : table[i] = [ctx |-> c, of |-> c]
      BY <1>1, <2>3, <3>1 DEF Fences
    <3>3. c # current_ctx
      BY <1>1, <2>3, <3>1 DEF Left
    <3> QED BY <1>2, <3>2, <3>3
  <2> QED BY <2>2, <2>3
<1> QED BY <1>4, <1>5, <1>6, <1>7

\* The invariant holds in the beginning,
LEMMA SyncInit ==
  ASSUME Syncs!ConstantsAssumption, Syncs!Init
  PROVE  SyncInv
<1>1. table = <<>> /\ table \in Seq(Entry) /\ Len(table) = 0 /\ DOMAIN table = {}
  BY EmptySeq DEF Syncs!Init
<1>2. Syncs!Count(table) = 0
  BY <1>1, FS_EmptySet, SameCardinality DEF Syncs!Count, Syncs!Synced
<1>3. Syncs!TypeOK /\ Syncs!RoomLeft /\ Syncs!StoredInside /\ Syncs!OneEntry /\ Syncs!NoSyncLost
  <2>1. damaged \in BOOLEAN /\ Syncs!StoredInside
    BY DEF Syncs!Init, Syncs!StoredInside
  <2>2. Syncs!RoomLeft /\ Syncs!OneEntry /\ Syncs!NoSyncLost
    BY <1>1, <1>2 DEF Syncs!Init, Syncs!RoomLeft, Syncs!OneEntry, Syncs!NoSyncLost
  <2>3. Syncs!TypeOK
    BY <1>1, <2>1 DEF Syncs!Init, Syncs!TypeOK, Entry
  <2> QED BY <2>1, <2>2, <2>3
<1>4. Main # NoContext /\ Main \notin Contexts
  BY DEF Syncs!ConstantsAssumption
<1>5. Sized
  BY <1>1, <1>4 DEF Syncs!Init, Sized, Syncs!Slots
<1> QED BY <1>1, <1>3, <1>4, <1>5 DEF Syncs!Init, SyncInv, Own, Open, Fences, Left, Waited

\* A step that reads or writes entries 1 .. n does damage only where a context
\* without an entry is the reason.
LEMMA AccessInside ==
  ASSUME Syncs!TypeOK, NEW n \in Nat, n <= gsize + lacking, Syncs!Access(n)
  PROVE  damaged' \in BOOLEAN /\ (damaged' => lacking > 0)
<1>1. gsize \in Nat /\ lacking \in Nat
  BY DEF Syncs!TypeOK
<1>2. n > gsize => lacking > 0
  BY <1>1
<1> QED BY <1>2 DEF Syncs!Access

\* and is kept by the context that is made current,
LEMMA MakeCurrentKeeps ==
  ASSUME Syncs!ConstantsAssumption, SyncInv, NEW c \in Contexts, Syncs!rvgpu_egl_make_context_current(c)
  PROVE  SyncInv'
<1>1. /\ c \in alive /\ table' = Syncs!SetEntry(table) /\ live' = Syncs!LiveAfterSet(table)
      /\ gsize' = Syncs!SizeAfterSet(table) /\ work' = Syncs!Fenced /\ gl' = c /\ current_ctx' = c
      /\ alive' = alive /\ lacking' = lacking /\ Syncs!Access(Len(Syncs!SetEntry(table)))
  BY DEF Syncs!rvgpu_egl_make_context_current
<1>2. Syncs!TypeOK /\ Syncs!RoomLeft /\ Syncs!OneEntry /\ Syncs!NoSyncLost /\ Sized /\ c # NoContext /\ c # Main
  BY DEF SyncInv, Syncs!ConstantsAssumption
<1> PICK t : t = Syncs!SetEntry(table)
  OBVIOUS
<1>3. /\ t \in Seq(Entry) /\ Syncs!LiveAfterSet(table) = Syncs!Count(t)
      /\ Syncs!SizeAfterSet(table) \in Nat /\ Syncs!SizeAfterSet(table) >= 2
      /\ Len(t) < Syncs!SizeAfterSet(table) + lacking /\ Len(t) <= gsize + lacking
  BY <1>2, SetProperties
<1>4. /\ \A i, j \in DOMAIN t : t[i].ctx = t[j].ctx => i = j
      /\ \A i \in DOMAIN t : t[i].of \in {t[i].ctx, NoContext}
      /\ Syncs!Fenced \in [Contexts -> {"none", "fenced"}]
      /\ \A d \in Contexts : Syncs!Fenced[d] = "fenced" =>
           \E i \in DOMAIN t : t[i] = [ctx |-> d, of |-> d]
  BY SetCovers
<1>5. table' = t /\ live' = Syncs!Count(t) /\ Syncs!Count(t) \in Nat
  BY <1>1, <1>3, SyncedFinite
<1>6. Syncs!Count(table)' = Syncs!Count(t)
  BY <1>5 DEF Syncs!Count, Syncs!Synced
<1>7. damaged' \in BOOLEAN /\ Syncs!StoredInside'
  <2>1. Len(t) \in Nat /\ Syncs!Access(Len(t))
    BY <1>1, <1>3, SyncedFinite
  <2> QED BY <1>1, <1>2, <1>3, <2>1, AccessInside DEF Syncs!StoredInside
<1>8. Syncs!TypeOK'
  BY <1>1, <1>2, <1>3, <1>4, <1>5, <1>7 DEF Syncs!TypeOK, Entry
<1>9. Syncs!RoomLeft' /\ Syncs!OneEntry' /\ Syncs!NoSyncLost' /\ Own'
  BY <1>1, <1>3, <1>4, <1>5, <1>6 DEF Syncs!RoomLeft, Syncs!OneEntry, Syncs!NoSyncLost, Own
<1>10. Open' /\ Fences' /\ Left' /\ Waited' /\ Sized'
  BY <1>1, <1>2, <1>3, <1>4, <1>5 DEF Open, Fences, Left, Waited, Sized
<1> QED BY <1>7, <1>8, <1>9, <1>10 DEF SyncInv

\* a draw, which has waited for all,
LEMMA DrawKeeps ==
  ASSUME Syncs!ConstantsAssumption, SyncInv, Syncs!rvgpu_egl_draw
  PROVE  SyncInv'
<1> PICK t : t = Syncs!SetEntry(table)
  OBVIOUS
<1> DEFINE waited == {t[i].of : i \in Syncs!Synced(t)}
<1>1. /\ table' = <<>> /\ live' = Syncs!LiveAfterSet(table) - Syncs!Count(t)
      /\ gsize' = Syncs!SizeAfterSet(table) /\ gl' = Main /\ current_ctx' = Main /\ alive' = alive
      /\ Syncs!Access(Len(t)) /\ lacking' = IF damaged' THEN lacking ELSE 0
      /\ work' = [c \in Contexts |->
                    IF c \in waited /\ Syncs!Fenced[c] = "fenced" THEN "none" ELSE Syncs!Fenced[c]]
  BY DEF Syncs!rvgpu_egl_draw
<1>2. /\ Syncs!TypeOK /\ Syncs!RoomLeft /\ Syncs!OneEntry /\ Syncs!NoSyncLost /\ Sized
      /\ Main # NoContext /\ Main \notin Contexts
  BY DEF SyncInv, Syncs!ConstantsAssumption
<1>3. /\ t \in Seq(Entry) /\ Syncs!LiveAfterSet(table) = Syncs!Count(t) /\ Syncs!Count(t) \in Nat
      /\ Syncs!SizeAfterSet(table) \in Nat /\ Syncs!SizeAfterSet(table) >= 2
      /\ Len(t) <= gsize + lacking /\ Len(t) \in Nat
  BY <1>2, SetProperties, SyncedFinite
<1>4. /\ Syncs!Fenced \in [Contexts -> {"none", "fenced"}]
      /\ \A c \in Contexts : Syncs!Fenced[c] = "fenced" =>
           \E i \in DOMAIN t : t[i] = [ctx |-> c, of |-> c]
  BY SetCovers
<1>5. ASSUME NEW c \in Contexts PROVE work'[c] = "none"
  <2>1. CASE Syncs!Fenced[c] = "fenced"
    <3>1. PICK i \in DOMAIN t : t[i] = [ctx |-> c, of |-> c]
      BY <1>4, <2>1
    <3>2. t[i].of = c /\ c # NoContext
      BY <3>1 DEF Syncs!ConstantsAssumption
    <3>3. c \in waited
      BY <3>2 DEF Syncs!Synced
    <3> HIDE DEF waited
    <3> QED BY <1>1, <2>1, <3>3
  <2>2. CASE Syncs!Fenced[c] = "none"
    BY <1>1, <2>2
  <2> QED BY <1>4, <2>1, <2>2
<1> HIDE DEF waited
<1>6. live' = 0 /\ Syncs!Count(<<>>) = 0 /\ Syncs!Count(table)' = Syncs!Count(<<>>)
  BY <1>1, <1>3, FS_EmptySet, SameCardinality DEF Syncs!Count, Syncs!Synced
<1>7. damaged' \in BOOLEAN /\ (damaged' => lacking > 0)
  BY <1>1, <1>2, <1>3, AccessInside
<1>8. lacking' \in Nat /\ Syncs!StoredInside'
  <2>1. lacking \in Nat
    BY <1>2 DEF Syncs!TypeOK
  <2>2. CASE damaged' = TRUE
    BY <1>1, <1>7, <2>1, <2>2 DEF Syncs!StoredInside
  <2>3. CASE damaged' = FALSE
    BY <1>1, <2>3 DEF Syncs!StoredInside
  <2> QED BY <1>7, <2>2, <2>3
<1>9. Syncs!TypeOK'
  <2>1. work' \in [Contexts -> {"none", "open", "fenced"}]
    BY <1>1, <1>5
  <2> QED BY <1>1, <1>2, <1>3, <1>6, <1>7, <1>8, <2>1, EmptySeq DEF Syncs!TypeOK
<1>10. Syncs!RoomLeft' /\ Syncs!OneEntry' /\ Syncs!NoSyncLost' /\ Own'
  BY <1>1, <1>3, <1>6, <1>8, EmptySeq DEF Syncs!RoomLeft, Syncs!OneEntry, Syncs!NoSyncLost, Own
<1>11. Open' /\ Fences' /\ Left' /\ Waited' /\ Sized'
  BY <1>1, <1>2, <1>5 DEF Open, Fences, Left, Waited, Sized, Syncs!Slots
<1> QED BY <1>8, <1>9, <1>10, <1>11 DEF SyncInv

\* the context that goes,
LEMMA DestroyKeeps ==
  ASSUME Syncs!ConstantsAssumption, SyncInv, NEW c \in Contexts,
         Syncs!rvgpu_egl_destroy_context(c)
  PROVE  SyncInv'
<1>1. /\ gl = c /\ table' = Syncs!Without(table, Syncs!Slots(table, c))
      /\ live' = live - Cardinality(Syncs!Slots(table, c) \cap Syncs!Synced(table))
      /\ gsize' = gsize - 1 /\ gl' = NoContext /\ alive' = alive \ {c}
      /\ work' = [work EXCEPT ![c] = "none"] /\ current_ctx' = current_ctx
      /\ lacking' = lacking + (IF Syncs!Slots(table, c) = {} THEN 1 ELSE 0) /\ Syncs!Access(Len(table))
  BY SameCardinality DEF Syncs!rvgpu_egl_destroy_context
<1>2. /\ Syncs!TypeOK /\ Syncs!RoomLeft /\ Syncs!OneEntry /\ Syncs!NoSyncLost
      /\ Own /\ Open /\ Fences /\ Left /\ Sized
      /\ c # NoContext /\ NoContext # Main
  BY DEF SyncInv, Syncs!ConstantsAssumption
<1> PICK t : t = Syncs!Without(table, Syncs!Slots(table, c))
  OBVIOUS
<1>3. /\ t \in Seq(Entry) /\ Len(table) \in Nat
      /\ Len(t) = Len(table) - IF Syncs!Slots(table, c) = {} THEN 0 ELSE 1
      /\ live - Cardinality(Syncs!Slots(table, c) \cap Syncs!Synced(table)) = Syncs!Count(t)
      /\ \A i, j \in DOMAIN t : t[i].ctx = t[j].ctx => i = j
      /\ \A i \in DOMAIN t : \E j \in DOMAIN table : t[i] = table[j]
      /\ \A j \in DOMAIN table : table[j].ctx # c => \E i \in DOMAIN t : t[i] = table[j]
      /\ \A i \in DOMAIN t : t[i].ctx # c
  <2>1. CASE Syncs!Slots(table, c) # {}
    <3>1. /\ t \in Seq(Entry) /\ Len(t) = Len(table) - 1 /\ Len(table) \in Nat
          /\ live - Cardinality(Syncs!Slots(table, c) \cap Syncs!Synced(table)) = Syncs!Count(t)
          /\ \A i, j \in DOMAIN t : t[i].ctx = t[j].ctx => i = j
          /\ \A i \in DOMAIN t : \E j \in DOMAIN table : t[i] = table[j]
          /\ \A j \in DOMAIN table : table[j].ctx # c => \E i \in DOMAIN t : t[i] = table[j]
          /\ \A i \in DOMAIN t : t[i].ctx # c
      BY <1>2, <2>1, DestroyProperties
    <3> QED BY <2>1, <3>1
  <2>2. CASE Syncs!Slots(table, c) = {}
    <3>1. /\ t \in Seq(Entry) /\ Len(t) = Len(table) /\ Len(table) \in Nat
          /\ live - Cardinality(Syncs!Slots(table, c) \cap Syncs!Synced(table)) = Syncs!Count(t)
          /\ DOMAIN t = DOMAIN table /\ \A i \in DOMAIN t : t[i] = table[i]
      BY <1>1, <1>2, <2>2, DestroyUnknown
    <3>2. \A i \in DOMAIN table : table[i].ctx # c
      BY <2>2 DEF Syncs!Slots
    <3>3. Len(t) = Len(table) - 0
      BY <3>1
    <3> QED BY <1>2, <2>2, <3>1, <3>2, <3>3 DEF Syncs!OneEntry
  <2> QED BY <2>1, <2>2
<1>4. table' = t /\ live' = Syncs!Count(t) /\ Syncs!Count(t) \in Nat /\ Syncs!Count(table)' = Syncs!Count(t)
  BY <1>1, <1>3, SyncedFinite DEF Syncs!Count, Syncs!Synced
<1>5. current_ctx = c
  BY <1>1, <1>2 DEF Left
<1>6. /\ gsize \in Nat /\ lacking \in Nat /\ gsize >= 2 /\ Len(table) < gsize + lacking
      /\ gsize' \in Nat /\ gsize' > 0 /\ lacking' \in Nat /\ Len(t) < gsize' + lacking'
  BY <1>1, <1>2, <1>3 DEF Syncs!RoomLeft, Syncs!TypeOK, Sized
<1>7. damaged' \in BOOLEAN /\ Syncs!StoredInside'
  <2>1. damaged' \in BOOLEAN /\ (damaged' => lacking > 0)
    BY <1>1, <1>2, <1>3, <1>6, AccessInside
  <2>2. lacking' >= lacking
    BY <1>1, <1>6
  <2> QED BY <1>6, <2>1, <2>2 DEF Syncs!StoredInside
<1>8. Syncs!TypeOK'
  BY <1>1, <1>2, <1>3, <1>4, <1>6, <1>7 DEF Syncs!TypeOK, Entry
<1>9. Syncs!RoomLeft' /\ Syncs!OneEntry' /\ Syncs!NoSyncLost'
  BY <1>3, <1>4, <1>6 DEF Syncs!RoomLeft, Syncs!OneEntry, Syncs!NoSyncLost
<1>10. Own'
  BY <1>2, <1>3, <1>4 DEF Own
<1>11. Fences'
  <2> SUFFICES ASSUME NEW d \in Contexts, work'[d] = "fenced"
               PROVE  \E i \in DOMAIN t : t[i] = [ctx |-> d, of |-> d]
    BY <1>4 DEF Fences
  <2>1. d # c /\ work[d] = "fenced"
    BY <1>1, <1>2 DEF Syncs!TypeOK
  <2>2. PICK j \in DOMAIN table : table[j] = [ctx |-> d, of |-> d]
    BY <1>1, <1>2, <2>1 DEF Fences
  <2> QED BY <1>3, <2>1, <2>2
<1>12. Open' /\ Left' /\ Waited'
  BY <1>1, <1>2, <1>5 DEF Open, Left, Waited, Syncs!TypeOK
<1>13. Sized'
  <2>1. Syncs!Slots(t, c) = {}
    BY <1>3 DEF Syncs!Slots
  <2>2. Syncs!Slots(table, current_ctx)' = Syncs!Slots(t, c)
    BY <1>1, <1>4, <1>5 DEF Syncs!Slots
  <2> QED BY <1>1, <2>1, <2>2 DEF Sized, Syncs!ConstantsAssumption
<1> QED BY <1>7, <1>8, <1>9, <1>10, <1>11, <1>12, <1>13 DEF SyncInv

\* the context that comes, and the commands that are executed.
LEMMA OthersKeep ==
  ASSUME Syncs!ConstantsAssumption, SyncInv, NEW c \in Contexts,
         Syncs!rvgpu_egl_create_context(c) \/ Syncs!Execute(c)
  PROVE  SyncInv'
<1>1. /\ Syncs!TypeOK /\ Syncs!RoomLeft /\ Syncs!StoredInside /\ Syncs!OneEntry /\ Syncs!NoSyncLost
      /\ Own /\ Open /\ Fences /\ Left /\ Waited /\ Sized
      /\ c # NoContext /\ NoContext # Main /\ c # Main
  BY DEF SyncInv, Syncs!ConstantsAssumption
<1>2. CASE Syncs!rvgpu_egl_create_context(c)
  <2>1. /\ gsize' \in Nat /\ gsize' >= gsize /\ gsize \in Nat /\ lacking \in Nat /\ Len(table) \in Nat
        /\ alive' = alive \cup {c} /\ UNCHANGED <<table, current_ctx, gl, work, live, lacking, damaged>>
    BY <1>1, <1>2, LenProperties
       DEF Syncs!rvgpu_egl_create_context, Syncs!rvgpu_increment_glsyncobjs_size, Syncs!TypeOK
  <2>2. Syncs!TypeOK'
    BY <1>1, <2>1 DEF Syncs!TypeOK
  <2>3. Syncs!Count(table)' = Syncs!Count(table)
    BY <2>1 DEF Syncs!Count, Syncs!Synced
  <2>4. Syncs!RoomLeft' /\ Syncs!StoredInside' /\ Syncs!OneEntry' /\ Syncs!NoSyncLost' /\ Own' /\ Sized'
    BY <1>1, <2>1, <2>3 DEF Syncs!RoomLeft, Syncs!StoredInside, Syncs!OneEntry, Syncs!NoSyncLost, Own, Sized, Syncs!Slots
  <2>5. Open' /\ Fences' /\ Left' /\ Waited'
    BY <1>1, <2>1 DEF Open, Fences, Left, Waited
  <2> QED BY <2>2, <2>4, <2>5 DEF SyncInv
<1>3. CASE Syncs!Execute(c)
  <2>1. /\ gl = c /\ work' = [work EXCEPT ![c] = "open"]
        /\ UNCHANGED <<table, gsize, current_ctx, gl, alive, live, lacking, damaged>>
    BY <1>3 DEF Syncs!Execute
  <2>2. Syncs!TypeOK'
    BY <1>1, <2>1 DEF Syncs!TypeOK
  <2>3. Syncs!Count(table)' = Syncs!Count(table)
    BY <2>1 DEF Syncs!Count, Syncs!Synced
  <2>4. Syncs!RoomLeft' /\ Syncs!StoredInside' /\ Syncs!OneEntry' /\ Syncs!NoSyncLost' /\ Own' /\ Sized'
    BY <1>1, <2>1, <2>3 DEF Syncs!RoomLeft, Syncs!StoredInside, Syncs!OneEntry, Syncs!NoSyncLost, Own, Sized, Syncs!Slots
  <2>5. Open' /\ Fences' /\ Left' /\ Waited'
    BY <1>1, <2>1 DEF Open, Fences, Left, Waited, Syncs!TypeOK
  <2> QED BY <2>2, <2>4, <2>5 DEF SyncInv
<1> QED BY <1>2, <1>3

\* So every step keeps it.
LEMMA SyncStep ==
  ASSUME Syncs!ConstantsAssumption, SyncInv, [Syncs!Next]_(Syncs!vars)
  PROVE  SyncInv'
<1>1. CASE UNCHANGED Syncs!vars
  BY <1>1 DEF Syncs!vars, SyncInv, Syncs!TypeOK, Syncs!RoomLeft, Syncs!StoredInside, Syncs!OneEntry, Syncs!NoSyncLost,
              Own, Open, Fences, Left, Waited, Sized, Syncs!Count, Syncs!Synced, Syncs!Slots
<1> QED BY <1>1, MakeCurrentKeeps, DrawKeeps, DestroyKeeps, OthersKeep DEF Syncs!Next

(***************************************************************************)
(* However the contexts are created, used, left and destroyed, and however *)
(* large the table may grow: a context has one entry, none is lost, after  *)
(* the waits of a draw nothing that was executed before is unfinished, the *)
(* arrays never become empty, and the next sync object has room in them    *)
(* but for one entry for each context destroyed without one: only after    *)
(* such an end does a step touch what lies behind the arrays.              *)
(***************************************************************************)
THEOREM DrawWaitsCorrect ==
  Syncs!Spec => [](Syncs!TypeOK /\ DrawWaits)
<1>1. Syncs!Init => SyncInv
  BY SyncInit, PartsAssumption
<1>2. SyncInv /\ [Syncs!Next]_(Syncs!vars) => SyncInv'
  BY SyncStep, PartsAssumption
<1>3. SyncInv => Syncs!TypeOK /\ DrawWaits
  BY DEF SyncInv, Syncs!TypeOK, DrawWaits, Syncs!WaitedAtDraw, Waited
<1> QED BY <1>1, <1>2, <1>3, PTL DEF Syncs!Spec

(***************************************************************************)
(* The acceptor.  Every process that is there has its entry in the list,   *)
(* and the ids of the list are pairwise different: so are those of the     *)
(* processes.                                                              *)
(***************************************************************************)
Listing == [id : Nat, pid : Pids \cup {NoPid}]

AcceptTyped == /\ Accept!TypeOK
               /\ apc # "first" => newsock \in Accept!Socket
               /\ apc = "poll" => rsocket \in Accept!Socket

Covered == \A x \in Pids : render[x].state \in {"running", "zombie"} =>
             \E i \in DOMAIN proxy_list : proxy_list[i] = [id |-> render[x].id, pid |-> x]

\* A surface id is a number.
LEMMA IdTyped ==
  ASSUME AcceptTyped, apc = "poll"
  PROVE  Accept!SurfaceId \in Nat
<1>1. /\ newsock.of \in Proxies /\ num_proxy \in Nat
      /\ AutoStep \in Nat /\ IdOf \in [Proxies -> Nat]
  BY PartsAssumption DEF AcceptTyped, Accept!TypeOK, Accept!Socket, Accept!ConstantsAssumption
<1>2. \A m, n \in Nat : m * n \in Nat
  OBVIOUS
<1> QED BY <1>1, <1>2 DEF Accept!SurfaceId

\* When no process has the id, no entry of the cleaned list has it, and the
\* entries of processes that are there have stayed.
LEMMA CleanedProperties ==
  ASSUME AcceptTyped, ~Accept!HasId, NEW u, u = Accept!Cleaned
  PROVE  /\ u \in Seq(Listing) /\ DOMAIN u = 1 .. Len(u) /\ Len(u) \in Nat
         /\ \A i, j \in DOMAIN u : u[i].id = u[j].id => i = j
         /\ \A i \in DOMAIN u : u[i].id # Accept!SurfaceId
         /\ \A i \in DOMAIN u : \E j \in DOMAIN proxy_list : u[i] = proxy_list[j]
         /\ \A j \in DOMAIN proxy_list : Accept!Alive(proxy_list[j].pid) =>
              \E i \in DOMAIN u : u[i] = proxy_list[j]
<1>1. /\ proxy_list \in Seq(Listing) /\ DOMAIN proxy_list = 1 .. Len(proxy_list)
      /\ \A i, j \in DOMAIN proxy_list : proxy_list[i].id = proxy_list[j].id => i = j
  BY LenProperties DEF AcceptTyped, Accept!TypeOK, Listing
<1>2. CASE Accept!Entries = {}
  <2>1. u = proxy_list
    BY <1>2 DEF Accept!Cleaned
  <2>2. \A i \in DOMAIN proxy_list : proxy_list[i].id # Accept!SurfaceId
    BY <1>2 DEF Accept!Entries
  <2> QED BY <1>1, <2>1, <2>2, LenProperties
<1>3. CASE Accept!Entries # {}
  <2>1. PICK k \in DOMAIN proxy_list : proxy_list[k].id = Accept!SurfaceId
    BY <1>3 DEF Accept!Entries
  <2>2. Accept!Entries = {k}
    BY <1>1, <2>1 DEF Accept!Entries
  <2>3. Accept!First = k
    <3>1. k \in Nat
      BY <1>1
    <3> QED BY <2>2, <3>1 DEF Accept!First
  <2> DEFINE p == proxy_list[k].pid
             P == Accept!Of(p)
  <2>4. ~Accept!Alive(p)
    BY <1>3, <2>3 DEF Accept!HasId
  <2>5. u = Without(proxy_list, P)
    BY <1>3, <2>3, SameWithout DEF Accept!Cleaned
  <2>6. P = {i \in DOMAIN proxy_list : proxy_list[i].pid = p}
    BY DEF Accept!Of
  <2> HIDE DEF P
  <2>17. PICK t, Q : t = proxy_list /\ Q = P
    OBVIOUS
  <2>18. Without(t, Q) \in Seq(Listing) /\ Others(Without(t, Q), t, Q)
    <3>1. t \in Seq(Listing)
      BY <1>1, <2>17
    <3> QED BY <3>1, WithoutOthers
  <2>19. u = Without(t, Q)
    BY <2>5, <2>17
  <2>20. Others(u, proxy_list, P)
    BY <2>17, <2>18, <2>19
  <2>7. PICK f \in [1 .. Len(u) -> 1 .. Len(proxy_list)] :
          /\ \A i, j \in 1 .. Len(u) : i < j => f[i] < f[j]
          /\ \A i \in 1 .. Len(u) : f[i] \notin P /\ u[i] = proxy_list[f[i]]
          /\ \A j \in 1 .. Len(proxy_list) : j \notin P => \E i \in 1 .. Len(u) : f[i] = j
    BY <2>20 DEF Others
  <2>8. u \in Seq(Listing)
    BY <2>18, <2>19
  <2>9. DOMAIN u = 1 .. Len(u) /\ Len(u) \in Nat /\ Len(proxy_list) \in Nat
    BY <1>1, <2>8, LenProperties
  <2>10. \A i, j \in 1 .. Len(u) : f[i] = f[j] => i = j
    BY <2>7, <2>9
  <2>11. k \in P
    BY <2>1, <2>6
  <2>12. \A i \in 1 .. Len(u) : f[i] \in DOMAIN proxy_list /\ f[i] # k
    BY <1>1, <2>7, <2>11
  <2>13. \A i, j \in DOMAIN u : u[i].id = u[j].id => i = j
    BY <1>1, <2>7, <2>9, <2>10, <2>12
  <2>14. \A i \in DOMAIN u : u[i].id # Accept!SurfaceId
    BY <1>1, <2>1, <2>7, <2>9, <2>12
  <2>15. \A i \in DOMAIN u : \E j \in DOMAIN proxy_list : u[i] = proxy_list[j]
    BY <2>7, <2>9, <2>12
  <2>16. \A j \in DOMAIN proxy_list : Accept!Alive(proxy_list[j].pid) =>
           \E i \in DOMAIN u : u[i] = proxy_list[j]
    <3> SUFFICES ASSUME NEW j \in DOMAIN proxy_list, Accept!Alive(proxy_list[j].pid)
                 PROVE  \E i \in DOMAIN u : u[i] = proxy_list[j]
      OBVIOUS
    <3>1. proxy_list[j].pid # p
      BY <2>4
    <3>2. j \notin P /\ j \in 1 .. Len(proxy_list)
      BY <1>1, <2>6, <3>1
    <3>3. PICK i \in 1 .. Len(u) : f[i] = j
      BY <2>7, <3>2
    <3>4. u[i] = proxy_list[j] /\ i \in DOMAIN u
      BY <2>7, <2>9, <3>3
    <3> QED BY <3>4
  <2> QED BY <2>8, <2>9, <2>13, <2>14, <2>15, <2>16
<1> QED BY <1>2, <1>3

\* A number is no process.
LEMMA AliveIs ==
  ASSUME NEW x \in Pids
  PROVE  Accept!Alive(x) <=> render[x].state \in {"running", "zombie"}
BY PartsAssumption DEF Accept!Alive, Accept!ConstantsAssumption

\* An entry with the id of the connecting proxy is put on the cleaned list.
LEMMA EntryAdded ==
  ASSUME AcceptTyped, ~Accept!HasId, apc = "poll", NEW x \in Pids \cup {NoPid},
         proxy_list' = Append(Accept!Cleaned, [id |-> Accept!SurfaceId, pid |-> x])
  PROVE  /\ proxy_list' \in Seq(Listing)
         /\ \A i, j \in DOMAIN proxy_list' : proxy_list'[i].id = proxy_list'[j].id => i = j
         /\ \E i \in DOMAIN proxy_list' : proxy_list'[i] = [id |-> Accept!SurfaceId, pid |-> x]
         /\ \A j \in DOMAIN proxy_list : Accept!Alive(proxy_list[j].pid) =>
              \E i \in DOMAIN proxy_list' : proxy_list'[i] = proxy_list[j]
         /\ \A i \in DOMAIN proxy_list' :
              \/ proxy_list'[i] = [id |-> Accept!SurfaceId, pid |-> x]
              \/ \E j \in DOMAIN proxy_list : proxy_list'[i] = proxy_list[j]
<1>1. PICK u : u = Accept!Cleaned
  OBVIOUS
<1> DEFINE e == [id |-> Accept!SurfaceId, pid |-> x]
<1>2. proxy_list' = Append(u, e)
  BY <1>1
<1>3. e \in Listing /\ e.id = Accept!SurfaceId
  BY IdTyped DEF Listing
<1>4. /\ u \in Seq(Listing) /\ DOMAIN u = 1 .. Len(u) /\ Len(u) \in Nat
      /\ \A i, j \in DOMAIN u : u[i].id = u[j].id => i = j
      /\ \A i \in DOMAIN u : u[i].id # Accept!SurfaceId
      /\ \A i \in DOMAIN u : \E j \in DOMAIN proxy_list : u[i] = proxy_list[j]
      /\ \A j \in DOMAIN proxy_list : Accept!Alive(proxy_list[j].pid) =>
           \E i \in DOMAIN u : u[i] = proxy_list[j]
  BY <1>1, CleanedProperties
<1> HIDE DEF e
<1>5. /\ proxy_list' \in Seq(Listing) /\ Len(proxy_list') = Len(u) + 1
      /\ proxy_list'[Len(u) + 1] = e
      /\ \A i \in 1 .. Len(u) : proxy_list'[i] = u[i]
  <2>1. u \in Seq(Listing) /\ e \in Listing
    BY <1>3, <1>4
  <2>2. PICK t : t = Append(u, e)
    OBVIOUS
  <2>3. /\ t \in Seq(Listing) /\ Len(t) = Len(u) + 1 /\ t[Len(u) + 1] = e
        /\ \A i \in 1 .. Len(u) : t[i] = u[i]
    BY <2>1, <2>2, AppendProperties
  <2> QED BY <1>2, <2>2, <2>3
<1>6. DOMAIN proxy_list' = 1 .. Len(u) + 1
  BY <1>5, LenProperties
<1>7. \A i \in 1 .. Len(u) + 1 : i \in 1 .. Len(u) \/ i = Len(u) + 1
  BY <1>4
<1>8. \A i, j \in DOMAIN proxy_list' : proxy_list'[i].id = proxy_list'[j].id => i = j
  BY <1>3, <1>4, <1>5, <1>6, <1>7
<1>9. Len(u) + 1 \in DOMAIN proxy_list' /\ 1 .. Len(u) \subseteq DOMAIN proxy_list'
  BY <1>4, <1>6
<1>10. \A j \in DOMAIN proxy_list : Accept!Alive(proxy_list[j].pid) =>
         \E i \in DOMAIN proxy_list' : proxy_list'[i] = proxy_list[j]
  BY <1>4, <1>5, <1>9
<1>11. \A i \in DOMAIN proxy_list' :
         proxy_list'[i] = e \/ \E j \in DOMAIN proxy_list : proxy_list'[i] = proxy_list[j]
  BY <1>4, <1>5, <1>6, <1>7
<1> QED BY <1>5, <1>8, <1>9, <1>10, <1>11 DEF e

\* A render process is forked and put on the list.
LEMMA ForkKeeps ==
  ASSUME AcceptTyped, Covered, ~Accept!HasId, apc = "poll",
         NEW x \in Pids, Accept!Fork(x), UNCHANGED << proxy, backlog, num_proxy, mixed >>
  PROVE  AcceptTyped' /\ Covered'
<1>1. /\ render' = [render EXCEPT ![x] = [id |-> Accept!SurfaceId, cmd |-> newsock,
                                          res |-> rsocket, state |-> "running"]]
      /\ proxy_list' = Append(Accept!Cleaned, [id |-> Accept!SurfaceId, pid |-> x])
      /\ newsock' = Accept!NoSocket /\ rsocket' = Accept!NoSocket /\ apc' = "first"
      /\ UNCHANGED refused /\ reused' \in {reused, reused \cup {x}}
  BY DEF Accept!Fork
<1>2. /\ proxy_list' \in Seq(Listing)
      /\ \A i, j \in DOMAIN proxy_list' : proxy_list'[i].id = proxy_list'[j].id => i = j
      /\ \E i \in DOMAIN proxy_list' : proxy_list'[i] = [id |-> Accept!SurfaceId, pid |-> x]
      /\ \A j \in DOMAIN proxy_list : Accept!Alive(proxy_list[j].pid) =>
           \E i \in DOMAIN proxy_list' : proxy_list'[i] = proxy_list[j]
  BY <1>1, EntryAdded
<1>3. /\ newsock \in Accept!Socket /\ rsocket \in Accept!Socket /\ Accept!SurfaceId \in Nat
      /\ render \in [Pids -> [id : Nat, cmd : Accept!Socket \cup {Accept!NoSocket},
                              res : Accept!Socket \cup {Accept!NoSocket},
                              state : {"free", "running", "zombie", "reaped"}]]
  BY IdTyped DEF AcceptTyped, Accept!TypeOK
<1>4. render' \in [Pids -> [id : Nat, cmd : Accept!Socket \cup {Accept!NoSocket},
                            res : Accept!Socket \cup {Accept!NoSocket},
                            state : {"free", "running", "zombie", "reaped"}]]
  BY <1>1, <1>3
<1>5. reused' \subseteq Pids
  BY <1>1 DEF AcceptTyped, Accept!TypeOK
<1>6. AcceptTyped'
  BY <1>1, <1>2, <1>4, <1>5 DEF AcceptTyped, Accept!TypeOK, Listing
<1>7. Covered'
  <2> SUFFICES ASSUME NEW y \in Pids, render'[y].state \in {"running", "zombie"}
               PROVE  \E i \in DOMAIN proxy_list' :
                        proxy_list'[i] = [id |-> render'[y].id, pid |-> y]
    BY DEF Covered
  <2>1. CASE y = x
    <3>1. render'[y].id = Accept!SurfaceId
      BY <1>1, <1>3, <2>1
    <3> QED BY <1>2, <2>1, <3>1
  <2>2. CASE y # x
    <3>1. render'[y] = render[y] /\ Accept!Alive(y)
      BY <1>1, <1>3, <2>2, AliveIs
    <3>2. PICK j \in DOMAIN proxy_list : proxy_list[j] = [id |-> render[y].id, pid |-> y]
      BY <3>1, AliveIs DEF Covered
    <3>3. PICK i \in DOMAIN proxy_list' : proxy_list'[i] = proxy_list[j]
      BY <1>2, <3>1, <3>2
    <3> QED BY <3>1, <3>2, <3>3
  <2> QED BY <2>1, <2>2
<1> QED BY <1>6, <1>7

\* A failed fork leaves its entry, and closes the connections.
LEMMA ForkFailsKeeps ==
  ASSUME AcceptTyped, Covered, ~Accept!HasId, apc = "poll",
         Accept!ForkFails, UNCHANGED << proxy, backlog, num_proxy, mixed >>
  PROVE  AcceptTyped' /\ Covered'
<1>1. /\ proxy_list' = Append(Accept!Cleaned, [id |-> Accept!SurfaceId, pid |-> NoPid])
      /\ newsock' = Accept!NoSocket /\ rsocket' = Accept!NoSocket /\ apc' = "first"
      /\ refused' = refused \cup {newsock.of, rsocket.of} /\ UNCHANGED << render, reused >>
  BY DEF Accept!ForkFails, Accept!Refuse
<1>2. /\ proxy_list' \in Seq(Listing)
      /\ \A i, j \in DOMAIN proxy_list' : proxy_list'[i].id = proxy_list'[j].id => i = j
      /\ \A j \in DOMAIN proxy_list : Accept!Alive(proxy_list[j].pid) =>
           \E i \in DOMAIN proxy_list' : proxy_list'[i] = proxy_list[j]
  BY <1>1, EntryAdded
<1>3. newsock.of \in Proxies /\ rsocket.of \in Proxies
  BY DEF AcceptTyped, Accept!Socket
<1>4. AcceptTyped'
  BY <1>1, <1>2, <1>3 DEF AcceptTyped, Accept!TypeOK, Listing
<1>5. Covered'
  <2> SUFFICES ASSUME NEW y \in Pids, render[y].state \in {"running", "zombie"}
               PROVE  \E i \in DOMAIN proxy_list' :
                        proxy_list'[i] = [id |-> render[y].id, pid |-> y]
    BY <1>1 DEF Covered
  <2>1. PICK j \in DOMAIN proxy_list : proxy_list[j] = [id |-> render[y].id, pid |-> y]
    BY DEF Covered
  <2>2. Accept!Alive(y)
    BY AliveIs
  <2> QED BY <1>2, <2>1, <2>2
<1> QED BY <1>4, <1>5

\* What else happens takes no entry from the list and makes no process.
LEMMA OthersCover ==
  ASSUME AcceptTyped, Covered, Accept!Next, ~Accept!ReadId
  PROVE  AcceptTyped' /\ Covered'
<1> USE DEF AcceptTyped, Accept!TypeOK
<1>1. ASSUME UNCHANGED proxy_list,
             \A x \in Pids : render'[x].state \in {"running", "zombie"} =>
               render[x].state \in {"running", "zombie"} /\ render'[x].id = render[x].id
      PROVE  Covered'
  <2> HIDE DEF AcceptTyped, Accept!TypeOK
  <2> QED BY <1>1 DEF Covered
<1>2. ASSUME UNCHANGED << proxy_list, render >> PROVE Covered'
  BY <1>2 DEF Covered
<1>b. ASSUME NEW p \in Proxies, Accept!Connect(p) \/ Accept!Leave(p)
      PROVE  mixed' \in BOOLEAN
  BY <1>b, Zenon DEF Accept!Connect, Accept!Leave
<1>3. ASSUME NEW p \in Proxies, Accept!Connect(p) PROVE AcceptTyped' /\ Covered'
  <2>1. [of |-> p, kind |-> "cmd"] \in Accept!Socket /\ [of |-> p, kind |-> "res"] \in Accept!Socket
    BY DEF Accept!Socket
  <2>2. backlog' \in Seq(Accept!Socket)
    <3>1. \A s \in Accept!Socket : Append(backlog, s) \in Seq(Accept!Socket)
      BY AppendProperties
    <3>2. \E s \in Accept!Socket : backlog' = Append(backlog, s)
      BY <1>3, <2>1 DEF Accept!Connect
    <3> QED BY <3>1, <3>2
  <2>3. proxy' \in [Proxies -> {"new", "cmd", "res", "sent", "closed", "gone"}]
    BY <1>3 DEF Accept!Connect
  <2>4. UNCHANGED << apc, newsock, rsocket, refused, num_proxy, proxy_list, render, reused >>
    BY <1>3, Zenon DEF Accept!Connect, Accept!list
  <2>5. mixed' \in BOOLEAN
    BY <1>3, <1>b
  <2>6. Covered'
    BY <1>2, <2>4
  <2> QED BY <2>2, <2>3, <2>4, <2>5, <2>6
<1>4. ASSUME NEW p \in Proxies, Accept!SendId(p) PROVE AcceptTyped' /\ Covered'
  <2>1. /\ UNCHANGED << backlog, apc, newsock, rsocket, refused, mixed, num_proxy, proxy_list,
                       render, reused >>
        /\ proxy' = [proxy EXCEPT ![p] = "sent"]
    BY <1>4 DEF Accept!SendId, Accept!list
  <2> QED BY <1>2, <2>1
<1>5. ASSUME NEW p \in Proxies, Accept!Leave(p) PROVE AcceptTyped' /\ Covered'
  <2>1. UNCHANGED << backlog, apc, newsock, rsocket, refused, num_proxy, proxy_list, render, reused >>
    BY <1>5, Zenon DEF Accept!Leave, Accept!list
  <2>2. \E v \in {"closed", "gone"} : proxy' = [proxy EXCEPT ![p] = v]
    BY <1>5 DEF Accept!Leave
  <2>3. mixed' \in BOOLEAN
    BY <1>5, <1>b
  <2>4. Covered'
    BY <1>2, <2>1
  <2> QED BY <2>1, <2>2, <2>3, <2>4
<1>6. CASE Accept!Accept
  <2>1. Head(backlog) \in Accept!Socket /\ Tail(backlog) \in Seq(Accept!Socket)
    BY <1>6, HeadTailProperties DEF Accept!Accept
  <2>2. CASE apc = "first"
    BY <1>2, <1>6, <2>1, <2>2 DEF Accept!Accept
  <2>3. CASE apc # "first"
    BY <1>2, <1>6, <2>1, <2>3 DEF Accept!Accept
  <2> QED BY <2>2, <2>3
<1>7. CASE Accept!wait_for_child
  <2>1. \A x \in Pids : render'[x] = IF render[x].state = "zombie"
                                     THEN [render[x] EXCEPT !.state = "reaped"] ELSE render[x]
    BY <1>7 DEF Accept!wait_for_child, Accept!Reaped
  <2>2. render' \in [Pids -> [id : Nat, cmd : Accept!Socket \cup {Accept!NoSocket},
                              res : Accept!Socket \cup {Accept!NoSocket},
                              state : {"free", "running", "zombie", "reaped"}]]
    <3> DEFINE Process == [id : Nat, cmd : Accept!Socket \cup {Accept!NoSocket},
                           res : Accept!Socket \cup {Accept!NoSocket},
                           state : {"free", "running", "zombie", "reaped"}]
    <3>1. ASSUME NEW r \in Process PROVE [r EXCEPT !.state = "reaped"] \in Process
      OBVIOUS
    <3>2. ASSUME NEW x \in Pids PROVE Accept!Reaped[x] \in Process
      <4>1. render[x] \in Process
        OBVIOUS
      <4> HIDE DEF Process, AcceptTyped
      <4>2. [render[x] EXCEPT !.state = "reaped"] \in Process
        BY <3>1, <4>1
      <4> QED BY <4>1, <4>2 DEF Accept!Reaped
    <3>3. render' = Accept!Reaped
      BY <1>7 DEF Accept!wait_for_child
    <3> HIDE DEF Process
    <3>4. Accept!Reaped \in [Pids -> Process]
      BY <3>2 DEF Accept!Reaped
    <3>5. render' \in [Pids -> Process]
      BY <3>3, <3>4
    <3> QED BY <3>5 DEF Process
  <2>3. UNCHANGED proxy_list
    BY <1>7 DEF Accept!wait_for_child
  <2>4. \A x \in Pids : render'[x].state \in {"running", "zombie"} =>
          render[x].state \in {"running", "zombie"} /\ render'[x].id = render[x].id
    BY <2>1
  <2>5. Covered'
    BY <1>1, <2>3, <2>4
  <2>6. CASE apc = "poll" /\ ~Accept!Readable
    <3>1. newsock.of \in Proxies /\ rsocket.of \in Proxies
      BY <2>6 DEF Accept!Socket
    <3>2. /\ refused' = refused \cup {newsock.of, rsocket.of}
          /\ newsock' = Accept!NoSocket /\ rsocket' = Accept!NoSocket /\ apc' = "first"
          /\ UNCHANGED <<proxy, backlog, num_proxy, proxy_list, mixed, reused>>
      BY <1>7, <2>6 DEF Accept!wait_for_child, Accept!Refuse
    <3> QED BY <2>2, <2>5, <3>1, <3>2
  <2>7. CASE ~(apc = "poll" /\ ~Accept!Readable)
    <3>1. UNCHANGED <<proxy, backlog, apc, newsock, rsocket, num_proxy, proxy_list, refused, mixed, reused>>
      BY <1>7, <2>7 DEF Accept!wait_for_child
    <3> QED BY <2>2, <2>5, <3>1
  <2> QED BY <2>6, <2>7
<1>8. ASSUME NEW x \in Pids, Accept!RenderEnds(x) PROVE AcceptTyped' /\ Covered'
  <2>1. \A y \in Pids : render'[y].state \in {"running", "zombie"} =>
          render[y].state \in {"running", "zombie"} /\ render'[y].id = render[y].id
    BY <1>8 DEF Accept!RenderEnds
  <2>2. /\ render' = [render EXCEPT ![x].state = "zombie"]
        /\ UNCHANGED <<proxy, backlog, apc, newsock, rsocket, num_proxy, proxy_list, refused, mixed, reused>>
    BY <1>8 DEF Accept!RenderEnds
  <2>3. Covered'
    BY <1>1, <2>1, <2>2
  <2>4. AcceptTyped'
    BY <2>2
  <2> QED BY <2>3, <2>4
<1> QED BY <1>3, <1>4, <1>5, <1>6, <1>7, <1>8 DEF Accept!Next

\* The acceptor has read the id: it refuses the proxy, or forks.
LEMMA ReadKeeps ==
  ASSUME AcceptTyped, Covered, Accept!ReadId
  PROVE  AcceptTyped' /\ Covered'
<1>1. apc = "poll" /\ UNCHANGED << proxy, backlog, num_proxy, mixed >>
  BY DEF Accept!ReadId
<1>2. CASE Accept!NoId \/ Accept!HasId
  <2>1. newsock.of \in Proxies /\ rsocket.of \in Proxies
    BY <1>1 DEF AcceptTyped, Accept!Socket
  <2>2. /\ refused' = refused \cup {newsock.of, rsocket.of}
        /\ newsock' = Accept!NoSocket /\ rsocket' = Accept!NoSocket /\ apc' = "first"
        /\ UNCHANGED << render, proxy_list, reused >>
    BY <1>2 DEF Accept!ReadId, Accept!Refuse
  <2> QED BY <1>1, <2>1, <2>2 DEF AcceptTyped, Accept!TypeOK, Covered
<1>3. CASE ~(Accept!NoId \/ Accept!HasId)
  <2>1. Accept!ForkFails \/ \E x \in Pids : Accept!Fork(x)
    BY <1>3 DEF Accept!ReadId
  <2> QED BY <1>1, <1>3, <2>1, ForkKeeps, ForkFailsKeeps
<1> QED BY <1>2, <1>3

\* So every step keeps it.
LEMMA AcceptStep ==
  ASSUME AcceptTyped, Covered, [Accept!Next]_(Accept!vars)
  PROVE  AcceptTyped' /\ Covered'
<1>1. CASE UNCHANGED Accept!vars
  BY <1>1 DEF Accept!vars, Accept!list, AcceptTyped, Accept!TypeOK, Covered
<1> QED BY <1>1, ReadKeeps, OthersCover

\* In the beginning there is no process.
LEMMA AcceptInit == Accept!Init => AcceptTyped /\ Covered
<1> SUFFICES ASSUME Accept!Init PROVE AcceptTyped /\ Covered
  OBVIOUS
<1>1. << >> \in Seq(Accept!Socket) /\ << >> \in Seq(Listing)
  BY EmptySeq
<1>2. \A x \in Pids : render[x] = Accept!NoProcess
  BY DEF Accept!Init
<1>3. Accept!NoProcess.state = "free" /\ Accept!NoProcess.id = 0
  BY DEF Accept!NoProcess
<1>4. Covered
  BY <1>2, <1>3 DEF Covered
<1>5. mixed \in BOOLEAN /\ reused \subseteq Pids
  BY DEF Accept!Init
<1>6. AcceptTyped
  BY <1>1, <1>5 DEF Accept!Init, AcceptTyped, Accept!TypeOK, Accept!NoProcess, Listing
<1> QED BY <1>4, <1>6

(***************************************************************************)
(* No two processes draw the same surface at one time: for any proxies, in *)
(* whatever order they connect, send their ids and leave, also when pids   *)
(* are used again and the list is out of date.                             *)
(***************************************************************************)
THEOREM UniqueCorrect == Accept!Spec => [](Accept!TypeOK /\ Accept!UniqueIds)
<1>1. AcceptTyped /\ Covered => Accept!TypeOK /\ Accept!UniqueIds
  <2> SUFFICES ASSUME AcceptTyped, Covered, NEW x \in Pids, NEW y \in Pids,
                      render[x].state = "running", render[y].state = "running",
                      render[x].id = render[y].id
               PROVE  x = y
    BY DEF AcceptTyped, Accept!UniqueIds
  <2>1. PICK i \in DOMAIN proxy_list : proxy_list[i] = [id |-> render[x].id, pid |-> x]
    BY DEF Covered
  <2>2. PICK j \in DOMAIN proxy_list : proxy_list[j] = [id |-> render[y].id, pid |-> y]
    BY DEF Covered
  <2>3. i = j
    BY <2>1, <2>2 DEF AcceptTyped, Accept!TypeOK
  <2> QED BY <2>1, <2>2, <2>3
<1> QED BY <1>1, AcceptInit, AcceptStep, PTL DEF Accept!Spec

(***************************************************************************)
(* Connections of one proxy come one after the other.  Waiting(i) is the   *)
(* i-th of those that are not paired yet, the one the acceptor holds       *)
(* included.                                                               *)
(***************************************************************************)
Held == IF apc = "second" THEN 1 ELSE 0
Waiting(i) == IF i <= Held THEN newsock ELSE backlog[i - Held]
LastWaiting == Len(backlog) + Held

InPairs ==
  \A i \in 1 .. LastWaiting :
    IF i % 2 = 1 THEN Waiting(i).kind = "cmd"
    ELSE Waiting(i).kind = "res" /\ Waiting(i).of = Waiting(i - 1).of

\* Only the proxy of the last connection may have one connection.
Half == \A p \in Proxies :
          proxy[p] = "cmd" <=> (LastWaiting % 2 = 1 /\ Waiting(LastWaiting).of = p)

Polled == apc = "poll" => /\ newsock.kind = "cmd" /\ rsocket.kind = "res"
                          /\ newsock.of = rsocket.of

\* A process has both connections of one proxy.
Joined == \A x \in Pids : render[x].state # "free" =>
            render[x].cmd.of = render[x].res.of /\ render[x].res.kind = "res"

Pairs == InPairs /\ Half /\ Polled /\ Joined

PairInv == AcceptTyped /\ (mixed \/ Pairs)

LEMMA Parity ==
  \A n \in Nat : /\ n % 2 \in {0, 1} /\ (n + 1) % 2 = 1 - (n % 2) /\ (n + 2) % 2 = n % 2
OBVIOUS

\* A proxy connects once more.
LEMMA ConnectPairs ==
  ASSUME AcceptTyped, Pairs, NEW p \in Proxies, Accept!Connect(p), ~mixed'
  PROVE  Pairs'
<1>n. PICK n : n = LastWaiting
  OBVIOUS
<1>1. PICK s : /\ s \in Accept!Socket /\ s.of = p /\ backlog' = Append(backlog, s)
               /\ \/ /\ proxy[p] = "new" /\ s.kind = "cmd" /\ \A q \in Proxies : proxy[q] # "cmd"
                     /\ proxy' = [proxy EXCEPT ![p] = "cmd"]
                  \/ /\ proxy[p] = "cmd" /\ s.kind = "res"
                     /\ proxy' = [proxy EXCEPT ![p] = "res"]
  <2>1. CASE proxy[p] = "new"
    <3> DEFINE s == [of |-> p, kind |-> "cmd"]
    <3>1. s \in Accept!Socket /\ s.of = p /\ s.kind = "cmd"
      BY DEF Accept!Socket
    <3> QED BY <2>1, <3>1 DEF Accept!Connect
  <2>2. CASE proxy[p] = "cmd"
    <3> DEFINE s == [of |-> p, kind |-> "res"]
    <3>1. s \in Accept!Socket /\ s.of = p /\ s.kind = "res"
      BY DEF Accept!Socket
    <3> QED BY <2>2, <3>1 DEF Accept!Connect
  <2> QED BY <2>1, <2>2 DEF Accept!Connect
<1>2. UNCHANGED << apc, newsock, rsocket, render >>
  BY DEF Accept!Connect, Accept!list
<1>3. /\ backlog \in Seq(Accept!Socket) /\ Len(backlog) \in Nat
      /\ proxy \in [Proxies -> {"new", "cmd", "res", "sent", "closed", "gone"}]
  BY LenProperties DEF AcceptTyped, Accept!TypeOK
<1>4. /\ Len(backlog') = Len(backlog) + 1 /\ backlog'[Len(backlog) + 1] = s
      /\ \A i \in 1 .. Len(backlog) : backlog'[i] = backlog[i]
  BY <1>1, <1>3, AppendProperties
<1>5. Held \in {0, 1} /\ Held' = Held /\ n \in Nat /\ LastWaiting' = n + 1
  BY <1>n, <1>2, <1>3, <1>4 DEF Held, LastWaiting
<1>6. Waiting(n + 1)' = s /\ \A i \in 1 .. n : Waiting(i)' = Waiting(i)
  BY <1>n, <1>2, <1>3, <1>4, <1>5 DEF Waiting, LastWaiting
<1>7. /\ \A i \in 1 .. n : IF i % 2 = 1 THEN Waiting(i).kind = "cmd"
                           ELSE Waiting(i).kind = "res" /\ Waiting(i).of = Waiting(i - 1).of
      /\ \A q \in Proxies : proxy[q] = "cmd" <=> (n % 2 = 1 /\ Waiting(n).of = q)
  BY <1>n DEF Pairs, InPairs, Half
<1>8. /\ n % 2 \in {0, 1} /\ (n + 1) % 2 = 1 - (n % 2)
  BY <1>5, Parity
<1>9. n % 2 = 1 => n \in 1 .. n
  BY <1>5
<1>10. n % 2 = 0 <=> s.kind = "cmd"
  <2>1. CASE s.kind = "cmd"
    <3>1. CASE n % 2 = 1
      <4>1. Waiting(n).of \in Proxies
        <5>1. Waiting(n) \in Accept!Socket
          BY <1>n, <1>3, <1>5, <1>9, <3>1 DEF Waiting, LastWaiting, AcceptTyped, Held
        <5> QED BY <5>1 DEF Accept!Socket
      <4> QED BY <1>1, <1>7, <2>1, <3>1, <4>1
    <3> QED BY <1>8, <2>1, <3>1
  <2>2. CASE s.kind # "cmd"
    BY <1>1, <1>7, <2>2
  <2> QED BY <2>1, <2>2
<1>11. InPairs'
  <2> SUFFICES ASSUME NEW i \in 1 .. n + 1
               PROVE  IF i % 2 = 1 THEN Waiting(i)'.kind = "cmd"
                      ELSE Waiting(i)'.kind = "res" /\ Waiting(i)'.of = Waiting(i - 1)'.of
    BY <1>5 DEF InPairs
  <2>1. CASE i \in 1 .. n
    <3>1. i % 2 # 1 => i - 1 \in 1 .. n
      BY <1>5, <2>1
    <3> QED BY <1>6, <1>7, <2>1, <3>1
  <2>2. CASE i = n + 1 /\ n % 2 = 0
    <3>1. i % 2 = 1 /\ s.kind = "cmd"
      BY <1>5, <1>8, <1>10, <2>2
    <3>2. Waiting(i)' = s
      BY <1>6, <2>2
    <3> QED BY <3>1, <3>2
  <2>3. CASE i = n + 1 /\ n % 2 = 1
    <3>1. i - 1 = n /\ n \in 1 .. n /\ i % 2 = 0
      BY <1>5, <1>8, <1>9, <2>3
    <3>2. s.kind = "res" /\ proxy[p] = "cmd" /\ s.of = p
      BY <1>1, <1>10, <2>3
    <3>3. Waiting(i)' = s /\ Waiting(i - 1)' = Waiting(n) /\ Waiting(n).of = p
      BY <1>6, <1>7, <2>3, <3>1, <3>2
    <3> QED BY <3>1, <3>2, <3>3
  <2> QED BY <1>5, <1>8, <2>1, <2>2, <2>3
<1>12. Half'
  <2> SUFFICES ASSUME NEW q \in Proxies
               PROVE  proxy'[q] = "cmd" <=> ((n + 1) % 2 = 1 /\ s.of = q)
    BY <1>5, <1>6 DEF Half
  <2>1. CASE n % 2 = 0
    <3>1. proxy' = [proxy EXCEPT ![p] = "cmd"] /\ proxy[q] # "cmd" /\ (n + 1) % 2 = 1
      BY <1>1, <1>5, <1>8, <1>10, <2>1
    <3> QED BY <1>1, <1>3, <3>1
  <2>2. CASE n % 2 = 1
    <3>1. /\ proxy' = [proxy EXCEPT ![p] = "res"]
          /\ proxy[p] = "cmd" /\ (n + 1) % 2 = 0
      BY <1>1, <1>5, <1>8, <1>10, <2>2
    <3>2. q # p => proxy[q] # "cmd"
      BY <1>7, <2>2, <3>1
    <3> QED BY <1>3, <3>1, <3>2
  <2> QED BY <1>8, <2>1, <2>2
<1> QED BY <1>2, <1>11, <1>12 DEF Pairs, Polled, Joined

\* The acceptor takes the next connection.
LEMMA AcceptPairs ==
  ASSUME AcceptTyped, Pairs, Accept!Accept
  PROVE  Pairs'
<1>1. /\ backlog \in Seq(Accept!Socket) /\ Len(backlog) \in Nat /\ Len(backlog) # 0
      /\ backlog' = Tail(backlog)
      /\ Len(backlog') = Len(backlog) - 1 /\ Head(backlog) = backlog[1]
      /\ \A i \in 1 .. Len(backlog) - 1 : backlog'[i] = backlog[i + 1]
  <2>1. backlog \in Seq(Accept!Socket) /\ backlog # << >> /\ backlog' = Tail(backlog)
    BY DEF Accept!Accept, AcceptTyped, Accept!TypeOK
  <2> QED BY <2>1, LenProperties, EmptySeq, HeadTailProperties
<1>2. Joined'
  BY DEF Accept!Accept, Pairs, Joined
<1>3. UNCHANGED proxy
  BY DEF Accept!Accept
<1>4. CASE apc = "first"
  <2>1. apc' = "second" /\ newsock' = backlog[1]
    BY <1>1, <1>4 DEF Accept!Accept
  <2>2. Held = 0 /\ Held' = 1 /\ LastWaiting' = LastWaiting /\ LastWaiting \in Nat
    BY <1>1, <1>4, <2>1 DEF Held, LastWaiting
  <2>3. LastWaiting = Len(backlog)
    BY <1>1, <2>2 DEF LastWaiting
  <2>4. \A i \in 1 .. LastWaiting : Waiting(i)' = Waiting(i)
    BY <1>1, <2>1, <2>2, <2>3 DEF Waiting
  <2>5. InPairs'
    <3> SUFFICES ASSUME NEW i \in 1 .. LastWaiting
                 PROVE  IF i % 2 = 1 THEN Waiting(i)'.kind = "cmd"
                        ELSE Waiting(i)'.kind = "res" /\ Waiting(i)'.of = Waiting(i - 1)'.of
      BY <2>2 DEF InPairs
    <3>1. i % 2 # 1 => i - 1 \in 1 .. LastWaiting
      BY <2>2
    <3> QED BY <2>4, <3>1 DEF Pairs, InPairs
  <2>6. LastWaiting \in 1 .. LastWaiting
    BY <1>1, <2>2, <2>3
  <2>7. Half'
    BY <1>3, <2>2, <2>4, <2>6 DEF Pairs, Half
  <2> QED BY <1>2, <2>1, <2>5, <2>7 DEF Pairs, Polled
<1>5. CASE apc # "first"
  <2>1. apc = "second" /\ apc' = "poll" /\ rsocket' = backlog[1] /\ newsock' = newsock
    BY <1>1, <1>5 DEF Accept!Accept
  <2>n. PICK n : n = LastWaiting'
    OBVIOUS
  <2>2. Held = 1 /\ Held' = 0 /\ n \in Nat /\ LastWaiting = n + 2
    BY <1>1, <2>n, <2>1 DEF Held, LastWaiting
  <2>3. /\ \A i \in 1 .. n : Waiting(i)' = Waiting(i + 2)
        /\ Waiting(1) = newsock /\ Waiting(2) = backlog[1]
    BY <1>1, <2>n, <2>1, <2>2 DEF Waiting, LastWaiting
  <2>4. InPairs /\ Half
    BY DEF Pairs
  <2>5. Polled'
    <3>1. 1 \in 1 .. LastWaiting /\ 2 \in 1 .. LastWaiting
      BY <2>2
    <3>2. 1 % 2 = 1 /\ 2 % 2 # 1 /\ 2 - 1 = 1
      OBVIOUS
    <3> QED BY <2>1, <2>3, <2>4, <3>1, <3>2 DEF InPairs, Polled
  <2>6. InPairs'
    <3> SUFFICES ASSUME NEW i \in 1 .. n
                 PROVE  IF i % 2 = 1 THEN Waiting(i)'.kind = "cmd"
                        ELSE Waiting(i)'.kind = "res" /\ Waiting(i)'.of = Waiting(i - 1)'.of
      BY <2>n DEF InPairs
    <3>1. i + 2 \in 1 .. LastWaiting /\ (i + 2) % 2 = i % 2 /\ (i + 2) - 1 = (i - 1) + 2
      BY <2>2, Parity
    <3>2. i % 2 # 1 => i - 1 \in 1 .. n
      BY <2>2
    <3> QED BY <2>3, <2>4, <3>1, <3>2 DEF InPairs
  <2>7. Half'
    <3>1. (n + 2) % 2 = n % 2 /\ (n % 2 = 1 => n \in 1 .. n)
      BY <2>2, Parity
    <3>2. \A q \in Proxies : proxy[q] = "cmd" <=> (n % 2 = 1 /\ Waiting(n + 2).of = q)
      BY <2>2, <2>4, <3>1 DEF Half
    <3>3. n % 2 = 1 => Waiting(n)' = Waiting(n + 2)
      BY <2>3, <3>1
    <3> QED BY <1>3, <2>n, <3>2, <3>3 DEF Half
  <2> QED BY <1>2, <2>5, <2>6, <2>7 DEF Pairs
<1> QED BY <1>4, <1>5

\* Nothing else changes who waits, and a forked process gets a pair.
LEMMA OthersPair ==
  ASSUME AcceptTyped, Pairs, Accept!Next, ~mixed',
         ~Accept!Accept, \A p \in Proxies : ~Accept!Connect(p)
  PROVE  Pairs'
<1>1. ASSUME UNCHANGED backlog, Held' = Held, Held = 1 => newsock' = newsock,
             \A p \in Proxies : proxy'[p] = "cmd" <=> proxy[p] = "cmd"
      PROVE  InPairs' /\ Half'
  <2>1. PICK n : n = LastWaiting
    OBVIOUS
  <2>2. Len(backlog) \in Nat
    BY LenProperties DEF AcceptTyped, Accept!TypeOK
  <2>3. LastWaiting' = n /\ n \in Nat
    BY <1>1, <2>1, <2>2 DEF LastWaiting, Held
  <2>4. \A i \in 1 .. n : Waiting(i)' = Waiting(i)
    BY <1>1 DEF Waiting, Held
  <2>5. n % 2 = 1 => n \in 1 .. n
    BY <2>3
  <2>6. Half'
    <3>1. n % 2 = 1 => Waiting(n)' = Waiting(n)
      BY <2>4, <2>5
    <3> QED BY <1>1, <2>1, <2>3, <3>1 DEF Pairs, Half
  <2>7. InPairs'
    <3> SUFFICES ASSUME NEW i \in 1 .. n
                 PROVE  IF i % 2 = 1 THEN Waiting(i)'.kind = "cmd"
                        ELSE Waiting(i)'.kind = "res" /\ Waiting(i)'.of = Waiting(i - 1)'.of
      BY <2>3 DEF InPairs
    <3>1. i % 2 # 1 => i - 1 \in 1 .. n
      BY <2>3
    <3> QED BY <2>1, <2>4, <3>1 DEF Pairs, InPairs
  <2> QED BY <2>6, <2>7
<1>2. /\ proxy \in [Proxies -> {"new", "cmd", "res", "sent", "closed", "gone"}]
      /\ render \in [Pids -> [id : Nat, cmd : Accept!Socket \cup {Accept!NoSocket},
                              res : Accept!Socket \cup {Accept!NoSocket},
                              state : {"free", "running", "zombie", "reaped"}]]
  BY DEF AcceptTyped, Accept!TypeOK
<1>3. ASSUME NEW p \in Proxies, Accept!SendId(p) \/ Accept!Leave(p)
      PROVE  Pairs'
  <2>1. /\ UNCHANGED << backlog, apc, newsock, rsocket, render >>
        /\ proxy[p] # "cmd" /\ \E v \in {"sent", "gone", "closed"} : proxy' = [proxy EXCEPT ![p] = v]
    <3>1. CASE Accept!SendId(p)
      BY <3>1 DEF Accept!SendId, Accept!list
    <3>2. CASE Accept!Leave(p)
      <4>1. proxy[p] # "cmd"
        BY <3>2 DEF Accept!Leave
      <4> QED BY <3>2, <4>1 DEF Accept!Leave, Accept!list
    <3> QED BY <1>3, <3>1, <3>2
  <2>2. \A q \in Proxies : proxy'[q] = "cmd" <=> proxy[q] = "cmd"
    BY <1>2, <2>1
  <2> QED BY <1>1, <2>1, <2>2 DEF Held, Pairs, Polled, Joined
<1>4. ASSUME UNCHANGED << backlog, proxy >>, apc' \in {apc, "first"}, apc' # apc => apc = "poll",
             apc' = apc => UNCHANGED << newsock, rsocket >>
      PROVE  InPairs' /\ Half' /\ Polled'
  <2>1. Held' = Held /\ (Held = 1 => newsock' = newsock)
    BY <1>4 DEF Held
  <2>2. InPairs' /\ Half'
    BY <1>1, <1>4, <2>1
  <2> QED BY <1>4, <2>2 DEF Pairs, Polled
<1>5. CASE Accept!ReadId
  <2>1. apc = "poll" /\ apc' = "first" /\ UNCHANGED << backlog, proxy >>
    BY <1>5 DEF Accept!ReadId, Accept!Refuse, Accept!ForkFails, Accept!Fork
  <2>2. newsock.of = rsocket.of /\ rsocket.kind = "res"
    BY <2>1 DEF Pairs, Polled
  <2>3. Joined'
    <3>1. CASE UNCHANGED render
      BY <3>1 DEF Pairs, Joined
    <3>2. CASE \E x \in Pids : Accept!Fork(x)
      <4>1. PICK x \in Pids :
              render' = [render EXCEPT ![x] = [id |-> Accept!SurfaceId, cmd |-> newsock,
                                               res |-> rsocket, state |-> "running"]]
        BY <3>2 DEF Accept!Fork
      <4>2. render'[x].cmd = newsock /\ render'[x].res = rsocket
        BY <1>2, <4>1
      <4>3. \A y \in Pids : y # x => render'[y] = render[y]
        BY <1>2, <4>1
      <4> QED BY <2>2, <4>2, <4>3 DEF Pairs, Joined
    <3> QED BY <1>5, <3>1, <3>2 DEF Accept!ReadId, Accept!ForkFails
  <2> QED BY <1>4, <2>1, <2>3 DEF Pairs
<1>6. ASSUME \A x \in Pids : /\ render'[x].state # "free" => render[x].state # "free"
                             /\ render'[x].cmd = render[x].cmd /\ render'[x].res = render[x].res
      PROVE  Joined'
  BY <1>6 DEF Pairs, Joined
<1>7. CASE Accept!wait_for_child
  <2>1. \A x \in Pids : render'[x] = IF render[x].state = "zombie"
                                     THEN [render[x] EXCEPT !.state = "reaped"] ELSE render[x]
    BY <1>7 DEF Accept!wait_for_child, Accept!Reaped
  <2>2. \A x \in Pids : /\ render'[x].state # "free" => render[x].state # "free"
                        /\ render'[x].cmd = render[x].cmd /\ render'[x].res = render[x].res
    BY <1>2, <2>1
  <2>3. /\ UNCHANGED << backlog, proxy >> /\ apc' \in {apc, "first"} /\ (apc' # apc => apc = "poll")
        /\ apc' = apc => UNCHANGED << newsock, rsocket >>
    BY <1>7 DEF Accept!wait_for_child, Accept!Refuse
  <2> QED BY <1>4, <1>6, <2>2, <2>3 DEF Pairs
<1>8. ASSUME NEW x \in Pids, Accept!RenderEnds(x)
      PROVE  Pairs'
  <2>1. \A y \in Pids : /\ render'[y].state # "free" => render[y].state # "free"
                        /\ render'[y].cmd = render[y].cmd /\ render'[y].res = render[y].res
    BY <1>2, <1>8 DEF Accept!RenderEnds
  <2>2. UNCHANGED << backlog, proxy, apc, newsock, rsocket >>
    BY <1>8 DEF Accept!RenderEnds
  <2> QED BY <1>4, <1>6, <2>1, <2>2 DEF Pairs
<1> QED BY <1>3, <1>5, <1>7, <1>8 DEF Accept!Next

\* So every step keeps the pairs.
LEMMA PairStep ==
  ASSUME PairInv, Covered, [Accept!Next]_(Accept!vars)
  PROVE  PairInv'
<1>1. AcceptTyped'
  BY AcceptStep DEF PairInv
<1>2. CASE UNCHANGED Accept!vars
  <2>1. UNCHANGED mixed /\ (Pairs => Pairs')
    BY <1>2 DEF Accept!vars, Accept!list, Pairs, InPairs, Half, Polled, Joined, Waiting, LastWaiting, Held
  <2> QED BY <1>1, <2>1 DEF PairInv
<1>3. CASE Accept!Next
  <2>1. mixed => mixed'
    BY <1>3 DEF Accept!Next, Accept!Connect, Accept!SendId, Accept!Leave, Accept!Accept,
                Accept!ReadId, Accept!wait_for_child, Accept!RenderEnds
  <2>2. ~mixed' => Pairs'
    BY <1>3, <2>1, ConnectPairs, AcceptPairs, OthersPair DEF PairInv
  <2> QED BY <1>1, <2>2 DEF PairInv
<1> QED BY <1>2, <1>3

\* In the beginning no connection waits.
LEMMA PairInit == Accept!Init => PairInv
<1> SUFFICES ASSUME Accept!Init PROVE PairInv
  OBVIOUS
<1>1. backlog = << >> /\ Held = 0 /\ LastWaiting = 0
  BY EmptySeq DEF Accept!Init, Held, LastWaiting
<1>2. InPairs
  BY <1>1 DEF InPairs
<1>3. Half
  BY <1>1 DEF Half, Accept!Init
<1>4. Joined
  BY DEF Accept!Init, Joined, Accept!NoProcess
<1> QED BY <1>2, <1>3, <1>4, AcceptInit DEF PairInv, Pairs, Polled, Accept!Init

(***************************************************************************)
(* No two processes have one surface, and every process has both           *)
(* connections of one proxy, unless two proxies connected at the same      *)
(* time, or one ended between its connections: for any proxies, ids that   *)
(* come late, forks that fail and pids that come back.                     *)
(***************************************************************************)
THEOREM AdmittedCorrect == Accept!Spec => []Admitted
<1>1. PairInv /\ Covered /\ [Accept!Next]_(Accept!vars) => (PairInv /\ Covered)'
  BY PairStep, AcceptStep DEF PairInv
<1>2. Accept!Init => PairInv /\ Covered
  BY PairInit, AcceptInit
<1>3. PairInv => Accept!Paired
  BY DEF PairInv, Pairs, Joined, Accept!Paired
<1> QED BY <1>1, <1>2, <1>3, UniqueCorrect, PTL DEF Accept!Spec, Admitted

(***************************************************************************)
(* Who is refused.  An entry of the list is that of a process with its id, *)
(* of a fork that failed, or has a pid that came back.                     *)
(***************************************************************************)
Listed ==
  \A i \in DOMAIN proxy_list :
    LET x == proxy_list[i].pid
    IN x \in Pids /\ x \notin reused =>
         render[x].state # "free" /\ render[x].id = proxy_list[i].id

\* A process is forked with a pid that was free, or it is known to come back.
LEMMA ListedFork ==
  ASSUME AcceptTyped, Listed, ~Accept!HasId, apc = "poll",
         NEW x \in Pids, Accept!Fork(x)
  PROVE  Listed'
<1>1. /\ render[x].state \in {"free", "reaped"}
      /\ render' = [render EXCEPT ![x] = [id |-> Accept!SurfaceId, cmd |-> newsock,
                                          res |-> rsocket, state |-> "running"]]
      /\ proxy_list' = Append(Accept!Cleaned, [id |-> Accept!SurfaceId, pid |-> x])
      /\ reused' = IF render[x].state = "reaped" THEN reused \cup {x} ELSE reused
  BY DEF Accept!Fork
<1>2. \A i \in DOMAIN proxy_list' :
        \/ proxy_list'[i] = [id |-> Accept!SurfaceId, pid |-> x]
        \/ \E j \in DOMAIN proxy_list : proxy_list'[i] = proxy_list[j]
  BY <1>1, EntryAdded
<1>3. render \in [Pids -> [id : Nat, cmd : Accept!Socket \cup {Accept!NoSocket},
                           res : Accept!Socket \cup {Accept!NoSocket},
                           state : {"free", "running", "zombie", "reaped"}]]
  BY DEF AcceptTyped, Accept!TypeOK
<1>4. /\ render'[x].state = "running" /\ render'[x].id = Accept!SurfaceId
      /\ \A y \in Pids : y # x => render'[y] = render[y]
  BY <1>1, <1>3
<1> SUFFICES ASSUME NEW i \in DOMAIN proxy_list', proxy_list'[i].pid \in Pids,
                    proxy_list'[i].pid \notin reused'
             PROVE  /\ render'[proxy_list'[i].pid].state # "free"
                    /\ render'[proxy_list'[i].pid].id = proxy_list'[i].id
  BY DEF Listed
<1>5. CASE proxy_list'[i] = [id |-> Accept!SurfaceId, pid |-> x]
  BY <1>4, <1>5
<1>6. ASSUME NEW j \in DOMAIN proxy_list, proxy_list'[i] = proxy_list[j]
      PROVE  /\ render'[proxy_list'[i].pid].state # "free"
             /\ render'[proxy_list'[i].pid].id = proxy_list'[i].id
  <2>1. PICK y : y = proxy_list[j].pid
    OBVIOUS
  <2>2. y \in Pids /\ y \notin reused /\ y \notin reused'
    BY <1>1, <1>6, <2>1
  <2>3. render[y].state # "free" /\ render[y].id = proxy_list[j].id
    BY <2>1, <2>2 DEF Listed
  <2>4. y # x
    BY <1>1, <2>2, <2>3
  <2> QED BY <1>4, <1>6, <2>1, <2>2, <2>3, <2>4
<1> QED BY <1>2, <1>5, <1>6

\* Every step keeps the entries true.
LEMMA ListedStep ==
  ASSUME AcceptTyped, Listed, Accept!Next
  PROVE  Listed'
<1>1. render \in [Pids -> [id : Nat, cmd : Accept!Socket \cup {Accept!NoSocket},
                           res : Accept!Socket \cup {Accept!NoSocket},
                           state : {"free", "running", "zombie", "reaped"}]]
  BY DEF AcceptTyped, Accept!TypeOK
<1>2. ASSUME UNCHANGED << proxy_list, reused >>,
             \A x \in Pids : render[x].state # "free" =>
               render'[x].state # "free" /\ render'[x].id = render[x].id
      PROVE  Listed'
  BY <1>2 DEF Listed
<1>3. ASSUME UNCHANGED << proxy_list, render, reused >> PROVE Listed'
  BY <1>3 DEF Listed
<1>4. CASE Accept!ReadId
  <2>1. CASE Accept!NoId \/ Accept!HasId
    BY <1>3, <1>4, <2>1 DEF Accept!ReadId
  <2>2. CASE ~(Accept!NoId \/ Accept!HasId)
    <3>1. apc = "poll" /\ (Accept!ForkFails \/ \E x \in Pids : Accept!Fork(x))
      BY <1>4, <2>2 DEF Accept!ReadId
    <3>2. CASE Accept!ForkFails
      <4>1. /\ proxy_list' = Append(Accept!Cleaned, [id |-> Accept!SurfaceId, pid |-> NoPid])
            /\ UNCHANGED << render, reused >>
        BY <3>2 DEF Accept!ForkFails
      <4>2. \A i \in DOMAIN proxy_list' :
              \/ proxy_list'[i] = [id |-> Accept!SurfaceId, pid |-> NoPid]
              \/ \E j \in DOMAIN proxy_list : proxy_list'[i] = proxy_list[j]
        BY <2>2, <3>1, <4>1, EntryAdded
      <4>3. NoPid \notin Pids
        BY PartsAssumption DEF Accept!ConstantsAssumption
      <4> QED BY <4>1, <4>2, <4>3 DEF Listed
    <3> QED BY <2>2, <3>1, <3>2, ListedFork
  <2> QED BY <2>1, <2>2
<1>5. CASE Accept!wait_for_child
  <2>1. UNCHANGED << proxy_list, reused >> /\ render' = Accept!Reaped
    BY <1>5 DEF Accept!wait_for_child
  <2>2. \A x \in Pids : render[x].state # "free" =>
          render'[x].state # "free" /\ render'[x].id = render[x].id
    BY <1>1, <2>1 DEF Accept!Reaped
  <2> QED BY <1>2, <2>1, <2>2
<1>6. ASSUME NEW x \in Pids, Accept!RenderEnds(x) PROVE Listed'
  BY <1>1, <1>2, <1>6 DEF Accept!RenderEnds
<1> QED BY <1>3, <1>4, <1>5, <1>6
    DEF Accept!Next, Accept!list, Accept!Connect, Accept!SendId, Accept!Leave, Accept!Accept

\* The entry that is found for an id.
LEMMA FoundEntry ==
  ASSUME AcceptTyped, Accept!HasId
  PROVE  \E k \in DOMAIN proxy_list :
           /\ proxy_list[k] = [id |-> Accept!SurfaceId, pid |-> proxy_list[k].pid]
           /\ proxy_list[k].pid \in Pids \cup {NoPid} /\ Accept!Alive(proxy_list[k].pid)
<1>1. proxy_list \in Seq(Listing)
  BY DEF AcceptTyped, Accept!TypeOK, Listing
<1>2. DOMAIN proxy_list = 1 .. Len(proxy_list) /\ Len(proxy_list) \in Nat
  BY <1>1, LenProperties
<1>3. Accept!Entries # {} /\ Accept!Entries \subseteq Nat
  BY <1>2 DEF Accept!HasId, Accept!Entries
<1>4. \E i \in Accept!Entries : \A j \in Accept!Entries : i <= j
  BY <1>3, LeastNumber
<1>5. PICK k : k = Accept!First
  OBVIOUS
<1>6. k \in Accept!Entries
  BY <1>4, <1>5 DEF Accept!First
<1>7. k \in DOMAIN proxy_list /\ proxy_list[k].id = Accept!SurfaceId
  BY <1>6 DEF Accept!Entries
<1>8. proxy_list[k] \in Listing
  BY <1>1, <1>2, <1>7, ElementOfSeq
<1>9. Accept!Alive(proxy_list[k].pid)
  BY <1>5 DEF Accept!HasId
<1> QED BY <1>7, <1>8, <1>9 DEF Listing

\* Who is refused in a step.
LEMMA RefusedInStep ==
  ASSUME PairInv, Listed, Accept!Next
  PROVE  Accept!RefusedForItsId
<1>1. ASSUME UNCHANGED refused PROVE Accept!RefusedForItsId
  BY <1>1 DEF Accept!RefusedForItsId
<1>2. ASSUME mixed PROVE Accept!RefusedForItsId
  BY <1>2 DEF Accept!RefusedForItsId
<1>3. CASE Accept!ReadId /\ ~mixed
  <2>1. apc = "poll" /\ newsock.kind = "cmd" /\ newsock.of = rsocket.of
    BY <1>3 DEF Accept!ReadId, PairInv, Pairs, Polled
  <2>2. Accept!Refuse => \A p \in refused' \ refused : p = newsock.of
    BY <2>1 DEF Accept!Refuse
  <2>3. CASE Accept!HasId
    <3>1. PICK k \in DOMAIN proxy_list :
            /\ proxy_list[k] = [id |-> Accept!SurfaceId, pid |-> proxy_list[k].pid]
            /\ proxy_list[k].pid \in Pids \cup {NoPid} /\ Accept!Alive(proxy_list[k].pid)
      BY <2>3, FoundEntry DEF PairInv
    <3>2. UNCHANGED proxy_list
      BY <1>3, <2>3 DEF Accept!ReadId
    <3>3. CASE proxy_list[k].pid \in Pids
      BY <3>1, <3>3 DEF Listed, Accept!RefusedForItsId
    <3>4. CASE proxy_list[k].pid = NoPid
      BY <3>1, <3>2, <3>4 DEF Accept!RefusedForItsId
    <3> QED BY <3>1, <3>3, <3>4
  <2>4. CASE Accept!NoId /\ ~Accept!HasId
    <3>1. Accept!Refuse /\ proxy[newsock.of] = "closed"
      BY <1>3, <2>1, <2>4 DEF Accept!ReadId, Accept!NoId
    <3> QED BY <2>2, <3>1 DEF Accept!RefusedForItsId
  <2>5. CASE ~Accept!NoId /\ ~Accept!HasId
    <3>1. CASE Accept!ForkFails
      <4>1. proxy_list' = Append(Accept!Cleaned, [id |-> Accept!SurfaceId, pid |-> NoPid])
        BY <3>1 DEF Accept!ForkFails
      <4>2. \E i \in DOMAIN proxy_list' : proxy_list'[i] = [id |-> Accept!SurfaceId, pid |-> NoPid]
        BY <2>1, <2>5, <4>1, EntryAdded DEF PairInv
      <4> QED BY <4>2 DEF Accept!RefusedForItsId
    <3>2. CASE \E x \in Pids : Accept!Fork(x)
      BY <1>1, <3>2 DEF Accept!Fork
    <3> QED BY <1>3, <2>5, <3>1, <3>2 DEF Accept!ReadId
  <2> QED BY <2>3, <2>4, <2>5
<1>4. CASE Accept!wait_for_child
  <2>1. CASE apc = "poll" /\ ~Accept!Readable
    BY <1>4, <2>1 DEF Accept!wait_for_child, Accept!RefusedForItsId
  <2>2. CASE ~(apc = "poll" /\ ~Accept!Readable)
    BY <1>1, <1>4, <2>2 DEF Accept!wait_for_child
  <2> QED BY <2>1, <2>2
<1> QED BY <1>1, <1>2, <1>3, <1>4
    DEF Accept!Next, Accept!Connect, Accept!SendId, Accept!Leave, Accept!Accept, Accept!RenderEnds

(***************************************************************************)
(* A proxy is refused only when it has left itself, or when a process      *)
(* draws the surface with its id; and for the reasons that                 *)
(* RefusedForItsId names besides: a fork for the id has failed, a pid came *)
(* back, proxies connected at the same time, or a child ended while the    *)
(* acceptor waited for the id.                                             *)
(***************************************************************************)
THEOREM RefusedCorrect ==
  Accept!Spec => [][Accept!RefusedForItsId]_(Accept!vars)
<1>1. Accept!Init => PairInv /\ Covered /\ Listed
  <2> SUFFICES ASSUME Accept!Init PROVE PairInv /\ Covered /\ Listed
    OBVIOUS
  <2>1. DOMAIN proxy_list = {}
    BY EmptySeq DEF Accept!Init
  <2> QED BY <2>1, PairInit, AcceptInit DEF Listed
<1>2. PairInv /\ Covered /\ Listed /\ [Accept!Next]_(Accept!vars) => (PairInv /\ Covered /\ Listed)'
  <2> SUFFICES ASSUME PairInv, Covered, Listed, [Accept!Next]_(Accept!vars)
               PROVE  (PairInv /\ Covered /\ Listed)'
    OBVIOUS
  <2>1. PairInv' /\ Covered'
    BY PairStep, AcceptStep DEF PairInv
  <2>2. CASE Accept!Next
    BY <2>1, <2>2, ListedStep DEF PairInv
  <2>3. CASE UNCHANGED Accept!vars
    BY <2>1, <2>3 DEF Accept!vars, Accept!list, Listed
  <2> QED BY <2>2, <2>3
<1>3. PairInv /\ Listed /\ [Accept!Next]_(Accept!vars) => [Accept!RefusedForItsId]_(Accept!vars)
  BY RefusedInStep
<1> QED BY <1>1, <1>2, <1>3, PTL DEF Accept!Spec

(***************************************************************************)
(* The clients of the compositor.  The surfaces on its list and what a     *)
(* request does to them, in the order of the requests, say whose surface   *)
(* is there when a request is received.                                    *)
(***************************************************************************)
Words == {"ADD", "DRAW"}

\* What a client with a surface has sent, and one without.
Drawing(s) == \A i \in 1 .. Len(s) : s[i] = "DRAW"
Adding(s)  == s = <<>> \/ (s[1] = "ADD" /\ \A i \in 2 .. Len(s) : s[i] = "DRAW")

\* The request e finds the surfaces of A and leaves those of B.
Served(e, A, B) ==
  /\ e.type = "ADD" => (\A d \in A : ~Life!SameId(d, e.of)) /\ B = A \cup {e.of}
  /\ e.type = "DRAW" => e.of \in A /\ B = A
  /\ e.type = "REMOVE" => (\A d \in A : Life!SameId(d, e.of) => d = e.of) /\ B = A \ {e.of}
  /\ e.type = "STOP" => B = A

\* The requests q lead from A to B.
Leads(q, A, B) ==
  \E h \in [0 .. Len(q) -> SUBSET Clients] :
    /\ h[0] = A /\ h[Len(q)] = B
    /\ \A i \in 1 .. Len(q) : Served(q[i], h[i - 1], h[i])

\* A client sends one more word.
LEMMA WordSent ==
  ASSUME NEW s \in Seq(Words), NEW w \in Words
  PROVE  /\ Append(s, w) \in Seq(Words) /\ Append(s, w) # <<>>
         /\ Drawing(s) /\ w = "DRAW" => Drawing(Append(s, w))
         /\ Adding(s) /\ s # <<>> /\ w = "DRAW" => Adding(Append(s, w))
         /\ s = <<>> /\ w = "ADD" => Adding(Append(s, w))
<1> DEFINE u == Append(s, w)
<1>1. /\ u \in Seq(Words) /\ u # <<>> /\ Len(u) = Len(s) + 1
      /\ \A i \in 1 .. Len(s) : u[i] = s[i]
      /\ u[Len(s) + 1] = w
  BY AppendProperties
<1>2. Len(s) \in Nat /\ (s # <<>> => Len(s) # 0) /\ (s = <<>> => Len(s) = 0)
  BY EmptySeq, LenProperties
<1> HIDE DEF u
<1>3. Drawing(s) /\ w = "DRAW" => Drawing(u)
  BY <1>1, <1>2 DEF Drawing
<1>4. Adding(s) /\ s # <<>> /\ w = "DRAW" => Adding(u)
  BY <1>1, <1>2 DEF Adding
<1>5. s = <<>> /\ w = "ADD" => Adding(u)
  BY <1>1, <1>2 DEF Adding
<1> QED BY <1>1, <1>3, <1>4, <1>5 DEF u

\* Its request thread takes the first.
LEMMA WordTaken ==
  ASSUME NEW s \in Seq(Words), s # <<>>
  PROVE  /\ Head(s) \in Words /\ Tail(s) \in Seq(Words)
         /\ Drawing(s) => Head(s) = "DRAW" /\ Drawing(Tail(s))
         /\ Adding(s) => Head(s) = "ADD" /\ Drawing(Tail(s))
<1>1. /\ Head(s) \in Words /\ Tail(s) \in Seq(Words) /\ Len(Tail(s)) = Len(s) - 1
      /\ \A i \in 1 .. Len(Tail(s)) : Tail(s)[i] = s[i + 1]
  BY HeadTailProperties
<1>2. Len(s) \in Nat \ {0} /\ Head(s) = s[1]
  BY EmptySeq
<1>3. Drawing(s) => Head(s) = "DRAW" /\ Drawing(Tail(s))
  BY <1>1, <1>2 DEF Drawing
<1>4. Adding(s) => Head(s) = "ADD" /\ Drawing(Tail(s))
  BY <1>1, <1>2 DEF Adding, Drawing
<1> QED BY <1>1, <1>3, <1>4

\* A request is written.
LEMMA LeadsAppend ==
  ASSUME NEW q \in Seq(Life!Event), NEW e \in Life!Event,
         NEW A, NEW F, NEW B \in SUBSET Clients, Leads(q, A, F), Served(e, F, B)
  PROVE  Leads(Append(q, e), A, B)
<1>1. PICK u : u = Append(q, e)
  OBVIOUS
<1>2. /\ Len(u) = Len(q) + 1 /\ u[Len(q) + 1] = e
      /\ \A i \in 1 .. Len(q) : u[i] = q[i]
  BY <1>1, AppendProperties
<1>3. Len(q) \in Nat
  BY LenProperties
<1>4. PICK h \in [0 .. Len(q) -> SUBSET Clients] :
        /\ h[0] = A /\ h[Len(q)] = F
        /\ \A i \in 1 .. Len(q) : Served(q[i], h[i - 1], h[i])
  BY DEF Leads
<1> DEFINE g == [i \in 0 .. Len(u) |-> IF i = Len(u) THEN B ELSE h[i]]
<1>5. g \in [0 .. Len(u) -> SUBSET Clients]
  BY <1>2, <1>3
<1>6. \A i \in 0 .. Len(q) : g[i] = h[i]
  BY <1>2, <1>3
<1>7. g[Len(u)] = B
  BY <1>2, <1>3
<1> HIDE DEF g
<1>8. g[0] = A
  BY <1>3, <1>4, <1>6
<1>9. ASSUME NEW i \in 1 .. Len(u) PROVE Served(u[i], g[i - 1], g[i])
  <2>1. CASE i \in 1 .. Len(q)
    <3>1. u[i] = q[i] /\ g[i] = h[i] /\ g[i - 1] = h[i - 1]
      BY <1>2, <1>3, <1>6, <2>1
    <3> QED BY <1>4, <2>1, <3>1
  <2>2. CASE i = Len(u)
    <3>1. u[i] = e /\ g[i] = B /\ g[i - 1] = F
      BY <1>2, <1>3, <1>4, <1>6, <1>7, <2>2
    <3> QED BY <3>1
  <2> QED BY <1>2, <1>3, <2>1, <2>2
<1>10. Leads(u, A, B)
  BY <1>5, <1>7, <1>8, <1>9 DEF Leads
<1> QED BY <1>1, <1>10

\* A request is received.
LEMMA LeadsTail ==
  ASSUME NEW q \in Seq(Life!Event), q # <<>>, NEW A, NEW F, Leads(q, A, F)
  PROVE  \E B \in SUBSET Clients : Served(Head(q), A, B) /\ Leads(Tail(q), B, F)
<1>1. PICK u : u = Tail(q)
  OBVIOUS
<1>2. Len(q) \in Nat \ {0} /\ Head(q) = q[1]
  BY EmptySeq
<1>3. Len(u) = Len(q) - 1 /\ \A i \in 1 .. Len(u) : u[i] = q[i + 1]
  BY <1>1, HeadTailProperties
<1>4. PICK h \in [0 .. Len(q) -> SUBSET Clients] :
        /\ h[0] = A /\ h[Len(q)] = F
        /\ \A i \in 1 .. Len(q) : Served(q[i], h[i - 1], h[i])
  BY DEF Leads
<1>5. Served(Head(q), A, h[1]) /\ h[1] \in SUBSET Clients
  <2>1. 1 \in 1 .. Len(q) /\ 1 \in 0 .. Len(q) /\ 1 - 1 = 0
    BY <1>2
  <2> QED BY <1>2, <1>4, <2>1
<1> DEFINE g == [i \in 0 .. Len(u) |-> h[i + 1]]
<1>6. g \in [0 .. Len(u) -> SUBSET Clients]
  BY <1>2, <1>3
<1>7. \A i \in 0 .. Len(u) : g[i] = h[i + 1]
  OBVIOUS
<1> HIDE DEF g
<1>8. g[0] = h[1] /\ g[Len(u)] = F
  BY <1>2, <1>3, <1>4, <1>7
<1>9. ASSUME NEW i \in 1 .. Len(u) PROVE Served(u[i], g[i - 1], g[i])
  <2>1. u[i] = q[i + 1] /\ g[i] = h[i + 1] /\ g[i - 1] = h[i]
    BY <1>2, <1>3, <1>7
  <2>2. i + 1 \in 1 .. Len(q) /\ (i + 1) - 1 = i
    BY <1>2, <1>3
  <2>3. Served(q[i + 1], h[(i + 1) - 1], h[i + 1])
    BY <1>4, <2>2
  <2> QED BY <2>1, <2>2, <2>3
<1>10. Leads(u, h[1], F)
  BY <1>6, <1>8, <1>9 DEF Leads
<1> QED BY <1>1, <1>5, <1>10

\* Nothing but an ADD brings a surface.
LEMMA LeadsAdd ==
  ASSUME NEW q \in Seq(Life!Event), NEW A, NEW F, Leads(q, A, F), NEW c \in F, c \notin A
  PROVE  \E i \in 1 .. Len(q) : q[i].type = "ADD" /\ q[i].of = c
<1>1. Len(q) \in Nat
  BY LenProperties
<1>2. PICK h \in [0 .. Len(q) -> SUBSET Clients] :
        /\ h[0] = A /\ h[Len(q)] = F
        /\ \A i \in 1 .. Len(q) : Served(q[i], h[i - 1], h[i])
  BY DEF Leads
<1> DEFINE M == {i \in 0 .. Len(q) : c \in h[i]}
<1>3. M \subseteq Nat /\ Len(q) \in M
  BY <1>1, <1>2
<1>4. PICK m \in M : \A j \in M : m <= j
  <2> HIDE DEF M
  <2> QED BY <1>3, LeastNumber
<1>5. m \in 0 .. Len(q) /\ c \in h[m] /\ m # 0
  BY <1>2, <1>4
<1>6. m \in 1 .. Len(q) /\ c \notin h[m - 1]
  <2>1. m \in 1 .. Len(q) /\ m - 1 \in 0 .. Len(q) /\ ~(m <= m - 1)
    BY <1>1, <1>5
  <2> QED BY <1>4, <2>1
<1>7. Served(q[m], h[m - 1], h[m]) /\ q[m] \in Life!Event
  BY <1>2, <1>6, ElementOfSeq
<1>8. q[m].type \in {"ADD", "DRAW", "REMOVE", "STOP"}
  BY <1>7 DEF Life!Event
<1>9. q[m].type = "ADD" /\ q[m].of = c
  BY <1>5, <1>6, <1>7, <1>8 DEF Served
<1> QED BY <1>6, <1>9

Phases  == {"new", "conn", "asked", "ready", "running", "leaving", "ended"}
Threads == {"none", "failed", "run", "tell", "close", "done"}
Shown(S) == [of : Clients, updated : S, sync : S]

LifeTyped ==
  /\ client \in [Clients -> Phases] /\ thread \in [Clients -> Threads]
  /\ ccontrol \in [Clients -> Seq(Words)] /\ crequests \in Seq(Life!Event)
  /\ \E S : list \in Seq(Shown(S))

\* Of the clients with one surface id one is at work, and one that has ended has
\* waited for its request thread.
Apart ==
  \A c, d \in Clients : c # d /\ Life!SameId(c, d) =>
    /\ client[c] \in {"new", "ended"} \/ client[d] \in {"new", "ended"}
    /\ thread[c] = "run" => client[c] # "ended"

\* F are the clients that will have a surface when the requests are served.
Fit(c, F) ==
  /\ client[c] \in {"new", "conn"} => thread[c] = "none"
  /\ client[c] \in {"new", "conn", "asked", "ready"} => ccontrol[c] = <<>> /\ c \notin F
  /\ c \in F => thread[c] = "run" /\ Drawing(ccontrol[c])
  /\ thread[c] = "run" /\ c \notin F =>
       Adding(ccontrol[c]) /\ (client[c] = "running" => ccontrol[c] # <<>>)
Fits(F) == \A c \in Clients : Fit(c, F)

Owners  == {list[i].of : i \in DOMAIN list}
OneEach == \A i, j \in DOMAIN list : Life!SameId(list[i].of, list[j].of) => i = j

Promised == \E F \in SUBSET Clients : Leads(crequests, Owners, F) /\ Fits(F)

LifeCore == LifeTyped /\ Apart /\ OneEach /\ Promised
LifeInv  == (Life!Up => LifeCore) /\ Life!StaysForClients

\* A client that crashes has its surface id alone.
IdsKept == Crashes => \A c, d \in Clients : Life!SameId(c, d) => c = d

\* A step of the client c, or of its request thread.
LEMMA OneMoves ==
  ASSUME IdsKept, Apart, NEW c \in Clients, NEW F, NEW B, Fits(F),
         \A d \in Clients \ {c} : /\ client'[d] = client[d] /\ thread'[d] = thread[d]
                                  /\ ccontrol'[d] = ccontrol[d] /\ (d \in B <=> d \in F),
         Fit(c, B)',
         \/ client'[c] \in {"new", "ended"} \/ client[c] \notin {"new", "ended"}
         \/ \A d \in Clients \ {c} : Life!SameId(c, d) => client[d] \in {"new", "ended"},
         thread'[c] = "run" /\ client'[c] = "ended" => Crashes \/ (thread[c] = "run" /\ client[c] = "ended")
  PROVE  Fits(B)' /\ Apart'
<1>1. ASSUME NEW d \in Clients \ {c} PROVE Fit(d, B)'
  <2>1. Fit(d, F) /\ (d \in B <=> d \in F)
    BY DEF Fits
  <2>2. client'[d] = client[d] /\ thread'[d] = thread[d] /\ ccontrol'[d] = ccontrol[d]
    OBVIOUS
  <2> QED BY <2>1, <2>2 DEF Fit
<1>2. Fits(B)'
  BY <1>1 DEF Fits
<1>3. ASSUME NEW x \in Clients, NEW y \in Clients, x # y, Life!SameId(x, y)
      PROVE  client'[x] \in {"new", "ended"} \/ client'[y] \in {"new", "ended"}
  <2>1. Life!SameId(y, x)
    BY <1>3 DEF Life!SameId
  <2> QED BY <1>3, <2>1 DEF Apart
<1>4. ASSUME NEW x \in Clients, NEW y \in Clients, x # y, Life!SameId(x, y), thread'[x] = "run"
      PROVE  client'[x] # "ended"
  <2>1. ~Crashes
    BY <1>4 DEF IdsKept
  <2>2. thread[x] = "run" => client[x] # "ended"
    BY <1>4 DEF Apart
  <2>3. x = c \/ x \in Clients \ {c}
    OBVIOUS
  <2> QED BY <1>4, <2>1, <2>2, <2>3
<1>5. Apart'
  BY <1>3, <1>4 DEF Apart, Life!SameId
<1> QED BY <1>2, <1>5

\* One that writes no request.
LEMMA Silent ==
  ASSUME IdsKept, LifeCore, NEW c \in Clients, UNCHANGED << crequests, list >>, LifeTyped',
         \A d \in Clients \ {c} : /\ client'[d] = client[d] /\ thread'[d] = thread[d]
                                  /\ ccontrol'[d] = ccontrol[d],
         \A F \in SUBSET Clients : Fit(c, F) => Fit(c, F)',
         \/ client'[c] \in {"new", "ended"} \/ client[c] \notin {"new", "ended"}
         \/ \A d \in Clients \ {c} : Life!SameId(c, d) => client[d] \in {"new", "ended"},
         thread'[c] = "run" /\ client'[c] = "ended" => Crashes \/ (thread[c] = "run" /\ client[c] = "ended")
  PROVE  LifeCore'
<1>1. PICK F \in SUBSET Clients : Leads(crequests, Owners, F) /\ Fits(F)
  BY DEF LifeCore, Promised
<1>2. Apart /\ OneEach
  BY DEF LifeCore
<1>3. Fit(c, F)'
  BY <1>1 DEF Fits
<1>4. Fits(F)' /\ Apart'
  BY <1>1, <1>2, <1>3, OneMoves
<1>5. Owners' = Owners /\ OneEach'
  BY <1>2 DEF Owners, OneEach
<1>6. Leads(crequests, Owners, F)'
  <2>1. PICK q, A : q = crequests /\ A = Owners
    OBVIOUS
  <2>2. crequests' = q /\ Owners' = A /\ Leads(q, A, F)
    BY <1>1, <1>5, <2>1
  <2> QED BY <2>2
<1>7. Promised'
  BY <1>4, <1>6 DEF Promised
<1> QED BY <1>4, <1>5, <1>7 DEF LifeCore

\* One that writes the request e.
LEMMA Writes ==
  ASSUME IdsKept, LifeCore, NEW c \in Clients, NEW e \in Life!Event,
         crequests' = Append(crequests, e), UNCHANGED list, LifeTyped',
         \A d \in Clients \ {c} : /\ client'[d] = client[d] /\ thread'[d] = thread[d]
                                  /\ ccontrol'[d] = ccontrol[d],
         client'[c] = client[c], thread'[c] = "run" => thread[c] = "run",
         NEW F \in SUBSET Clients, NEW B \in SUBSET Clients,
         Leads(crequests, Owners, F), Fits(F), Served(e, F, B),
         \A d \in Clients \ {c} : d \in B <=> d \in F,
         Fit(c, B)'
  PROVE  LifeCore'
<1>1. Apart /\ OneEach /\ LifeTyped
  BY DEF LifeCore
<1>2. Fits(B)' /\ Apart'
  BY <1>1, OneMoves
<1>3. Owners' = Owners /\ OneEach'
  BY <1>1 DEF Owners, OneEach
<1>4. Leads(crequests, Owners, B)'
  <2>1. PICK q, A : q = crequests /\ A = Owners
    OBVIOUS
  <2>2. q \in Seq(Life!Event)
    BY <1>1, <2>1 DEF LifeTyped
  <2>3. Leads(Append(q, e), A, B)
    BY <2>1, <2>2, LeadsAppend
  <2>4. crequests' = Append(q, e) /\ Owners' = A
    BY <1>3, <2>1
  <2> QED BY <2>3, <2>4
<1>5. Promised'
  BY <1>2, <1>4 DEF Promised
<1> QED BY <1>2, <1>3, <1>5 DEF LifeCore

\* The steps of a client.
LEMMA ClientSteps ==
  ASSUME IdsKept, LifeCore, Life!Up, NEW c \in Clients, Life!Client(c)
  PROVE  LifeCore'
<1>1. /\ client \in [Clients -> Phases] /\ thread \in [Clients -> Threads]
      /\ ccontrol \in [Clients -> Seq(Words)] /\ crequests \in Seq(Life!Event)
      /\ \E S : list \in Seq(Shown(S))
  BY DEF LifeCore, LifeTyped
<1>2. UNCHANGED << crequests, list, thread >>
  BY DEF Life!Client, Life!Connect, Life!FailedToConnect, Life!Answer, Life!AddScanout,
         Life!Draw, Life!Leave, Life!Told, Life!Crash, Life!Alone, Life!acceptVars,
         Life!threadVars, Life!mainVars
<1>3. ASSUME NEW p \in Phases, client' = [client EXCEPT ![c] = p], UNCHANGED ccontrol,
             \A F \in SUBSET Clients : Fit(c, F) => Fit(c, F)',
             \/ p = "ended" \/ client[c] \notin {"new", "ended"}
             \/ \A d \in Clients \ {c} : Life!SameId(c, d) => client[d] \in {"new", "ended"},
             thread[c] = "run" /\ p = "ended" => Crashes
      PROVE  LifeCore'
  <2>1. LifeTyped'
    BY <1>1, <1>2, <1>3 DEF LifeTyped
  <2>2. \A d \in Clients \ {c} : /\ client'[d] = client[d] /\ thread'[d] = thread[d]
                                 /\ ccontrol'[d] = ccontrol[d]
    BY <1>1, <1>2, <1>3
  <2>3. client'[c] = p /\ thread'[c] = thread[c]
    BY <1>1, <1>2, <1>3
  <2> QED BY <1>2, <1>3, <2>1, <2>2, <2>3, Silent
<1>4. ASSUME NEW p \in Phases, client' = [client EXCEPT ![c] = p], UNCHANGED ccontrol
      PROVE  client'[c] = p /\ ccontrol'[c] = ccontrol[c] /\ thread'[c] = thread[c]
  BY <1>1, <1>2, <1>4
<1>5. CASE Life!Connect(c)
  <2>1. PICK p \in {"conn", "asked"} : client' = [client EXCEPT ![c] = p]
    BY <1>5 DEF Life!Connect
  <2>2. UNCHANGED ccontrol /\ client[c] \in {"new", "conn"}
    BY <1>5 DEF Life!Connect
  <2>3. client'[c] = p /\ ccontrol'[c] = ccontrol[c] /\ thread'[c] = thread[c]
    BY <1>4, <2>1, <2>2 DEF Phases
  <2>4. \A F \in SUBSET Clients : Fit(c, F) => Fit(c, F)'
    BY <2>1, <2>2, <2>3 DEF Fit
  <2>5. \/ client[c] \notin {"new", "ended"}
        \/ \A d \in Clients \ {c} : Life!SameId(c, d) => client[d] \in {"new", "ended"}
    BY <1>5 DEF Life!Connect
  <2> QED BY <1>3, <2>1, <2>2, <2>4, <2>5 DEF Phases
<1>6. CASE Life!FailedToConnect(c)
  <2>1. client' = [client EXCEPT ![c] = "ended"] /\ UNCHANGED ccontrol
    BY <1>6 DEF Life!FailedToConnect
  <2>2. client'[c] = "ended" /\ ccontrol'[c] = ccontrol[c] /\ thread'[c] = thread[c]
    BY <1>4, <2>1 DEF Phases
  <2>3. client[c] \in {"new", "conn"} \/ thread[c] = "none"
    BY <1>6 DEF Life!FailedToConnect
  <2>4. thread[c] = "none"
    <3>1. PICK F \in SUBSET Clients : Fit(c, F)
      BY DEF LifeCore, Promised, Fits
    <3> QED BY <2>3, <3>1 DEF Fit
  <2>5. \A F \in SUBSET Clients : Fit(c, F) => Fit(c, F)'
    BY <2>2, <2>4 DEF Fit
  <2> QED BY <1>3, <2>1, <2>4, <2>5 DEF Phases
<1>7. CASE Life!Answer(c)
  <2>1. PICK p \in {"ready", "ended"} : client' = [client EXCEPT ![c] = p]
    BY <1>7 DEF Life!Answer
  <2>2. UNCHANGED ccontrol /\ client[c] = "asked"
    BY <1>7 DEF Life!Answer
  <2>3. p = "ready"
    <3>1. Life!CreateResult(c) \in {0, 11} /\ ~(Life!CreateResult(c) < 0)
      BY DEF Life!CreateResult
    <3>2. client' = [client EXCEPT ![c] = "ready"]
      BY <1>7, <3>1 DEF Life!Answer
    <3> QED BY <1>1, <2>1, <3>2
  <2>4. client'[c] = p /\ ccontrol'[c] = ccontrol[c] /\ thread'[c] = thread[c]
    BY <1>4, <2>1, <2>2 DEF Phases
  <2>5. \A F \in SUBSET Clients : Fit(c, F) => Fit(c, F)'
    BY <2>2, <2>3, <2>4 DEF Fit
  <2> QED BY <1>3, <2>1, <2>2, <2>3, <2>5 DEF Phases
<1>8. CASE Life!Leave(c)
  <2>1. client' = [client EXCEPT ![c] = "leaving"] /\ UNCHANGED ccontrol /\ client[c] = "running"
    BY <1>8 DEF Life!Leave
  <2>2. client'[c] = "leaving" /\ ccontrol'[c] = ccontrol[c] /\ thread'[c] = thread[c]
    BY <1>4, <2>1 DEF Phases
  <2>3. \A F \in SUBSET Clients : Fit(c, F) => Fit(c, F)'
    BY <2>1, <2>2 DEF Fit
  <2> QED BY <1>3, <2>1, <2>3 DEF Phases
<1>9. CASE Life!Told(c) \/ Life!Crash(c)
  <2>1. client' = [client EXCEPT ![c] = "ended"] /\ UNCHANGED ccontrol
    BY <1>9 DEF Life!Told, Life!Crash
  <2>2. client[c] \in {"leaving", "ready", "running"} /\ (thread[c] = "run" => Crashes)
    BY <1>9 DEF Life!Told, Life!Crash
  <2>3. client'[c] = "ended" /\ ccontrol'[c] = ccontrol[c] /\ thread'[c] = thread[c]
    BY <1>4, <2>1 DEF Phases
  <2>4. \A F \in SUBSET Clients : Fit(c, F) => Fit(c, F)'
    BY <2>2, <2>3 DEF Fit
  <2> QED BY <1>3, <2>1, <2>2, <2>4 DEF Phases
<1>10. ASSUME NEW w \in Words, ccontrol' = [ccontrol EXCEPT ![c] = Append(@, w)],
              client[c] \in {"ready", "running"}, client'[c] = "running",
              client' \in [Clients -> Phases], \A d \in Clients \ {c} : client'[d] = client[d],
              w = IF client[c] = "ready" THEN "ADD" ELSE "DRAW"
       PROVE  LifeCore'
  <2>1. PICK s \in Seq(Words) : s = ccontrol[c]
    BY <1>1
  <2>2. /\ Append(s, w) \in Seq(Words) /\ Append(s, w) # <<>>
        /\ Drawing(s) /\ w = "DRAW" => Drawing(Append(s, w))
        /\ Adding(s) /\ s # <<>> /\ w = "DRAW" => Adding(Append(s, w))
        /\ s = <<>> /\ w = "ADD" => Adding(Append(s, w))
    BY WordSent
  <2>3. ccontrol'[c] = Append(s, w) /\ \A d \in Clients \ {c} : ccontrol'[d] = ccontrol[d]
    BY <1>1, <1>10, <2>1
  <2>4. ccontrol' \in [Clients -> Seq(Words)]
    BY <1>1, <1>10, <2>1, <2>2
  <2>5. LifeTyped'
    BY <1>1, <1>2, <1>10, <2>4 DEF LifeTyped
  <2>6. thread' = thread
    BY <1>2
  <2>7. \A F \in SUBSET Clients : Fit(c, F) => Fit(c, F)'
    <3>1. CASE client[c] = "ready"
      BY <1>10, <2>1, <2>2, <2>3, <2>6, <3>1 DEF Fit
    <3>2. CASE client[c] = "running"
      BY <1>10, <2>1, <2>2, <2>3, <2>6, <3>2 DEF Fit
    <3> QED BY <1>10, <3>1, <3>2
  <2> QED BY <1>2, <1>10, <2>3, <2>5, <2>6, <2>7, Silent
<1>11. CASE Life!AddScanout(c)
  <2>1. /\ client[c] = "ready" /\ client' = [client EXCEPT ![c] = "running"]
        /\ ccontrol' = [ccontrol EXCEPT ![c] = Append(@, "ADD")]
    BY <1>11 DEF Life!AddScanout
  <2>2. /\ client'[c] = "running" /\ client' \in [Clients -> Phases]
        /\ \A d \in Clients \ {c} : client'[d] = client[d]
    BY <1>1, <2>1 DEF Phases
  <2> QED BY <1>10, <2>1, <2>2 DEF Words
<1>12. CASE Life!Draw(c)
  <2>1. /\ client[c] = "running" /\ UNCHANGED client
        /\ ccontrol' = [ccontrol EXCEPT ![c] = Append(@, "DRAW")]
    BY <1>12 DEF Life!Draw
  <2> QED BY <1>1, <1>10, <2>1 DEF Words
<1>13. ~Life!Alone(c)
  BY DEF Life!Alone
<1> QED BY <1>5, <1>6, <1>7, <1>8, <1>9, <1>11, <1>12, <1>13 DEF Life!Client

\* Of the clients with one surface id one has a request thread at work.
LEMMA Sole ==
  ASSUME LifeCore, NEW F, Fits(F), NEW c \in Clients, thread[c] = "run",
         NEW d \in Clients, thread[d] = "run", Life!SameId(d, c)
  PROVE  d = c
<1> SUFFICES ASSUME d # c PROVE FALSE
  OBVIOUS
<1>1. Life!SameId(c, d)
  BY DEF Life!SameId
<1>2. client[c] # "ended" /\ client[d] # "ended"
  BY <1>1 DEF LifeCore, Apart
<1>3. client[c] # "new" /\ client[d] # "new"
  BY DEF Fits, Fit
<1> QED BY <1>1, <1>2, <1>3 DEF LifeCore, Apart

\* The steps of a request thread.
LEMMA ThreadSteps ==
  ASSUME IdsKept, LifeCore, NEW c \in Clients, Life!RequestThread(c)
  PROVE  LifeCore'
<1>1. /\ client \in [Clients -> Phases] /\ thread \in [Clients -> Threads]
      /\ ccontrol \in [Clients -> Seq(Words)] /\ crequests \in Seq(Life!Event)
      /\ \E S : list \in Seq(Shown(S))
  BY DEF LifeCore, LifeTyped
<1>2. UNCHANGED << client, list >>
  BY DEF Life!RequestThread, Life!Handle, Life!EndOfControl, Life!Tell, Life!CloseFds,
         Life!clientVars, Life!mainVars
<1>3. PICK F \in SUBSET Clients : Leads(crequests, Owners, F) /\ Fits(F)
  BY DEF LifeCore, Promised
<1>4. \A d \in Clients : d \in F => thread[d] = "run"
  BY <1>3 DEF Fits, Fit
<1>5. ASSUME NEW e \in Life!Event, crequests' = Append(crequests, e)
      PROVE  crequests' \in Seq(Life!Event)
  <2>1. PICK q \in Seq(Life!Event) : q = crequests
    BY <1>1
  <2> QED BY <1>5, <2>1, AppendProperties
<1>6. CASE Life!Handle(c)
  <2>1. PICK s \in Seq(Words) : s = ccontrol[c]
    BY <1>1
  <2>2. s # <<>> /\ thread[c] = "run" /\ UNCHANGED thread
    BY <1>6, <2>1 DEF Life!Handle, Life!threadVars
  <2>3. /\ Head(s) \in Words /\ Tail(s) \in Seq(Words)
        /\ Drawing(s) => Head(s) = "DRAW" /\ Drawing(Tail(s))
        /\ Adding(s) => Head(s) = "ADD" /\ Drawing(Tail(s))
    BY <2>2, WordTaken
  <2>4. PICK e : e = [type |-> Head(s), of |-> c]
    OBVIOUS
  <2>5. e \in Life!Event /\ e.type = Head(s) /\ e.of = c
    BY <2>3, <2>4 DEF Life!Event, Words
  <2>6. crequests' = Append(crequests, e) /\ ccontrol' = [ccontrol EXCEPT ![c] = Tail(s)]
    BY <1>6, <2>1, <2>4 DEF Life!Handle
  <2>7. /\ ccontrol'[c] = Tail(s) /\ ccontrol' \in [Clients -> Seq(Words)]
        /\ \A d \in Clients \ {c} : ccontrol'[d] = ccontrol[d]
    BY <1>1, <2>3, <2>6
  <2>8. LifeTyped'
    BY <1>1, <1>2, <1>5, <2>2, <2>5, <2>6, <2>7 DEF LifeTyped
  <2>9. Fit(c, F) /\ client[c] \notin {"new", "conn", "asked", "ready"}
    BY <1>3, <2>1, <2>2 DEF Fits, Fit
  <2>10. PICK B : B = F \cup {c}
    OBVIOUS
  <2>11. Served(e, F, B)
    <3>1. CASE c \in F
      BY <2>1, <2>3, <2>5, <2>9, <2>10, <3>1 DEF Fit, Served
    <3>2. CASE c \notin F
      <4>1. e.type = "ADD"
        BY <2>1, <2>2, <2>3, <2>5, <2>9, <3>2 DEF Fit
      <4>2. ASSUME NEW d \in F PROVE ~Life!SameId(d, c)
        <5>1. d \in Clients /\ thread[d] = "run"
          BY <1>4
        <5> QED BY <1>3, <2>2, <3>2, <5>1, Sole
      <4> QED BY <2>5, <2>10, <4>1, <4>2 DEF Served
    <3> QED BY <3>1, <3>2
  <2>12. Fit(c, B)'
    <3>1. Drawing(Tail(s))
      BY <2>1, <2>2, <2>3, <2>9 DEF Fit
    <3>2. client'[c] = client[c] /\ thread'[c] = "run"
      BY <1>2, <2>2
    <3> QED BY <2>7, <2>9, <2>10, <3>1, <3>2 DEF Fit
  <2>13. B \in SUBSET Clients /\ \A d \in Clients \ {c} : d \in B <=> d \in F
    BY <2>10
  <2> QED BY <1>2, <1>3, <2>2, <2>5, <2>6, <2>7, <2>8, <2>11, <2>12, <2>13, Writes
<1>7. CASE Life!EndOfControl(c)
  <2>1. /\ thread[c] = "run" /\ client[c] \notin {"asked", "ready", "running"}
        /\ thread' = [thread EXCEPT ![c] = "tell"] /\ UNCHANGED ccontrol
    BY <1>7 DEF Life!EndOfControl, Life!ControlOpen, Life!clientVars
  <2>2. PICK e : e = [type |-> "REMOVE", of |-> c]
    OBVIOUS
  <2>3. e \in Life!Event /\ e.type = "REMOVE" /\ e.of = c
    BY <2>2 DEF Life!Event
  <2>4. crequests' = Append(crequests, e)
    BY <1>7, <2>2 DEF Life!EndOfControl
  <2>5. /\ thread'[c] = "tell" /\ thread' \in [Clients -> Threads]
        /\ \A d \in Clients \ {c} : thread'[d] = thread[d]
    BY <1>1, <2>1 DEF Threads
  <2>6. LifeTyped'
    BY <1>1, <1>2, <1>5, <2>1, <2>3, <2>4, <2>5 DEF LifeTyped
  <2>7. PICK B : B = F \ {c}
    OBVIOUS
  <2>8. Served(e, F, B)
    <3>1. ASSUME NEW d \in F, Life!SameId(d, c) PROVE d = c
      <4>1. d \in Clients /\ thread[d] = "run"
        BY <1>4
      <4> QED BY <1>3, <2>1, <3>1, <4>1, Sole
    <3> QED BY <2>3, <2>7, <3>1 DEF Served
  <2>9. Fit(c, B)'
    <3>1. client[c] \notin {"new", "conn"}
      BY <1>3, <2>1 DEF Fits, Fit
    <3>2. client'[c] = client[c]
      BY <1>2
    <3> QED BY <2>1, <2>5, <2>7, <3>1, <3>2 DEF Fit
  <2>10. B \in SUBSET Clients /\ \A d \in Clients \ {c} : d \in B <=> d \in F
    BY <2>7
  <2> QED BY <1>2, <1>3, <2>1, <2>3, <2>4, <2>5, <2>6, <2>8, <2>9, <2>10, Writes
<1>8. CASE Life!Tell(c) \/ Life!CloseFds(c)
  <2>1. PICK t \in {"close", "done"} : thread' = [thread EXCEPT ![c] = t]
    BY <1>8 DEF Life!Tell, Life!CloseFds
  <2>2. /\ thread[c] \in {"tell", "close"} /\ UNCHANGED << ccontrol, crequests >>
    BY <1>8 DEF Life!Tell, Life!CloseFds, Life!clientVars
  <2>3. /\ thread'[c] = t /\ thread' \in [Clients -> Threads]
        /\ \A d \in Clients \ {c} : thread'[d] = thread[d]
    BY <1>1, <2>1 DEF Threads
  <2>4. LifeTyped'
    BY <1>1, <1>2, <2>2, <2>3 DEF LifeTyped
  <2>5. client' = client /\ ccontrol' = ccontrol
    BY <1>2, <2>2
  <2>6. \A G \in SUBSET Clients : Fit(c, G) => Fit(c, G)'
    BY <2>2, <2>3, <2>5 DEF Fit
  <2>7. client[c] \notin {"new"}
    BY <1>3, <2>2 DEF Fits, Fit
  <2>8. client'[c] = "ended" \/ client[c] \notin {"new", "ended"}
    BY <2>5, <2>7
  <2> QED BY <1>2, <2>2, <2>3, <2>4, <2>5, <2>6, <2>8, Silent
<1> QED BY <1>6, <1>7, <1>8 DEF Life!RequestThread

\* The steps of the registration thread.
LEMMA RegistrationSteps ==
  ASSUME IdsKept, LifeCore, Life!Registration
  PROVE  LifeCore'
<1>1. /\ client \in [Clients -> Phases] /\ thread \in [Clients -> Threads]
      /\ ccontrol \in [Clients -> Seq(Words)] /\ crequests \in Seq(Life!Event)
      /\ \E S : list \in Seq(Shown(S))
  BY DEF LifeCore, LifeTyped
<1>2. UNCHANGED << client, ccontrol, list >>
  BY DEF Life!Registration, Life!Accept, Life!Register, Life!StopCommand,
         Life!clientVars, Life!mainVars
<1>3. PICK F \in SUBSET Clients : Leads(crequests, Owners, F) /\ Fits(F)
  BY DEF LifeCore, Promised
<1>4. CASE Life!Accept
  <2>1. UNCHANGED << thread, crequests >>
    BY <1>4 DEF Life!Accept, Life!threadVars
  <2>2. PICK q, A : q = crequests /\ A = Owners
    OBVIOUS
  <2>3. crequests' = q /\ Owners' = A
    BY <1>2, <2>1, <2>2 DEF Owners
  <2>4. Promised'
    <3>1. Fits(F)'
      BY <1>2, <1>3, <2>1 DEF Fits, Fit
    <3> QED BY <1>3, <2>2, <2>3, <3>1 DEF Promised
  <2> QED BY <1>2, <2>1, <2>4 DEF LifeCore, LifeTyped, Apart, OneEach
<1>5. ASSUME NEW c \in Clients, Life!Register(c) PROVE LifeCore'
  <2>1. PICK t \in {"run", "failed"} : thread' = [thread EXCEPT ![c] = t]
    BY <1>5 DEF Life!Register
  <2>2. client[c] = "asked" /\ UNCHANGED crequests
    BY <1>5 DEF Life!Register, Life!Complete
  <2>3. /\ thread'[c] = t /\ thread' \in [Clients -> Threads]
        /\ \A d \in Clients \ {c} : thread'[d] = thread[d]
    BY <1>1, <2>1 DEF Threads
  <2>4. LifeTyped'
    BY <1>1, <1>2, <2>2, <2>3 DEF LifeTyped
  <2>5. \A G \in SUBSET Clients : Fit(c, G) => Fit(c, G)'
    BY <1>2, <2>2, <2>3 DEF Fit, Adding
  <2>6. client'[c] = "asked"
    BY <1>2, <2>2
  <2> QED BY <1>2, <2>2, <2>3, <2>4, <2>5, <2>6, Silent
<1>6. ASSUME NEW c \in Clients, Life!StopCommand(c) PROVE LifeCore'
  <2>1. UNCHANGED thread
    BY <1>6 DEF Life!StopCommand, Life!threadVars
  <2>2. PICK e : e = [type |-> "STOP", of |-> c]
    OBVIOUS
  <2>3. e \in Life!Event /\ e.type = "STOP"
    BY <2>2 DEF Life!Event
  <2>4. crequests' = Append(crequests, e)
    BY <1>6, <2>2 DEF Life!StopCommand
  <2>5. crequests' \in Seq(Life!Event)
    <3>1. PICK q \in Seq(Life!Event) : q = crequests
      BY <1>1
    <3> QED BY <2>3, <2>4, <3>1, AppendProperties
  <2>6. LifeTyped'
    BY <1>1, <1>2, <2>1, <2>5 DEF LifeTyped
  <2>7. Served(e, F, F)
    BY <2>3 DEF Served
  <2>8. Fit(c, F)'
    BY <1>2, <1>3, <2>1 DEF Fits, Fit
  <2> QED BY <1>2, <1>3, <2>1, <2>3, <2>4, <2>6, <2>7, <2>8, Writes
<1> QED BY <1>4, <1>5, <1>6 DEF Life!Registration

\* The surfaces stay, whatever becomes of their frames.
LEMMA SameSurfaces ==
  ASSUME LifeCore, UNCHANGED << client, thread, ccontrol, crequests >>,
         DOMAIN list' = DOMAIN list, \A i \in DOMAIN list : list'[i].of = list[i].of,
         \E S : list' \in Seq(Shown(S))
  PROVE  LifeCore'
<1>1. PICK F \in SUBSET Clients : Leads(crequests, Owners, F) /\ Fits(F)
  BY DEF LifeCore, Promised
<1>2. LifeTyped' /\ Apart' /\ Fits(F)'
  BY <1>1 DEF LifeCore, LifeTyped, Apart, Fits, Fit
<1>3. OneEach'
  BY DEF LifeCore, OneEach
<1>4. Owners' = Owners
  BY DEF Owners
<1>5. PICK q, A : q = crequests /\ A = Owners
  OBVIOUS
<1>6. crequests' = q /\ Owners' = A
  BY <1>4, <1>5
<1>7. Promised'
  BY <1>1, <1>2, <1>5, <1>6 DEF Promised
<1> QED BY <1>2, <1>3, <1>7 DEF LifeCore

\* Frames are acknowledged.
LEMMA AckStep ==
  ASSUME LifeCore, UNCHANGED << client, thread, ccontrol, crequests >>,
         NEW n, list' = Life!Acknowledged(n)
  PROVE  LifeCore'
<1>1. PICK S : list \in Seq(Shown(S))
  BY DEF LifeCore, LifeTyped
<1>2. PICK T : T = S \cup {Life!Min({x, n}) : x \in S}
  OBVIOUS
<1>3. PICK t : t = list
  OBVIOUS
<1>4. /\ Len(t) \in Nat /\ DOMAIN t = 1 .. Len(t)
      /\ \A i \in DOMAIN t : t[i] \in Shown(S)
  BY <1>1, <1>3, LenProperties, ElementOfSeq
<1>5. list' = [i \in 1 .. Len(t) |-> [t[i] EXCEPT !.updated = Life!Min({t[i].updated, n})]]
  BY <1>3, <1>4 DEF Life!Acknowledged
<1>6. ASSUME NEW i \in 1 .. Len(t)
      PROVE  list'[i] \in Shown(T) /\ list'[i].of = t[i].of
  <2>1. PICK r : r = t[i]
    OBVIOUS
  <2>2. r \in [of : Clients, updated : S, sync : S]
    BY <1>4, <2>1 DEF Shown
  <2>3. PICK v : v = Life!Min({r.updated, n})
    OBVIOUS
  <2>4. v \in T /\ r.sync \in T
    BY <1>2, <2>2, <2>3
  <2>5. list'[i] = [r EXCEPT !.updated = v]
    BY <1>5, <2>1, <2>3
  <2>6. [r EXCEPT !.updated = v] = [of |-> r.of, updated |-> v, sync |-> r.sync]
    BY <2>2
  <2>7. list'[i] = [of |-> r.of, updated |-> v, sync |-> r.sync] /\ r.of \in Clients
    BY <2>2, <2>5, <2>6
  <2> QED BY <2>1, <2>4, <2>7 DEF Shown
<1>7. list' \in [1 .. Len(t) -> Shown(T)]
  BY <1>5, <1>6
<1>8. list' \in Seq(Shown(T))
  BY <1>4, <1>7, SeqDef
<1>9. DOMAIN list' = DOMAIN list /\ \A i \in DOMAIN list : list'[i].of = list[i].of
  BY <1>3, <1>4, <1>5, <1>6
<1> QED BY <1>8, <1>9, SameSurfaces

\* A request is received.
LEMMA ReceiveStep ==
  ASSUME LifeCore, Life!Receive
  PROVE  LifeCore'
<1>1. /\ crequests # <<>> /\ crequests' = Tail(crequests)
      /\ UNCHANGED << client, thread, ccontrol >>
  BY DEF Life!Receive, Life!clientVars, Life!threadVars
<1>2. PICK F \in SUBSET Clients : Leads(crequests, Owners, F) /\ Fits(F)
  BY DEF LifeCore, Promised
<1>3. PICK q \in Seq(Life!Event) : q = crequests
  BY DEF LifeCore, LifeTyped
<1>4. PICK e : e = Head(q)
  OBVIOUS
<1>5. e \in Life!Event /\ Tail(q) \in Seq(Life!Event)
  BY <1>1, <1>3, <1>4, HeadTailProperties
<1>6. PICK c \in Clients : e.of = c
  BY <1>5 DEF Life!Event
<1>7. PICK A : A = Owners
  OBVIOUS
<1>8. PICK B \in SUBSET Clients : Served(e, A, B) /\ Leads(Tail(q), B, F)
  <2>1. q # <<>> /\ Leads(q, A, F)
    BY <1>1, <1>2, <1>3, <1>7
  <2> QED BY <1>4, <2>1, LeadsTail
<1>9. PICK S : list \in Seq(Shown(S))
  BY DEF LifeCore, LifeTyped
<1>10. PICK t : t = list
  OBVIOUS
<1>11. /\ t \in Seq(Shown(S)) /\ Len(t) \in Nat /\ DOMAIN t = 1 .. Len(t)
       /\ \A i \in DOMAIN t : t[i] \in Shown(S)
       /\ A = {t[i].of : i \in DOMAIN t}
       /\ \A i, j \in DOMAIN t : Life!SameId(t[i].of, t[j].of) => i = j
  BY <1>7, <1>9, <1>10, LenProperties, ElementOfSeq DEF Owners, LifeCore, OneEach
<1>12. ASSUME Owners' = B, OneEach', NEW T, list' \in Seq(Shown(T))
       PROVE  LifeCore'
  <2>1. LifeTyped' /\ Apart' /\ Fits(F)'
    BY <1>1, <1>2, <1>3, <1>5, <1>12 DEF LifeCore, LifeTyped, Apart, Fits, Fit
  <2>2. crequests' = Tail(q)
    BY <1>1, <1>3
  <2>3. Promised'
    BY <1>8, <1>12, <2>1, <2>2 DEF Promised
  <2> QED BY <1>12, <2>1, <2>3 DEF LifeCore
<1>13. CASE e.type = "ADD"
  <2>1. PICK f : f = fds[c][Life!Sync]
    OBVIOUS
  <2>2. PICK r : r = [of |-> c, updated |-> 0, sync |-> f]
    OBVIOUS
  <2>3. list' = Append(t, r)
    BY <1>3, <1>4, <1>6, <1>10, <1>13, <2>1, <2>2 DEF Life!Receive, Life!Listed
  <2>4. PICK T : T = S \cup {0, f}
    OBVIOUS
  <2>5. r \in Shown(T) /\ Shown(S) \subseteq Shown(T)
    BY <2>2, <2>4 DEF Shown
  <2>6. t \in Seq(Shown(T))
    <3>1. t \in [1 .. Len(t) -> Shown(T)]
      BY <1>11, <2>5, LenProperties
    <3> QED BY <1>11, <3>1, SeqDef
  <2>7. PICK u : u = Append(t, r)
    OBVIOUS
  <2>8. /\ u \in Seq(Shown(T)) /\ Len(u) = Len(t) + 1
        /\ \A i \in 1 .. Len(t) : u[i] = t[i]
        /\ u[Len(t) + 1] = r
    BY <2>5, <2>6, <2>7, AppendProperties
  <2>9. DOMAIN u = 1 .. Len(t) + 1
    BY <2>8, LenProperties
  <2>10. (\A d \in A : ~Life!SameId(d, c)) /\ B = A \cup {c}
    BY <1>6, <1>8, <1>13 DEF Served
  <2>11. r.of = c
    BY <2>2
  <2>12. {u[i].of : i \in DOMAIN u} = A \cup {c}
    <3>1. \A i \in DOMAIN u : u[i].of \in A \cup {c}
      BY <1>11, <2>8, <2>9, <2>11
    <3>2. \A d \in A : \E i \in DOMAIN u : u[i].of = d
      BY <1>11, <2>8, <2>9
    <3>3. Len(t) + 1 \in DOMAIN u /\ u[Len(t) + 1].of = c
      BY <1>11, <2>8, <2>9, <2>11
    <3> QED BY <3>1, <3>2, <3>3
  <2>13. ASSUME NEW i \in DOMAIN u, NEW j \in DOMAIN u, Life!SameId(u[i].of, u[j].of)
         PROVE  i = j
    <3>1. CASE i \in 1 .. Len(t) /\ j \in 1 .. Len(t)
      BY <1>11, <2>8, <2>13, <3>1
    <3>2. ASSUME NEW k \in 1 .. Len(t) PROVE ~Life!SameId(u[k].of, c) /\ ~Life!SameId(c, u[k].of)
      <4>1. u[k].of \in A
        BY <1>11, <2>8
      <4> QED BY <2>10, <4>1 DEF Life!SameId
    <3> QED BY <1>11, <2>8, <2>9, <2>11, <2>13, <3>1, <3>2
  <2>14. list' = u
    BY <2>3, <2>7
  <2>15. Owners' = B
    BY <2>10, <2>12, <2>14 DEF Owners
  <2>16. OneEach'
    BY <2>13, <2>14 DEF OneEach, Life!SameId
  <2> QED BY <1>12, <2>8, <2>14, <2>15, <2>16
<1>14. CASE e.type = "DRAW"
  <2>1. B = A
    BY <1>8, <1>14 DEF Served
  <2>2. PICK k : k = Life!Min(Life!Mine(c))
    OBVIOUS
  <2>3. list' = t \/ list' = [t EXCEPT ![k].updated = @ + 1]
    BY <1>3, <1>4, <1>6, <1>10, <1>14, <2>2 DEF Life!Receive, Life!Drawn
  <2>4. CASE list' = t \/ k \notin DOMAIN t
    <3>1. list' = t
      BY <1>11, <2>3, <2>4
    <3>2. Owners' = B
      BY <1>11, <2>1, <3>1 DEF Owners
    <3>3. OneEach'
      BY <1>11, <3>1 DEF OneEach, Life!SameId
    <3> QED BY <1>11, <1>12, <3>1, <3>2, <3>3
  <2>5. CASE list' # t /\ k \in DOMAIN t
    <3>1. PICK r : r = t[k]
      OBVIOUS
    <3>2. r \in [of : Clients, updated : S, sync : S]
      BY <1>11, <2>5, <3>1 DEF Shown
    <3>3. PICK v : v = r.updated + 1
      OBVIOUS
    <3>4. PICK x : x = [r EXCEPT !.updated = v]
      OBVIOUS
    <3>5. PICK T : T = S \cup {v}
      OBVIOUS
    <3>6. x \in Shown(T) /\ x.of = r.of
      <4>1. x = [of |-> r.of, updated |-> v, sync |-> r.sync]
        BY <3>2, <3>4
      <4>2. v \in T /\ r.sync \in T /\ r.of \in Clients
        BY <3>2, <3>5
      <4> QED BY <4>1, <4>2 DEF Shown
    <3>7. PICK u : u = [t EXCEPT ![k] = x]
      OBVIOUS
    <3>8. list' = u
      BY <2>3, <2>5, <3>1, <3>3, <3>4, <3>7
    <3>9. DOMAIN u = DOMAIN t /\ u[k] = x /\ \A i \in DOMAIN t \ {k} : u[i] = t[i]
      BY <2>5, <3>7
    <3>10. \A i \in DOMAIN t : u[i] \in Shown(T) /\ u[i].of = t[i].of
      <4>1. Shown(S) \subseteq Shown(T)
        BY <3>5 DEF Shown
      <4> QED BY <1>11, <3>1, <3>6, <3>9, <4>1
    <3>11. u \in Seq(Shown(T))
      <4>1. u \in [1 .. Len(t) -> Shown(T)]
        BY <1>11, <3>7, <3>10
      <4> QED BY <1>11, <4>1, SeqDef
    <3>12. {u[i].of : i \in DOMAIN u} = A
      BY <1>11, <3>9, <3>10
    <3>13. Owners' = B
      BY <2>1, <3>8, <3>12 DEF Owners
    <3>14. OneEach'
      BY <1>11, <3>8, <3>9, <3>10 DEF OneEach, Life!SameId
    <3> QED BY <1>12, <3>8, <3>11, <3>13, <3>14
  <2> QED BY <2>4, <2>5
<1>15. CASE e.type = "REMOVE"
  <2>1. (\A d \in A : Life!SameId(d, c) => d = c) /\ B = A \ {c}
    BY <1>6, <1>8, <1>15 DEF Served
  <2>2. PICK P : P = {i \in DOMAIN t : Life!SameId(t[i].of, c)}
    OBVIOUS
  <2>3. PICK u : u = Without(t, P)
    OBVIOUS
  <2>4. list' = u
    <3>1. list' = Life!Without(list, Life!Mine(e.of))
      BY <1>3, <1>4, <1>15 DEF Life!Receive, Life!Removed
    <3>2. Life!Mine(e.of) = P
      BY <1>6, <1>10, <2>2 DEF Life!Mine
    <3>3. Life!Without(t, P) = Without(t, P)
      BY SameWithout
    <3> QED BY <1>10, <2>3, <3>1, <3>2, <3>3
  <2>5. u \in Seq(Shown(S)) /\ Others(u, t, P)
    BY <1>11, <2>3, WithoutOthers
  <2>6. DOMAIN u = 1 .. Len(u) /\ Len(u) \in Nat
    BY <2>5, LenProperties
  <2>7. PICK f \in [1 .. Len(u) -> 1 .. Len(t)] :
          /\ \A i, j \in 1 .. Len(u) : i < j => f[i] < f[j]
          /\ \A i \in 1 .. Len(u) : f[i] \notin P /\ u[i] = t[f[i]]
          /\ \A j \in 1 .. Len(t) : j \notin P => \E i \in 1 .. Len(u) : f[i] = j
    BY <2>5 DEF Others
  <2>8. \A i \in DOMAIN t : i \in P <=> t[i].of = c
    <3>1. Life!SameId(c, c)
      BY DEF Life!SameId
    <3> QED BY <1>11, <2>1, <2>2, <3>1
  <2>9. {u[i].of : i \in DOMAIN u} = B
    <3>1. \A i \in DOMAIN u : u[i].of \in B
      BY <1>11, <2>1, <2>6, <2>7, <2>8
    <3>2. ASSUME NEW d \in B PROVE \E i \in DOMAIN u : u[i].of = d
      <4>1. PICK j \in DOMAIN t : t[j].of = d /\ j \notin P
        BY <1>11, <2>1, <2>8
      <4> QED BY <1>11, <2>6, <2>7, <4>1
    <3> QED BY <3>1, <3>2
  <2>10. ASSUME NEW i \in DOMAIN u, NEW j \in DOMAIN u, Life!SameId(u[i].of, u[j].of)
         PROVE  i = j
    <3>1. f[i] = f[j]
      BY <1>11, <2>6, <2>7, <2>10
    <3>2. i \in Nat /\ j \in Nat /\ f[i] \in Nat /\ f[j] \in Nat
      BY <1>11, <2>6, <2>7
    <3> QED BY <2>6, <2>7, <3>1, <3>2
  <2>11. Owners' = B
    BY <2>4, <2>9 DEF Owners
  <2>12. OneEach'
    BY <2>4, <2>10 DEF OneEach, Life!SameId
  <2> QED BY <1>12, <2>4, <2>5, <2>11, <2>12
<1>16. CASE e.type = "STOP"
  <2>1. B = A
    BY <1>8, <1>16 DEF Served
  <2>2. UNCHANGED list
    BY <1>3, <1>4, <1>16 DEF Life!Receive
  <2>3. Owners' = B /\ OneEach'
    BY <1>7, <2>1, <2>2 DEF Owners, OneEach, LifeCore
  <2> QED BY <1>9, <1>12, <2>2, <2>3
<1>17. e.type \in {"ADD", "DRAW", "REMOVE", "STOP"}
  BY <1>5 DEF Life!Event
<1> QED BY <1>13, <1>14, <1>15, <1>16, <1>17

LEMMA LifeInit ==
  ASSUME Life!Init
  PROVE  LifeInv
<1>1. /\ client = [c \in Clients |-> "new"] /\ thread = [c \in Clients |-> "none"]
      /\ ccontrol = [c \in Clients |-> <<>>] /\ crequests = <<>> /\ mpc = "poll" /\ list = <<>>
  BY DEF Life!Init
<1>2. Len(crequests) = 0 /\ DOMAIN list = {} /\ <<>> \in Seq(Words)
      /\ crequests \in Seq(Life!Event) /\ list \in Seq(Shown({}))
  BY <1>1, EmptySeq
<1>3. LifeTyped
  BY <1>1, <1>2 DEF LifeTyped, Phases, Threads
<1>4. Apart /\ OneEach
  BY <1>1, <1>2 DEF Apart, OneEach
<1>5. Fits({})
  BY <1>1 DEF Fits, Fit
<1>6. Leads(crequests, Owners, {})
  <2>1. Owners = {}
    BY <1>2 DEF Owners
  <2>2. [i \in 0 .. 0 |-> {}] \in [0 .. Len(crequests) -> SUBSET Clients]
    BY <1>2
  <2>3. [i \in 0 .. 0 |-> {}][0] = {} /\ \A i \in 1 .. Len(crequests) : FALSE
    BY <1>2
  <2>4. PICK h \in [0 .. Len(crequests) -> SUBSET Clients] : h = [i \in 0 .. 0 |-> {}]
    BY <2>2
  <2> QED BY <1>2, <2>1, <2>3, <2>4 DEF Leads
<1>7. Promised
  BY <1>5, <1>6 DEF Promised
<1> QED BY <1>1, <1>3, <1>4, <1>7 DEF LifeInv, LifeCore, Life!StaysForClients

LEMMA LifeStep ==
  ASSUME IdsKept, LifeInv, Life!Next
  PROVE  LifeInv'
<1>1. ASSUME Life!Up' PROVE Life!Up
  BY <1>1 DEF Life!Up, Life!Next, Life!MainLoop, Life!Receive, Life!Drained, Life!Compose,
     Life!Registration, Life!Accept, Life!Register, Life!StopCommand, Life!RequestThread,
     Life!Handle, Life!EndOfControl, Life!Tell, Life!CloseFds, Life!Client, Life!Connect,
     Life!FailedToConnect, Life!Answer, Life!AddScanout, Life!Draw, Life!Leave, Life!Told,
     Life!Crash, Life!Alone, Life!mainVars
<1>2. ASSUME Life!Up' PROVE LifeCore'
  <2>1. LifeCore /\ Life!Up
    BY <1>1, <1>2 DEF LifeInv
  <2>2. CASE Life!Receive
    BY <2>1, <2>2, ReceiveStep
  <2>3. CASE Life!Drained
    <3>1. UNCHANGED << client, thread, ccontrol, crequests >> /\ list' = Life!Acknowledged(1)
      BY <2>3 DEF Life!Drained, Life!clientVars, Life!threadVars
    <3> QED BY <2>1, <3>1, AckStep
  <2>4. CASE Life!Compose
    <3>1. UNCHANGED << client, thread, ccontrol, crequests >> /\ list' = Life!Acknowledged(0)
      BY <2>4 DEF Life!Compose, Life!clientVars, Life!threadVars
    <3> QED BY <2>1, <3>1, AckStep
  <2>5. CASE Life!Registration
    BY <2>1, <2>5, RegistrationSteps
  <2>6. ASSUME NEW c \in Clients, Life!RequestThread(c) PROVE LifeCore'
    BY <2>1, <2>6, ThreadSteps
  <2>7. ASSUME NEW c \in Clients, Life!Client(c) PROVE LifeCore'
    BY <2>1, <2>7, ClientSteps
  <2> QED BY <2>2, <2>3, <2>4, <2>5, <2>6, <2>7 DEF Life!Next, Life!MainLoop
<1>3. Life!StaysForClients'
  <2>1. mpc = "done" => list = <<>>
    BY DEF LifeInv, Life!StaysForClients
  <2>2. CASE Life!Receive \/ Life!Drained
    BY <2>2 DEF Life!Receive, Life!Drained, Life!StaysForClients
  <2>3. CASE Life!Compose
    <3>1. mpc' = "done" => list = <<>>
      BY <2>3 DEF Life!Compose, Life!Rendering
    <3>2. list' = Life!Acknowledged(0)
      BY <2>3 DEF Life!Compose
    <3>3. list = <<>> => list' = <<>>
      BY <3>2 DEF Life!Acknowledged
    <3> QED BY <3>1, <3>3 DEF Life!StaysForClients
  <2>4. CASE Life!Registration
    <3>1. UNCHANGED << mpc, list >>
      BY <2>4 DEF Life!Registration, Life!Accept, Life!Register, Life!StopCommand, Life!mainVars
    <3> QED BY <2>1, <3>1 DEF Life!StaysForClients
  <2>5. ASSUME NEW c \in Clients, Life!RequestThread(c) PROVE Life!StaysForClients'
    <3>1. UNCHANGED list /\ mpc' \in {mpc, "killed"}
      BY <2>5 DEF Life!RequestThread, Life!Handle, Life!EndOfControl, Life!Tell, Life!CloseFds,
                  Life!mainVars
    <3> QED BY <2>1, <3>1 DEF Life!StaysForClients
  <2>6. ASSUME NEW c \in Clients, Life!Client(c) PROVE Life!StaysForClients'
    <3>1. UNCHANGED << mpc, list >>
      BY <2>6 DEF Life!Client, Life!Connect, Life!FailedToConnect, Life!Answer,
           Life!AddScanout, Life!Draw, Life!Leave, Life!Told, Life!Crash, Life!Alone,
           Life!mainVars
    <3> QED BY <2>1, <3>1 DEF Life!StaysForClients
  <2> QED BY <2>2, <2>3, <2>4, <2>5, <2>6 DEF Life!Next, Life!MainLoop
<1> QED BY <1>2, <1>3 DEF LifeInv

\* What the invariant says of the list.
LEMMA LifeKept ==
  ASSUME LifeInv
  PROVE  SurfacesKept
<1>1. ASSUME NEW c \in Clients, Life!Up, client[c] = "running", thread[c] = "run",
             ~Life!Pending(c, "ADD")
      PROVE  \E e \in Life!Range(list) : e.of = c
  <2>1. LifeCore
    BY <1>1 DEF LifeInv
  <2>2. PICK F \in SUBSET Clients : Leads(crequests, Owners, F) /\ Fits(F)
    BY <2>1 DEF LifeCore, Promised
  <2>3. PICK s \in Seq(Words) : s = ccontrol[c]
    BY <2>1 DEF LifeCore, LifeTyped
  <2>4. c \in F
    <3> SUFFICES ASSUME c \notin F PROVE FALSE
      OBVIOUS
    <3>1. s # <<>> /\ Adding(s)
      BY <1>1, <2>2, <2>3 DEF Fits, Fit
    <3>2. s[1] = "ADD"
      BY <3>1 DEF Adding
    <3>3. 1 \in DOMAIN s
      BY <3>1, EmptySeq, LenProperties
    <3>4. "ADD" \in Life!Range(ccontrol[c])
      BY <2>3, <3>2, <3>3 DEF Life!Range
    <3> QED BY <1>1, <3>4 DEF Life!Pending
  <2>5. PICK q \in Seq(Life!Event) : q = crequests
    BY <2>1 DEF LifeCore, LifeTyped
  <2>6. PICK A : A = Owners
    OBVIOUS
  <2>7. c \in A
    <3> SUFFICES ASSUME c \notin A PROVE FALSE
      OBVIOUS
    <3>1. PICK i \in 1 .. Len(q) : q[i].type = "ADD" /\ q[i].of = c
      BY <2>2, <2>4, <2>5, <2>6, LeadsAdd
    <3>2. i \in DOMAIN q
      BY LenProperties
    <3>3. q[i] \in Life!Range(crequests)
      BY <2>5, <3>2 DEF Life!Range
    <3> QED BY <1>1, <3>1, <3>3 DEF Life!Pending
  <2> QED BY <2>6, <2>7 DEF Owners, Life!Range
<1>2. Life!OwnEntry
  BY <1>1 DEF Life!OwnEntry
<1>3. ASSUME mpc = "poll", crequests # <<>>, Head(crequests).type = "DRAW"
      PROVE  /\ Life!Mine(Head(crequests).of) # {}
             /\ list[Life!Min(Life!Mine(Head(crequests).of))].of = Head(crequests).of
  <2>1. LifeCore
    BY <1>3 DEF LifeInv, Life!Up
  <2>2. PICK F \in SUBSET Clients : Leads(crequests, Owners, F)
    BY <2>1 DEF LifeCore, Promised
  <2>3. PICK q \in Seq(Life!Event) : q = crequests
    BY <2>1 DEF LifeCore, LifeTyped
  <2>4. PICK A : A = Owners
    OBVIOUS
  <2>5. PICK B \in SUBSET Clients : Served(Head(q), A, B)
    <3>1. q # <<>> /\ Leads(q, A, F)
      BY <1>3, <2>2, <2>3, <2>4
    <3> QED BY <3>1, LeadsTail
  <2>6. PICK c : c = Head(q).of
    OBVIOUS
  <2>7. c \in A
    BY <1>3, <2>3, <2>5, <2>6 DEF Served
  <2>8. PICK k \in DOMAIN list : list[k].of = c
    BY <2>4, <2>7 DEF Owners
  <2>9. Life!Mine(c) = {k}
    BY <2>1, <2>8 DEF Life!Mine, LifeCore, OneEach, Life!SameId
  <2>10. Life!Min({k}) = k
    <3>1. k \in Nat
      <4>1. PICK S : list \in Seq(Shown(S))
        BY <2>1 DEF LifeCore, LifeTyped
      <4> QED BY <2>8, <4>1, LenProperties
    <3> QED BY <3>1 DEF Life!Min
  <2> QED BY <2>3, <2>6, <2>8, <2>9, <2>10
<1>4. Life!DrawLands
  BY <1>3 DEF Life!DrawLands
<1> QED BY <1>2, <1>4 DEF LifeInv, SurfacesKept

(***************************************************************************)
(* The surface of a running client is on the list, every DRAW finds the    *)
(* surface of its own client, and the compositor does not end while it     *)
(* shows one: for any number of clients, connections and frames, when      *)
(* clients do not crash or every surface id has one client.                *)
(***************************************************************************)
THEOREM SurfacesCorrect ==
  ASSUME Crashes => \A c, d \in Clients : SurfaceOf[c] = SurfaceOf[d] => c = d
  PROVE  Life!Spec => []SurfacesKept
<1>1. IdsKept
  BY DEF IdsKept, Life!SameId
<1>2. Life!Init => LifeInv
  BY LifeInit
<1>3. LifeInv /\ [Life!Next]_(Life!vars) => LifeInv'
  <2>1. ASSUME LifeInv, UNCHANGED Life!vars PROVE LifeInv'
    <3>1. UNCHANGED << client, thread, ccontrol, crequests, mpc, list >>
      BY <2>1 DEF Life!vars, Life!clientVars, Life!threadVars, Life!mainVars
    <3>2. LifeCore => LifeCore'
      <4> SUFFICES ASSUME LifeCore PROVE LifeCore'
        OBVIOUS
      <4>1. \E S : list' \in Seq(Shown(S))
        BY <3>1 DEF LifeCore, LifeTyped
      <4> QED BY <3>1, <4>1, SameSurfaces
    <3> QED BY <2>1, <3>1, <3>2 DEF LifeInv, Life!Up, Life!StaysForClients
  <2> QED BY <1>1, <2>1, LifeStep
<1>4. LifeInv => SurfacesKept
  BY LifeKept
<1> QED BY <1>2, <1>3, <1>4, PTL DEF Life!Spec
==============================================================================
