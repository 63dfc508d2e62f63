--------------------------- MODULE SelectionProofs ---------------------------
(***************************************************************************)
(* Induction over numbers, with what holds given as a set; functions that  *)
(* are defined by recursion; and what a selection from a sequence is.      *)
(***************************************************************************)
EXTENDS Selection, SequenceTheorems, WellFoundedInduction, TLAPS

\* A set of numbers that is not empty has a least one.
LEMMA Least == ASSUME NEW T \in SUBSET Nat, T # {} PROVE \E m \in T : \A n \in T : m <= n
  <1>1. PICK m \in T : \A n \in T : ~ (<<n, m>> \in OpToRel(<, Nat))
    BY NatLessThanWellFounded, WFMin
  <1>2. \A n \in T : ~ (n < m)
    BY <1>1 DEF OpToRel
  <1> QED BY <1>2

\* What holds of 0, and of n + 1 if of n, holds of all: the numbers it holds
\* of are given as a set.
LEMMA Induct ==
    ASSUME NEW N \in Nat, NEW G, 0 \in G, \A n \in 0 .. N - 1 : n \in G => n + 1 \in G
    PROVE  0 .. N \subseteq G
  <1> SUFFICES ASSUME ~(0 .. N \subseteq G) PROVE FALSE
    OBVIOUS
  <1> DEFINE T == (0 .. N) \ G
  <1>1. PICK m \in T : \A n \in T : m <= n
    <2>1. T \in SUBSET Nat /\ T # {}
      OBVIOUS
    <2> QED BY <2>1, Least
  <1>2. m \in 0 .. N /\ m # 0 /\ m \notin G
    BY <1>1
  <1>3. m - 1 \in 0 .. N - 1 /\ m - 1 \notin T /\ m - 1 \in 0 .. N
    BY <1>1, <1>2
  <1>4. m - 1 \in G
    BY <1>3
  <1>5. (m - 1) + 1 \in G
    BY <1>3, <1>4
  <1> QED BY <1>2, <1>5

\* The results of a step that is taken N times from v on.
Steps(V, N) == [V \X (1 .. N) -> V]
IsRun(f, V, N, v, step) ==
    f \in [0 .. N -> V] /\ f[0] = v /\ \A n \in 1 .. N : f[n] = step[<<f[n - 1], n>>]

LEMMA Iterate ==
    ASSUME NEW N \in Nat, NEW V, NEW v \in V, NEW step \in Steps(V, N)
    PROVE  \E f : IsRun(f, V, N, v, step)
  <1> DEFINE G == {m \in 0 .. N : \E f : IsRun(f, V, m, v, step)}
  <1> USE DEF Steps
  <1>1. 0 \in G
    <2> DEFINE g == [n \in 0 .. 0 |-> v]
    <2>1. IsRun(g, V, 0, v, step)
      BY DEF IsRun
    <2> HIDE DEF g
    <2> QED BY <2>1
  <1>2. ASSUME NEW m \in 0 .. N - 1, m \in G PROVE m + 1 \in G
    <2>1. PICK f : IsRun(f, V, m, v, step)
      BY <1>2
    <2> DEFINE g == [n \in 0 .. m + 1 |-> IF n = m + 1 THEN step[<<f[m], m + 1>>] ELSE f[n]]
    <2>2. f[m] \in V /\ m + 1 \in 1 .. N
      BY <2>1 DEF IsRun
    <2>3. g \in [0 .. m + 1 -> V]
      BY <2>1, <2>2 DEF IsRun
    <2>4. g[0] = v
      BY <2>1 DEF IsRun
    <2>5. ASSUME NEW n \in 1 .. m + 1 PROVE g[n] = step[<<g[n - 1], n>>]
      <3>1. CASE n = m + 1
        <4>1. g[n - 1] = f[m] /\ g[n] = step[<<f[m], m + 1>>]
          BY <3>1
        <4> QED BY <3>1, <4>1
      <3>2. CASE n # m + 1
        <4>1. n \in 1 .. m /\ g[n] = f[n] /\ g[n - 1] = f[n - 1]
          BY <3>2
        <4> QED BY <4>1, <2>1 DEF IsRun
      <3> QED BY <3>1, <3>2
    <2> HIDE DEF g
    <2>6. IsRun(g, V, m + 1, v, step)
      BY <2>3, <2>4, <2>5 DEF IsRun
    <2> QED BY <2>2, <2>6
  <1>3. N \in G
    <2> HIDE DEF G
    <2>1. 0 .. N \subseteq G
      BY <1>1, <1>2, Induct
    <2> QED BY <2>1
  <1> QED BY <1>3

IsOn(f, N) == f = [n \in 0 .. N |-> f[n]]
GoAlike(f, h, N) == \A n \in 0 .. N - 1 : f[n] = h[n] => f[n + 1] = h[n + 1]

\* Two functions that begin alike and go on alike are the same.
LEMMA SameRun ==
    ASSUME NEW N \in Nat, NEW f, NEW h, IsOn(f, N), IsOn(h, N), f[0] = h[0], GoAlike(f, h, N)
    PROVE  f = h
  <1> DEFINE G == {n \in 0 .. N : f[n] = h[n]}
  <1>1. 0 \in G
    OBVIOUS
  <1>2. ASSUME NEW n \in 0 .. N - 1, n \in G PROVE n + 1 \in G
    <2>1. n + 1 \in 0 .. N /\ f[n] = h[n]
      BY <1>2
    <2> QED BY <2>1 DEF GoAlike
  <1>3. \A n \in 0 .. N : n \in G
    <2> HIDE DEF G
    <2> QED BY <1>1, <1>2, Induct
  <1>4. \A n \in 0 .. N : f[n] = h[n]
    BY <1>3
  <1>5. [n \in 0 .. N |-> f[n]] = [n \in 0 .. N |-> h[n]]
    BY <1>4
  <1> QED BY <1>5 DEF IsOn

-----------------------------------------------------------------------------
(* Selections.                                                             *)

Picks(f, s, T) ==
    /\ DOMAIN f = 0 .. Len(s) /\ f[0] = <<>>
    /\ \A n \in 1 .. Len(s) : f[n] = IF s[n] \in T THEN Append(f[n - 1], s[n]) ELSE f[n - 1]

\* Two sequences that begin alike: so do the selections from them.
LEMMA SamePicks ==
    ASSUME NEW s, NEW t, NEW T, NEW f, NEW g, NEW m \in Nat, Len(s) \in Nat, Len(t) \in Nat,
           Picks(f, s, T), Picks(g, t, T), m <= Len(s), m <= Len(t),
           \A n \in 1 .. m : s[n] = t[n]
    PROVE  f[m] = g[m]
  <1> DEFINE G == {n \in 0 .. m : f[n] = g[n]}
  <1>1. 0 \in G
    BY DEF Picks
  <1>2. ASSUME NEW n \in 0 .. m - 1, n \in G PROVE n + 1 \in G
    <2>1. n + 1 \in 1 .. m /\ n + 1 \in 1 .. Len(s) /\ n + 1 \in 1 .. Len(t) /\ (n + 1) - 1 = n
      OBVIOUS
    <2>2. s[n + 1] = t[n + 1] /\ f[n] = g[n]
      BY <1>2, <2>1
    <2>3. f[n + 1] = IF s[n + 1] \in T THEN Append(f[n], s[n + 1]) ELSE f[n]
      BY <2>1 DEF Picks
    <2>4. g[n + 1] = IF t[n + 1] \in T THEN Append(g[n], t[n + 1]) ELSE g[n]
      BY <2>1 DEF Picks
    <2> QED BY <2>2, <2>3, <2>4
  <1>3. 0 .. m \subseteq G
    <2> HIDE DEF G
    <2> QED BY <1>1, <1>2, Induct
  <1> QED BY <1>3

LEMMA SelectedIs ==
    ASSUME NEW S, NEW s \in Seq(S), NEW T
    PROVE  \E f : /\ Picks(f, s, T) /\ Selected(s, T) = f[Len(s)]
                  /\ \A n \in 0 .. Len(s) : f[n] \in Seq(S)
  <1> DEFINE N == Len(s)
             V == Seq(S)
             step == [p \in V \X (1 .. N) |-> IF s[p[2]] \in T THEN Append(p[1], s[p[2]]) ELSE p[1]]
  <1>1. N \in Nat /\ \A n \in 1 .. N : s[n] \in S
    BY LenProperties, ElementOfSeq
  <1>2. \A v \in V, n \in 1 .. N : step[<<v, n>>] = IF s[n] \in T THEN Append(v, s[n]) ELSE v
    OBVIOUS
  <1>3. step \in Steps(V, N)
    <2>1. ASSUME NEW p \in V \X (1 .. N) PROVE step[p] \in V
      <3>1. p[1] \in Seq(S) /\ p[2] \in 1 .. N
        OBVIOUS
      <3>2. Append(p[1], s[p[2]]) \in Seq(S)
        BY <1>1, <3>1, AppendProperties
      <3> QED BY <3>1, <3>2
    <2> HIDE DEF V, N
    <2> QED BY <2>1 DEF Steps
  <1>4. <<>> \in V
    BY EmptySeq
  <1> HIDE DEF step
  <1>5. PICK f : IsRun(f, V, N, <<>>, step)
    <2> HIDE DEF V, N
    <2> QED BY <1>1, <1>3, <1>4, Iterate
  <1>6. \A n \in 0 .. N : f[n] \in V
    BY <1>5 DEF IsRun
  <1>7. Picks(f, s, T)
    <2>1. ASSUME NEW n \in 1 .. N PROVE f[n] = IF s[n] \in T THEN Append(f[n - 1], s[n]) ELSE f[n - 1]
      <3>1. f[n] = step[<<f[n - 1], n>>] /\ n - 1 \in 0 .. N
        BY <1>1, <1>5 DEF IsRun
      <3> HIDE DEF V, N
      <3> QED BY <1>2, <1>6, <3>1
    <2> QED BY <1>5, <2>1 DEF IsRun, Picks
  <1>8. Selected(s, T) = f[N]
    <2> DEFINE Q(h) == h = [n \in 0 .. N |-> IF n = 0 THEN <<>>
                                             ELSE IF s[n] \in T THEN Append(h[n - 1], s[n]) ELSE h[n - 1]]
               ch == CHOOSE h : Q(h)
    <2>1. f = [n \in 0 .. N |-> f[n]]
      BY <1>5 DEF IsRun
    <2>2. \A n \in 0 .. N : f[n] = IF n = 0 THEN <<>>
                                    ELSE IF s[n] \in T THEN Append(f[n - 1], s[n]) ELSE f[n - 1]
      <3> SUFFICES ASSUME NEW n \in 0 .. N, n # 0
                   PROVE  f[n] = IF s[n] \in T THEN Append(f[n - 1], s[n]) ELSE f[n - 1]
        BY <1>7 DEF Picks
      <3>1. n \in 1 .. N
        BY <1>1
      <3> QED BY <1>7, <3>1 DEF Picks
    <2>3. Q(f)
      BY <2>1, <2>2
    <2>4. Q(ch)
      BY <2>3
    <2>5. Selected(s, T) = ch[N]
      BY DEF Selected, N
    <2> HIDE DEF ch
    <2>6. Picks(ch, s, T)
      <3>1. DOMAIN ch = 0 .. N /\ ch[0] = <<>>
        BY <1>1, <2>4
      <3>2. ASSUME NEW n \in 1 .. N PROVE ch[n] = IF s[n] \in T THEN Append(ch[n - 1], s[n]) ELSE ch[n - 1]
        <4>1. n \in 0 .. N /\ n # 0
          BY <1>1
        <4> QED BY <2>4, <4>1
      <3> QED BY <3>1, <3>2 DEF Picks
    <2>7. ch[N] = f[N]
      BY <1>1, <1>7, <2>6, SamePicks
    <2> QED BY <2>5, <2>7
  <1> QED BY <1>6, <1>7, <1>8

LEMMA SelectedEmpty == ASSUME NEW T PROVE Selected(<<>>, T) = <<>>
  <1>1. <<>> \in Seq({}) /\ Len(<<>>) = 0
    BY EmptySeq
  <1>2. PICK f : Picks(f, <<>>, T) /\ Selected(<<>>, T) = f[Len(<<>>)]
    BY <1>1, SelectedIs
  <1> QED BY <1>1, <1>2 DEF Picks

LEMMA SelectedType == ASSUME NEW S, NEW s \in Seq(S), NEW T PROVE Selected(s, T) \in Seq(S)
  <1>1. PICK f : Picks(f, s, T) /\ Selected(s, T) = f[Len(s)] /\ \A n \in 0 .. Len(s) : f[n] \in Seq(S)
    BY SelectedIs
  <1>2. Len(s) \in 0 .. Len(s)
    BY LenProperties
  <1> QED BY <1>1, <1>2

LEMMA SelectedOfAppend ==
    ASSUME NEW S, NEW s \in Seq(S), NEW x \in S, NEW T
    PROVE  Selected(Append(s, x), T) = IF x \in T THEN Append(Selected(s, T), x) ELSE Selected(s, T)
  <1>0. PICK t : t = Append(s, x)
    OBVIOUS
  <1>1. /\ Len(s) \in Nat /\ t \in Seq(S) /\ Len(t) = Len(s) + 1 /\ t[Len(s) + 1] = x
        /\ \A n \in 1 .. Len(s) : t[n] = s[n]
    BY <1>0, LenProperties, AppendProperties
  <1>2. PICK f : Picks(f, s, T) /\ Selected(s, T) = f[Len(s)]
    BY SelectedIs
  <1>3. PICK g : Picks(g, t, T) /\ Selected(t, T) = g[Len(t)]
    BY <1>1, SelectedIs
  <1>4. f[Len(s)] = g[Len(s)]
    <2>1. PICK m \in Nat : m = Len(s)
      BY <1>1
    <2>2. /\ Len(s) \in Nat /\ Len(t) \in Nat /\ m <= Len(s) /\ m <= Len(t)
          /\ \A n \in 1 .. m : s[n] = t[n]
      BY <1>1, <2>1
    <2>3. Picks(f, s, T) /\ Picks(g, t, T)
      BY <1>2, <1>3
    <2>4. f[m] = g[m]
      BY <2>2, <2>3, SamePicks
    <2> QED BY <2>1, <2>4
  <1>5. Len(t) \in 1 .. Len(t) /\ Len(t) - 1 = Len(s)
    BY <1>1
  <1>6. g[Len(t)] = IF t[Len(t)] \in T THEN Append(g[Len(t) - 1], t[Len(t)]) ELSE g[Len(t) - 1]
    BY <1>3, <1>5 DEF Picks
  <1> QED BY <1>1, <1>2, <1>3, <1>4, <1>5, <1>6, <1>0

\* The first m elements of a sequence: what is selected from them comes first.
IsPrefixOf(a, b) == Len(a) <= Len(b) /\ \A n \in 1 .. Len(a) : a[n] = b[n]

LEMMA SelectedPrefix ==
    ASSUME NEW S, NEW s \in Seq(S), NEW t \in Seq(S), NEW T, IsPrefixOf(s, t)
    PROVE  IsPrefixOf(Selected(s, T), Selected(t, T))
  <1>1. Len(s) \in Nat /\ Len(t) \in Nat /\ Len(s) <= Len(t) /\ \A n \in 1 .. Len(s) : s[n] = t[n]
    BY LenProperties DEF IsPrefixOf
  <1>2. PICK f : Picks(f, s, T) /\ Selected(s, T) = f[Len(s)] /\ \A n \in 0 .. Len(s) : f[n] \in Seq(S)
    BY SelectedIs
  <1>3. PICK g : Picks(g, t, T) /\ Selected(t, T) = g[Len(t)] /\ \A n \in 0 .. Len(t) : g[n] \in Seq(S)
    BY SelectedIs
  <1>4. f[Len(s)] = g[Len(s)]
    <2>1. Len(s) <= Len(s)
      BY <1>1
    <2> QED BY <1>1, <1>2, <1>3, <2>1, SamePicks
  <1> DEFINE G == {n \in 0 .. Len(t) : n < Len(s) \/ IsPrefixOf(g[Len(s)], g[n])}
  <1>5. 0 \in G
    <2>1. Len(s) = 0 => IsPrefixOf(g[0], g[0])
      BY <1>1, <1>3, LenProperties DEF IsPrefixOf
    <2> QED BY <1>1, <2>1
  <1>6. ASSUME NEW n \in 0 .. Len(t) - 1, n \in G PROVE n + 1 \in G
    <2>1. /\ n + 1 \in 1 .. Len(t) /\ (n + 1) - 1 = n /\ n + 1 \in 0 .. Len(t) /\ n \in 0 .. Len(t)
          /\ Len(s) \in 0 .. Len(t)
      BY <1>1
    <2>2. /\ g[n] \in Seq(S) /\ g[n + 1] \in Seq(S) /\ g[Len(s)] \in Seq(S) /\ t[n + 1] \in S
          /\ g[n + 1] = IF t[n + 1] \in T THEN Append(g[n], t[n + 1]) ELSE g[n]
      BY <1>3, <2>1, ElementOfSeq DEF Picks
    <2>3. IsPrefixOf(g[n], g[n + 1])
      <3>1. IsPrefixOf(g[n], g[n])
        BY <2>2, LenProperties DEF IsPrefixOf
      <3>2. Len(g[n]) \in Nat
        BY <2>2, LenProperties
      <3>3. IsPrefixOf(g[n], Append(g[n], t[n + 1]))
        BY <2>2, <3>2, AppendProperties DEF IsPrefixOf
      <3> QED BY <2>2, <3>1, <3>3
    <2>4. CASE n + 1 < Len(s)
      BY <2>1, <2>4
    <2>5. CASE n + 1 = Len(s)
      <3>1. Len(g[n + 1]) \in Nat
        BY <2>2, LenProperties
      <3>2. IsPrefixOf(g[n + 1], g[n + 1])
        BY <3>1 DEF IsPrefixOf
      <3>3. IsPrefixOf(g[Len(s)], g[n + 1])
        BY <2>5, <3>2
      <3> QED BY <2>1, <3>3
    <2>6. CASE n + 1 > Len(s)
      <3>1. IsPrefixOf(g[Len(s)], g[n])
        BY <1>1, <1>6, <2>1, <2>6
      <3>2. Len(g[n]) \in Nat /\ Len(g[n + 1]) \in Nat /\ Len(g[Len(s)]) \in Nat
        BY <2>2, LenProperties
      <3>3. IsPrefixOf(g[Len(s)], g[n + 1])
        BY <2>3, <3>1, <3>2 DEF IsPrefixOf
      <3> QED BY <2>1, <3>3
    <2> QED BY <1>1, <2>1, <2>4, <2>5, <2>6
  <1>7. Len(t) \in G
    <2>1. 0 .. Len(t) \subseteq G
      <3> HIDE DEF G
      <3> QED BY <1>1, <1>5, <1>6, Induct
    <2> QED BY <1>1, <2>1
  <1> QED BY <1>1, <1>2, <1>3, <1>4, <1>7

\* r consists of the first m elements of s that are in T, h says which.
Places(h, r, s, m, T) ==
    /\ \A n \in 1 .. Len(r) : h[n] \in 1 .. m /\ r[n] = s[h[n]] /\ r[n] \in T
    /\ \A n, k \in 1 .. Len(r) : n < k => h[n] < h[k]
    /\ \A i \in 1 .. m : s[i] \in T => \E n \in 1 .. Len(r) : h[n] = i

LEMMA SelectedPlaces ==
    ASSUME NEW S, NEW s \in Seq(S), NEW T
    PROVE  \E h : Places(h, Selected(s, T), s, Len(s), T)
  <1>1. PICK f : Picks(f, s, T) /\ Selected(s, T) = f[Len(s)] /\ \A n \in 0 .. Len(s) : f[n] \in Seq(S)
    BY SelectedIs
  <1>2. Len(s) \in Nat
    BY LenProperties
  <1> DEFINE G == {m \in 0 .. Len(s) : \E h : Places(h, f[m], s, m, T)}
  <1>3. 0 \in G
    <2>1. f[0] = <<>> /\ Len(f[0]) = 0
      BY <1>1, EmptySeq DEF Picks
    <2>2. Places(<<>>, f[0], s, 0, T)
      BY <2>1 DEF Places
    <2> QED BY <1>2, <2>2
  <1>4. ASSUME NEW m \in 0 .. Len(s) - 1, m \in G PROVE m + 1 \in G
    <2>1. PICK h : Places(h, f[m], s, m, T)
      BY <1>4
    <2>2. m + 1 \in 1 .. Len(s) /\ (m + 1) - 1 = m /\ m \in 0 .. Len(s) /\ m + 1 \in 0 .. Len(s)
      BY <1>2
    <2>3. /\ f[m] \in Seq(S) /\ Len(f[m]) \in Nat /\ s[m + 1] \in S
          /\ f[m + 1] = IF s[m + 1] \in T THEN Append(f[m], s[m + 1]) ELSE f[m]
      BY <1>1, <2>2, ElementOfSeq, LenProperties DEF Picks
    <2>4. CASE s[m + 1] \notin T
      <3>1. Places(h, f[m + 1], s, m + 1, T)
        <4>1. f[m + 1] = f[m]
          BY <2>3, <2>4
        <4>2. /\ \A n \in 1 .. Len(f[m]) : h[n] \in 1 .. m /\ f[m][n] = s[h[n]] /\ f[m][n] \in T
              /\ \A n, k \in 1 .. Len(f[m]) : n < k => h[n] < h[k]
              /\ \A i \in 1 .. m : s[i] \in T => \E n \in 1 .. Len(f[m]) : h[n] = i
          BY <2>1 DEF Places
        <4>3. \A i \in 1 .. m + 1 : i \in 1 .. m \/ i = m + 1
          BY <2>2
        <4>4. \A i \in 1 .. m : i \in 1 .. m + 1
          BY <2>2
        <4>5. \A i \in 1 .. m + 1 : s[i] \in T => \E n \in 1 .. Len(f[m]) : h[n] = i
          BY <2>4, <4>2, <4>3
        <4> QED BY <4>1, <4>2, <4>4, <4>5 DEF Places
      <3> QED BY <2>2, <3>1
    <2>5. CASE s[m + 1] \in T
      <3> DEFINE new == Len(f[m]) + 1
                 g == [n \in 1 .. new |-> IF n = new THEN m + 1 ELSE h[n]]
      <3>1. /\ Len(f[m + 1]) = new /\ f[m + 1][new] = s[m + 1] /\ new \in Nat
            /\ \A n \in 1 .. Len(f[m]) : f[m + 1][n] = f[m][n]
        BY <2>3, <2>5, AppendProperties
      <3>2. g[new] = m + 1 /\ \A n \in 1 .. Len(f[m]) : g[n] = h[n]
        BY <2>3
      <3>3. \A n \in 1 .. new : n = new \/ n \in 1 .. Len(f[m])
        BY <2>3
      <3>4. \A n \in 1 .. Len(f[m]) : n \in 1 .. new /\ n < new
        BY <2>3
      <3> HIDE DEF g, new
      <3>5. \A n \in 1 .. Len(f[m]) : g[n] \in 1 .. m /\ f[m + 1][n] = s[g[n]] /\ f[m + 1][n] \in T
        BY <2>1, <3>1, <3>2 DEF Places
      <3>6. \A n \in 1 .. new : g[n] \in 1 .. m + 1 /\ f[m + 1][n] = s[g[n]] /\ f[m + 1][n] \in T
        BY <2>2, <2>5, <3>1, <3>2, <3>3, <3>5
      <3>7. ASSUME NEW n \in 1 .. new, NEW k \in 1 .. new, n < k PROVE g[n] < g[k]
        <4>1. n \in 1 .. Len(f[m])
          BY <2>3, <3>7 DEF new
        <4>2. CASE k = new
          BY <3>2, <3>5, <4>1, <4>2
        <4>3. CASE k \in 1 .. Len(f[m])
          BY <2>1, <3>2, <3>7, <4>1, <4>3 DEF Places
        <4> QED BY <3>3, <4>2, <4>3
      <3>8. ASSUME NEW i \in 1 .. m + 1, s[i] \in T PROVE \E n \in 1 .. new : g[n] = i
        <4>1. CASE i = m + 1
          <5>1. new \in 1 .. new
            BY <2>3 DEF new
          <5> QED BY <3>2, <4>1, <5>1
        <4>2. CASE i # m + 1
          <5>1. i \in 1 .. m
            BY <4>2
          <5>2. PICK n \in 1 .. Len(f[m]) : h[n] = i
            BY <2>1, <3>8, <5>1 DEF Places
          <5> QED BY <3>2, <3>4, <5>2
        <4> QED BY <4>1, <4>2
      <3>9. Places(g, f[m + 1], s, m + 1, T)
        BY <3>1, <3>6, <3>7, <3>8 DEF Places
      <3> QED BY <2>2, <3>9
    <2> QED BY <2>4, <2>5
  <1>5. Len(s) \in G
    <2>1. 0 .. Len(s) \subseteq G
      <3> HIDE DEF G
      <3> QED BY <1>2, <1>3, <1>4, Induct
    <2> QED BY <1>2, <2>1
  <1> QED BY <1>1, <1>5

Occurs(x, s) == \E n \in DOMAIN s : s[n] = x

LEMMA SelectedRange ==
    ASSUME NEW S, NEW s \in Seq(S), NEW T, NEW x
    PROVE  Occurs(x, Selected(s, T)) <=> x \in T /\ Occurs(x, s)
  <1>1. PICK h : Places(h, Selected(s, T), s, Len(s), T)
    BY SelectedPlaces
  <1>2. DOMAIN s = 1 .. Len(s) /\ DOMAIN Selected(s, T) = 1 .. Len(Selected(s, T))
    BY LenProperties, SelectedType
  <1> QED BY <1>1, <1>2 DEF Places, Occurs

\* What is in a sequence once is selected at most once.
LEMMA SelectedOnce ==
    ASSUME NEW S, NEW s \in Seq(S), NEW T, \A n, k \in DOMAIN s : s[n] = s[k] => n = k
    PROVE  \A n, k \in DOMAIN Selected(s, T) : Selected(s, T)[n] = Selected(s, T)[k] => n = k
  <1>1. PICK h : Places(h, Selected(s, T), s, Len(s), T)
    BY SelectedPlaces
  <1>2. /\ DOMAIN s = 1 .. Len(s) /\ DOMAIN Selected(s, T) = 1 .. Len(Selected(s, T))
        /\ Len(s) \in Nat /\ Len(Selected(s, T)) \in Nat
    BY LenProperties, SelectedType
  <1> DEFINE r == Selected(s, T)
  <1> HIDE DEF r
  <1> SUFFICES ASSUME NEW n \in 1 .. Len(r), NEW k \in 1 .. Len(r), r[n] = r[k], n < k PROVE FALSE
    BY <1>2 DEF r
  <1>3. h[n] \in DOMAIN s /\ h[k] \in DOMAIN s /\ s[h[n]] = s[h[k]] /\ h[n] < h[k]
    BY <1>1, <1>2 DEF Places, r
  <1> QED BY <1>2, <1>3

LEMMA PrefixIsSubSeq ==
    ASSUME NEW S, NEW a \in Seq(S), NEW b \in Seq(S), IsPrefixOf(a, b)
    PROVE  Len(a) <= Len(b) /\ a = SubSeq(b, 1, Len(a))
  <1>1. /\ Len(a) \in Nat /\ Len(b) \in Nat /\ Len(a) <= Len(b) /\ \A n \in 1 .. Len(a) : a[n] = b[n]
        /\ \A n \in 1 .. Len(b) : b[n] \in S
    BY LenProperties, ElementOfSeq DEF IsPrefixOf
  <1> DEFINE c == SubSeq(b, 1, Len(a))
  <1>2. c \in Seq(S) /\ Len(c) = Len(a) /\ \A n \in 1 .. Len(a) : c[n] = b[n]
    <2>1. \A n \in 1 .. Len(a) : b[n] \in S
      BY <1>1
    <2>2. /\ c \in Seq(S) /\ Len(c) = (IF 1 <= Len(a) THEN Len(a) - 1 + 1 ELSE 0)
          /\ \A n \in 1 .. Len(a) - 1 + 1 : c[n] = b[1 + n - 1]
      BY <1>1, <2>1, SubSeqProperties
    <2> HIDE DEF c
    <2> QED BY <1>1, <2>2
  <1> HIDE DEF c
  <1>3. c = a
    <2>1. \A n \in 1 .. Len(c) : c[n] = a[n]
      BY <1>1, <1>2
    <2> QED BY <1>2, <2>1, SeqEqual
  <1> QED BY <1>1, <1>3 DEF c
=============================================================================
