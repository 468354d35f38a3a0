------------------------- MODULE SequenceInduction -------------------------
(***************************************************************************)
(* Induction over the naturals and recursion along a sequence, as facts    *)
(* about sets and functions, and what a selection from a sequence returns. *)
(*                                                                         *)
(* The induction theorems of the library take the predicate as an          *)
(* operator.  Here it is the set of the numbers that satisfy it, which     *)
(* follows from the well-foundedness of < on Nat and which every prover    *)
(* can instantiate; the step of a recursion is a function likewise.        *)
(***************************************************************************)
EXTENDS Selection, TLAPS, WellFoundedInduction

LEMMA LeastElement ==
  ASSUME NEW T, T \subseteq Nat, T # {}
  PROVE  \E m \in T : \A k \in T : m <= k
<1>1. PICK m \in T : \A k \in T : ~ (<<k, m>> \in OpToRel(<, Nat))
  BY NatLessThanWellFounded, WFMin
<1>2. \A k \in T : (<<k, m>> \in OpToRel(<, Nat)) <=> k < m
  BY DEF OpToRel
<1>3. \A k \in T : ~ (k < m)
  BY <1>1, <1>2
<1>4. m \in Nat /\ \A k \in T : k \in Nat
  OBVIOUS
<1>5. \A k \in T : m <= k
  BY <1>3, <1>4
<1> QED
  BY <1>5

\* A set of numbers that has 0, and n + 1 whenever it has n < N, has them all to N.
LEMMA Induction ==
  ASSUME NEW N \in Nat, NEW P, 0 \in P, \A n \in 0 .. N - 1 : n \in P => n + 1 \in P
  PROVE  \A n \in 0 .. N : n \in P
<1> DEFINE T == {n \in 0 .. N : n \notin P}
<1>1. SUFFICES ASSUME T # {} PROVE FALSE
  OBVIOUS
<1>2. PICK m \in T : \A k \in T : m <= k
  <2>1. T \subseteq Nat
    OBVIOUS
  <2> HIDE DEF T
  <2> QED
    BY <1>1, <2>1, LeastElement
<1>3. m # 0
  OBVIOUS
<1>4. m - 1 \in 0 .. N - 1 /\ m - 1 \notin T /\ m = (m - 1) + 1
  BY <1>2, <1>3
<1> QED
  BY <1>4

-----------------------------------------------------------------------------
(* f is the run of the steps F from the value c on: f[n] is what the first *)
(* n steps have made of c.                                                 *)
Unrolls(f, V, N, c, F) ==
  /\ f \in [0 .. N -> V]
  /\ f[0] = c
  /\ \A n \in 1 .. N : f[n] = F[n][f[n - 1]]

LEMMA RecursionExists ==
  ASSUME NEW V, NEW N \in Nat, NEW c \in V, NEW F \in [1 .. N -> [V -> V]]
  PROVE  \E f : Unrolls(f, V, N, c, F)
<1> DEFINE P == {n \in 0 .. N : \E f : Unrolls(f, V, n, c, F)}
<1>1. 0 \in P
  <2> DEFINE f == [n \in 0 .. 0 |-> c]
  <2>1. Unrolls(f, V, 0, c, F)
    BY DEF Unrolls
  <2> QED
    BY <2>1
<1>2. ASSUME NEW n \in 0 .. N - 1, n \in P
      PROVE  n + 1 \in P
  <2>1. PICK f : Unrolls(f, V, n, c, F)
    BY <1>2
  <2>2. F[n + 1][f[n]] \in V
    BY <2>1 DEF Unrolls
  <2> DEFINE g == [k \in 0 .. n + 1 |-> IF k = n + 1 THEN F[n + 1][f[n]] ELSE f[k]]
  <2>3. g \in [0 .. n + 1 -> V]
    BY <2>1, <2>2 DEF Unrolls
  <2>4. g[0] = c
    BY <2>1 DEF Unrolls
  <2>5. ASSUME NEW k \in 1 .. n + 1
        PROVE  g[k] = F[k][g[k - 1]]
    <3>1. CASE k = n + 1
      BY <3>1
    <3>2. CASE k # n + 1
      BY <3>2, <2>1 DEF Unrolls
    <3> QED
      BY <3>1, <3>2
  <2>6. Unrolls(g, V, n + 1, c, F)
    BY <2>3, <2>4, <2>5 DEF Unrolls
  <2> QED
    BY <2>6
<1>3. N \in P
  <2> HIDE DEF P
  <2>1. \A n \in 0 .. N : n \in P
    BY <1>1, <1>2, Induction
  <2> QED
    BY <2>1
<1> QED
  BY <1>3

LEMMA RecursionUnique ==
  ASSUME NEW V, NEW N \in Nat, NEW c, NEW F, NEW f, NEW g,
         Unrolls(f, V, N, c, F), Unrolls(g, V, N, c, F)
  PROVE  \A n \in 0 .. N : f[n] = g[n]
<1> DEFINE P == {n \in 0 .. N : f[n] = g[n]}
<1>1. 0 \in P
  BY DEF Unrolls
<1>2. ASSUME NEW n \in 0 .. N - 1, n \in P
      PROVE  n + 1 \in P
  <2>1. f[n + 1] = F[n + 1][f[n]] /\ g[n + 1] = F[n + 1][g[n]]
    BY DEF Unrolls
  <2> QED
    BY <1>2, <2>1
<1> QED
  BY <1>1, <1>2, Induction

-----------------------------------------------------------------------------
\* f[n] is what is selected among the first n.
Selects(f, seq, S) ==
  /\ f \in [0 .. Len(seq) -> Seq(S)]
  /\ f[0] = <<>>
  /\ \A n \in 1 .. Len(seq) :
       f[n] = IF seq[n] \in S THEN Append(f[n - 1], seq[n]) ELSE f[n - 1]

LEMMA SelectedUnrolls ==
  ASSUME NEW S, NEW seq, Len(seq) \in Nat
  PROVE  \E f : Selects(f, seq, S) /\ Selected(seq, S) = f[Len(seq)]
<1>0. PICK N \in Nat : N = Len(seq)
  OBVIOUS
<1> DEFINE V == Seq(S)
           Rec(g) == g = [n \in 0 .. N |->
                            IF n = 0 THEN <<>>
                            ELSE IF seq[n] \in S THEN Append(g[n - 1], seq[n]) ELSE g[n - 1]]
           f == CHOOSE g : Rec(g)
           F == [n \in 1 .. N |-> [s \in V |-> IF seq[n] \in S THEN Append(s, seq[n]) ELSE s]]
<1>1. Selected(seq, S) = f[N]
  BY <1>0 DEF Selected
<1>2. <<>> \in V
  OBVIOUS
<1>3. \A n \in 1 .. N, s \in V : (IF seq[n] \in S THEN Append(s, seq[n]) ELSE s) \in V
  OBVIOUS
<1>4. F \in [1 .. N -> [V -> V]]
  BY <1>3
<1>5. PICK g : Unrolls(g, V, N, <<>>, F)
  <2> HIDE DEF F, V
  <2> QED
    BY <1>2, <1>4, RecursionExists
<1>6. g \in [0 .. N -> V] /\ g[0] = <<>>
  BY <1>5 DEF Unrolls
<1>7. ASSUME NEW n \in 1 .. N
      PROVE  g[n] = IF seq[n] \in S THEN Append(g[n - 1], seq[n]) ELSE g[n - 1]
  <2>1. g[n] = F[n][g[n - 1]]
    BY <1>5 DEF Unrolls
  <2>2. g[n - 1] \in V
    BY <1>6
  <2> QED
    BY <2>1, <2>2
<1> HIDE DEF V, F
<1>8. Rec(g)
  <2>1. ASSUME NEW n \in 0 .. N
        PROVE  g[n] = IF n = 0 THEN <<>>
                      ELSE IF seq[n] \in S THEN Append(g[n - 1], seq[n]) ELSE g[n - 1]
    <3>1. CASE n = 0
      BY <1>6, <3>1
    <3>2. CASE n # 0
      <4>1. n \in 1 .. N
        BY <3>2
      <4> QED
        BY <1>7, <3>2, <4>1
    <3> QED
      BY <3>1, <3>2
  <2> QED
    BY <1>6, <2>1
<1>9. Rec(f)
  BY <1>8
<1> HIDE DEF f
<1>10. f[0] = <<>>
  BY <1>9
<1>11. ASSUME NEW n \in 1 .. N
       PROVE  f[n] = IF seq[n] \in S THEN Append(f[n - 1], seq[n]) ELSE f[n - 1]
  <2>1. n \in 0 .. N /\ n # 0
    OBVIOUS
  <2> QED
    BY <1>9, <2>1
<1> DEFINE P == {n \in 0 .. N : f[n] \in V}
<1>12. 0 \in P
  BY <1>2, <1>10
<1>13. ASSUME NEW n \in 0 .. N - 1, n \in P
       PROVE  n + 1 \in P
  <2>1. n + 1 \in 1 .. N /\ (n + 1) - 1 = n
    OBVIOUS
  <2>2. f[n + 1] = IF seq[n + 1] \in S THEN Append(f[n], seq[n + 1]) ELSE f[n]
    BY <1>11, <2>1
  <2>3. f[n] \in Seq(S)
    BY <1>13 DEF V
  <2>4. f[n + 1] \in Seq(S)
    BY <2>2, <2>3
  <2> QED
    BY <2>1, <2>4 DEF V
<1>14. \A n \in 0 .. N : f[n] \in V
  <2> HIDE DEF P
  <2>1. \A n \in 0 .. N : n \in P
    BY <1>12, <1>13, Induction
  <2> QED
    BY <2>1 DEF P
<1>15. f \in [0 .. N -> V]
  BY <1>9, <1>14
<1> QED
  BY <1>0, <1>1, <1>10, <1>11, <1>15 DEF Selects, V

LEMMA SelectedType ==
  ASSUME NEW S, NEW seq, Len(seq) \in Nat
  PROVE  Selected(seq, S) \in Seq(S)
<1>1. PICK f : Selects(f, seq, S) /\ Selected(seq, S) = f[Len(seq)]
  BY SelectedUnrolls
<1> QED
  BY <1>1 DEF Selects

\* A sequence of elements of the set is kept whole.
LEMMA SelectedAll ==
  ASSUME NEW S, NEW seq \in Seq(S)
  PROVE  Selected(seq, S) = seq
<1> DEFINE N == Len(seq)
<1>1. N \in Nat /\ \A n \in 1 .. N : seq[n] \in S
  OBVIOUS
<1>2. PICK f : Selects(f, seq, S) /\ Selected(seq, S) = f[N]
  BY <1>1, SelectedUnrolls
<1> DEFINE P == {n \in 0 .. N : Len(f[n]) = n /\ \A i \in 1 .. n : f[n][i] = seq[i]}
<1>3. 0 \in P
  BY <1>2 DEF Selects
<1>4. ASSUME NEW n \in 0 .. N - 1, n \in P
      PROVE  n + 1 \in P
  <2>0. n + 1 \in 1 .. N /\ n \in 0 .. N /\ (n + 1) - 1 = n
    BY <1>1
  <2>1. f[n + 1] = Append(f[n], seq[n + 1]) /\ f[n] \in Seq(S)
    <3>1. f[n + 1] = IF seq[n + 1] \in S THEN Append(f[(n + 1) - 1], seq[n + 1]) ELSE f[(n + 1) - 1]
      BY <1>2, <2>0 DEF Selects
    <3>2. seq[n + 1] \in S
      BY <1>1, <2>0
    <3>3. f[n] \in Seq(S)
      BY <1>2, <2>0 DEF Selects
    <3> QED
      BY <2>0, <3>1, <3>2, <3>3
  <2>2. Len(f[n + 1]) = n + 1
    BY <1>4, <2>1
  <2>3. ASSUME NEW i \in 1 .. n + 1
        PROVE  f[n + 1][i] = seq[i]
    BY <1>4, <2>1
  <2> QED
    BY <1>1, <2>2, <2>3
<1>5. N \in P
  <2> HIDE DEF P
  <2>1. \A n \in 0 .. N : n \in P
    BY <1>1, <1>3, <1>4, Induction
  <2> QED
    BY <1>1, <2>1
<1>6. f[N] \in Seq(S)
  BY <1>1, <1>2 DEF Selects
<1> QED
  BY <1>1, <1>2, <1>5, <1>6

\* h says where in the first n of seq the elements of sel, which are all those of S, are.
Embeds(h, sel, seq, n, S) ==
  /\ h \in [1 .. Len(sel) -> 1 .. n]
  /\ \A i \in 1 .. Len(sel) : sel[i] = seq[h[i]] /\ sel[i] \in S
  /\ \A i, j \in 1 .. Len(sel) : i < j => h[i] < h[j]
  /\ \A k \in 1 .. n : seq[k] \in S => \E i \in 1 .. Len(sel) : h[i] = k

LEMMA EmbeddingGrows ==
  ASSUME NEW S, NEW seq, NEW n \in Nat, NEW sel \in Seq(S), NEW h, Embeds(h, sel, seq, n, S),
         NEW next, next = IF seq[n + 1] \in S THEN Append(sel, seq[n + 1]) ELSE sel
  PROVE  \E g : Embeds(g, next, seq, n + 1, S)
<1>0. PICK N \in Nat : N = Len(sel)
  OBVIOUS
<1>1. CASE seq[n + 1] \notin S
  <2>1. next = sel
    BY <1>1
  <2>2. \A k \in 1 .. n + 1 : seq[k] \in S => k \in 1 .. n
    BY <1>1
  <2>3. Embeds(h, sel, seq, n + 1, S)
    BY <2>2 DEF Embeds
  <2> QED
    BY <2>1, <2>3
<1>2. CASE seq[n + 1] \in S
  <2>1. /\ next \in Seq(S) /\ Len(next) = N + 1 /\ next[N + 1] = seq[n + 1]
        /\ \A i \in 1 .. N : next[i] = sel[i]
    BY <1>0, <1>2
  <2> DEFINE g == [i \in 1 .. N + 1 |-> IF i = N + 1 THEN n + 1 ELSE h[i]]
  <2>2. /\ h \in [1 .. N -> 1 .. n]
        /\ \A i \in 1 .. N : sel[i] = seq[h[i]] /\ sel[i] \in S
        /\ \A i, j \in 1 .. N : i < j => h[i] < h[j]
        /\ \A k \in 1 .. n : seq[k] \in S => \E i \in 1 .. N : h[i] = k
    BY <1>0 DEF Embeds
  <2>3. /\ g \in [1 .. N + 1 -> 1 .. n + 1] /\ g[N + 1] = n + 1
        /\ \A i \in 1 .. N : g[i] = h[i] /\ g[i] \in 1 .. n
    BY <2>2
  <2> HIDE DEF g
  <2>4. \A i \in 1 .. N + 1 : next[i] = seq[g[i]] /\ next[i] \in S
    <3> SUFFICES ASSUME NEW i \in 1 .. N + 1 PROVE next[i] = seq[g[i]] /\ next[i] \in S
      OBVIOUS
    <3>1. CASE i = N + 1
      BY <1>2, <2>1, <2>3, <3>1
    <3>2. CASE i # N + 1
      <4>1. i \in 1 .. N
        BY <3>2
      <4> QED
        BY <2>1, <2>2, <2>3, <4>1
    <3> QED
      BY <3>1, <3>2
  <2>5. \A i, j \in 1 .. N + 1 : i < j => g[i] < g[j]
    <3> SUFFICES ASSUME NEW i \in 1 .. N + 1, NEW j \in 1 .. N + 1, i < j PROVE g[i] < g[j]
      OBVIOUS
    <3>1. i \in 1 .. N
      OBVIOUS
    <3>2. CASE j = N + 1
      BY <2>3, <3>1, <3>2
    <3>3. CASE j # N + 1
      <4>1. j \in 1 .. N
        BY <3>3
      <4> QED
        BY <2>2, <2>3, <3>1, <4>1
    <3> QED
      BY <3>2, <3>3
  <2>6. \A k \in 1 .. n + 1 : seq[k] \in S => \E i \in 1 .. N + 1 : g[i] = k
    <3> SUFFICES ASSUME NEW k \in 1 .. n + 1, seq[k] \in S PROVE \E i \in 1 .. N + 1 : g[i] = k
      OBVIOUS
    <3>1. CASE k = n + 1
      BY <2>3, <3>1
    <3>2. CASE k # n + 1
      <4>1. k \in 1 .. n
        BY <3>2
      <4>2. PICK i \in 1 .. N : h[i] = k
        BY <2>2, <4>1
      <4> QED
        BY <2>3, <4>2
    <3> QED
      BY <3>1, <3>2
  <2>7. Embeds(g, next, seq, n + 1, S)
    BY <2>1, <2>3, <2>4, <2>5, <2>6 DEF Embeds
  <2> QED
    BY <2>7
<1> QED
  BY <1>1, <1>2

\* What is selected is in the order of the sequence, and is all that is in the set.
LEMMA SelectedEmbeds ==
  ASSUME NEW S, NEW seq, Len(seq) \in Nat
  PROVE  \E h : Embeds(h, Selected(seq, S), seq, Len(seq), S)
<1>0. PICK N \in Nat : N = Len(seq)
  OBVIOUS
<1>1. PICK f : Selects(f, seq, S) /\ Selected(seq, S) = f[N]
  BY <1>0, SelectedUnrolls
<1>2. /\ f \in [0 .. N -> Seq(S)] /\ f[0] = <<>>
      /\ \A n \in 1 .. N : f[n] = IF seq[n] \in S THEN Append(f[n - 1], seq[n]) ELSE f[n - 1]
  BY <1>0, <1>1 DEF Selects
<1> DEFINE P == {n \in 0 .. N : \E h : Embeds(h, f[n], seq, n, S)}
<1>3. 0 \in P
  <2> DEFINE h == [i \in 1 .. 0 |-> 0]
  <2>1. Embeds(h, <<>>, seq, 0, S)
    BY DEF Embeds
  <2> HIDE DEF h
  <2> QED
    BY <1>2, <2>1
<1>4. ASSUME NEW n \in 0 .. N - 1, n \in P
      PROVE  n + 1 \in P
  <2>0. n \in Nat /\ n \in 0 .. N /\ n + 1 \in 1 .. N /\ (n + 1) - 1 = n
    OBVIOUS
  <2>1. PICK h : Embeds(h, f[n], seq, n, S)
    BY <1>4
  <2>2. /\ f[n + 1] = IF seq[n + 1] \in S THEN Append(f[n], seq[n + 1]) ELSE f[n]
        /\ f[n] \in Seq(S)
    BY <1>2, <2>0
  <2>3. \E g : Embeds(g, f[n + 1], seq, n + 1, S)
    BY <2>0, <2>1, <2>2, EmbeddingGrows
  <2> QED
    BY <2>0, <2>3
<1>5. N \in P
  <2> HIDE DEF P
  <2>1. \A n \in 0 .. N : n \in P
    BY <1>3, <1>4, Induction
  <2> QED
    BY <2>1
<1> QED
  BY <1>0, <1>1, <1>5
=============================================================================
