---------------------------- MODULE HdcUartProofs ----------------------------
(***************************************************************************)
(* Safety of the serial link layer for every number of sessions, every     *)
(* length of the messages and any amount of noise.                         *)
(*                                                                         *)
(* SlotIsHeld is inductive with the types.  That the link is an ordered    *)
(* stream is not a matter of one place: an index is remembered at one end, *)
(* a package is kept at the other, and copies of it and of its answer may  *)
(* be on both lines.  UInv says, for each direction, how the indices of    *)
(* what is listed, on its way, answered and dispatched relate.             *)
(***************************************************************************)
EXTENDS HdcUart, FiniteSetTheorems, WellFoundedInduction, TLAPS

(***************************************************************************)
(* What Kept(s, K) is, by induction over the length of s.                  *)
(***************************************************************************)
\* Induction over the naturals, stated for a set of them.
LEMMA Induction ==
    ASSUME NEW S, S \subseteq Nat, 0 \in S, \A n \in S : n + 1 \in S
    PROVE  S = Nat
<1> SUFFICES ASSUME S # Nat
             PROVE  FALSE
  OBVIOUS
<1> DEFINE X == {1..n : n \in Nat \ S}
<1>1. X \subseteq FiniteSubsetsOf(Nat)
  <2> SUFFICES ASSUME NEW n \in Nat
               PROVE  1..n \in FiniteSubsetsOf(Nat)
    OBVIOUS
  <2> QED
    BY FS_Interval DEF FiniteSubsetsOf
<1>2. X # {}
  OBVIOUS
<1>3. \E x \in X : \A y \in X : ~(<<y, x>> \in StrictSubsetOrdering(Nat))
  BY <1>1, <1>2, WFMin, FS_StrictSubsetOrderingWellFounded
<1>4. PICK m \in Nat \ S : \A y \in X : ~(<<y, 1..m>> \in StrictSubsetOrdering(Nat))
  BY <1>3
<1>5. m - 1 \in Nat \ S
  BY <1>4
<1>6. 1..(m - 1) \in X
  BY <1>5
<1>7. 1..(m - 1) \subseteq 1..m /\ m \in 1..m /\ m \notin 1..(m - 1)
  BY <1>4, <1>5
<1>8. <<1..(m - 1), 1..m>> \in StrictSubsetOrdering(Nat)
  BY <1>7 DEF StrictSubsetOrdering
<1> QED
  BY <1>4, <1>6, <1>8

\* t is made of elements of s in their order, those at the places in K.
Chosen(t, s, K, m) ==
  \E f \in [1..Len(t) -> K \cap 1..m] :
    /\ \A i, j \in 1..Len(t) : i < j => f[i] < f[j]
    /\ \A i \in 1..Len(t) : t[i] = s[f[i]]
    /\ \A k \in K \cap 1..m : \E i \in 1..Len(t) : f[i] = k

LEMMA ChosenNext ==
    ASSUME NEW S, NEW s \in Seq(S), NEW t \in Seq(S), NEW K, NEW m \in Nat, m + 1 <= Len(s),
           Chosen(t, s, K, m)
    PROVE  Chosen(IF m + 1 \in K THEN Append(t, s[m + 1]) ELSE t, s, K, m + 1)
<1>1. PICK f \in [1..Len(t) -> K \cap 1..m] :
             /\ \A i, j \in 1..Len(t) : i < j => f[i] < f[j]
             /\ \A i \in 1..Len(t) : t[i] = s[f[i]]
             /\ \A k \in K \cap 1..m : \E i \in 1..Len(t) : f[i] = k
  BY DEF Chosen
<1>2. CASE m + 1 \notin K
  <2>1. K \cap 1..(m + 1) = K \cap 1..m
    BY <1>2
  <2>2. Chosen(t, s, K, m + 1)
    BY <2>1 DEF Chosen
  <2> QED
    BY <1>2, <2>2
<1>3. CASE m + 1 \in K
  <2> DEFINE u == Append(t, s[m + 1])
             g == [i \in 1..Len(u) |-> IF i = Len(t) + 1 THEN m + 1 ELSE f[i]]
  <2>1. Len(u) = Len(t) + 1 /\ u[Len(t) + 1] = s[m + 1] /\ \A i \in 1..Len(t) : u[i] = t[i]
    OBVIOUS
  <2>2. Len(t) \in Nat /\ 1..Len(u) = 1..Len(t) \cup {Len(t) + 1}
    BY <2>1
  <2>3. \A i \in 1..Len(t) : f[i] \in K \cap 1..m /\ i # Len(t) + 1 /\ i \in 1..Len(u)
    BY <1>1, <2>2
  <2>3a. Len(t) + 1 \in 1..Len(u)
    BY <2>2
  <2>4. K \cap 1..(m + 1) = (K \cap 1..m) \cup {m + 1}
    BY <1>3
  <2> HIDE DEF u
  <2>5. g \in [1..Len(u) -> K \cap 1..(m + 1)]
    BY <2>2, <2>3, <2>4
  <2>6. \A i \in 1..Len(t) : g[i] = f[i]
    BY <2>3
  <2>7. g[Len(t) + 1] = m + 1
    BY <2>3a
  <2> HIDE DEF g
  <2>8. ASSUME NEW i \in 1..Len(u), NEW j \in 1..Len(u), i < j
        PROVE  g[i] < g[j]
    <3>1. i \in 1..Len(t)
      BY <2>2, <2>8
    <3>2. CASE j \in 1..Len(t)
      BY <1>1, <2>6, <2>8, <3>1, <3>2
    <3>3. CASE j = Len(t) + 1
      BY <2>3, <2>6, <2>7, <3>1, <3>3
    <3> QED
      BY <2>2, <3>2, <3>3
  <2>9. \A i \in 1..Len(u) : u[i] = s[g[i]]
    BY <1>1, <2>1, <2>2, <2>6, <2>7
  <2>10. \A k \in K \cap 1..(m + 1) : \E i \in 1..Len(u) : g[i] = k
    BY <1>1, <2>2, <2>4, <2>6, <2>7
  <2>11. Chosen(u, s, K, m + 1)
    BY <2>5, <2>8, <2>9, <2>10 DEF Chosen
  <2> QED
    BY <1>3, <2>11 DEF u
<1> QED
  BY <1>2, <1>3

\* What the recursion in Kept says of its values.
Builds(F, s, K, n) ==
    F = [i \in 0..n |-> IF i = 0 THEN <<>>
                        ELSE IF i \in K THEN Append(F[i - 1], s[i]) ELSE F[i - 1]]

LEMMA BuildsStep ==
    ASSUME NEW F, NEW s, NEW K, NEW n \in Nat, Builds(F, s, K, n)
    PROVE  /\ F[0] = <<>>
           /\ \A i \in 1..n : F[i] = IF i \in K THEN Append(F[i - 1], s[i]) ELSE F[i - 1]
<1> DEFINE Value(i) == IF i = 0 THEN <<>>
                       ELSE IF i \in K THEN Append(F[i - 1], s[i]) ELSE F[i - 1]
           R == [i \in 0..n |-> Value(i)]
<1>1. F = R
  BY DEF Builds
<1>2. \A i \in 0..n : R[i] = Value(i)
  OBVIOUS
<1> HIDE DEF R
<1>3. \A i \in 0..n : F[i] = Value(i)
  BY <1>1, <1>2
<1>4. 0 \in 0..n /\ \A i \in 1..n : i \in 0..n /\ i # 0
  OBVIOUS
<1> QED
  BY <1>3, <1>4

LEMMA BuildsExists ==
    ASSUME NEW s, NEW K, NEW m \in Nat
    PROVE  \E F : Builds(F, s, K, m)
<1> DEFINE S == {n \in Nat : \E F : Builds(F, s, K, n)}
<1>1. 0 \in S
  <2>1. Builds([i \in 0..0 |-> <<>>], s, K, 0)
    BY DEF Builds
  <2> QED
    BY <2>1
<1>2. ASSUME NEW n \in S
      PROVE  n + 1 \in S
  <2>1. PICK F : Builds(F, s, K, n)
    OBVIOUS
  <2> DEFINE G == [i \in 0..(n + 1) |->
                     IF i = n + 1
                     THEN IF n + 1 \in K THEN Append(F[n], s[n + 1]) ELSE F[n]
                     ELSE F[i]]
  <2>2. \A i \in 0..n : G[i] = F[i] /\ i # n + 1
    OBVIOUS
  <2>3. G[n + 1] = IF n + 1 \in K THEN Append(F[n], s[n + 1]) ELSE F[n]
    OBVIOUS
  <2>4. F[0] = <<>> /\ \A i \in 1..n : F[i] = IF i \in K THEN Append(F[i - 1], s[i]) ELSE F[i - 1]
    BY <2>1, BuildsStep
  <2>5. DOMAIN G = 0..(n + 1) /\ G = [i \in 0..(n + 1) |-> G[i]]
    OBVIOUS
  <2> HIDE DEF G
  <2>6. \A i \in 0..(n + 1) : G[i] = IF i = 0 THEN <<>>
                        ELSE IF i \in K THEN Append(G[i - 1], s[i]) ELSE G[i - 1]
    <3> SUFFICES ASSUME NEW i \in 0..(n + 1)
                 PROVE  G[i] = IF i = 0 THEN <<>>
                        ELSE IF i \in K THEN Append(G[i - 1], s[i]) ELSE G[i - 1]
      OBVIOUS
    <3>1. CASE i = 0
      BY <2>2, <2>4, <3>1
    <3>2. CASE i \in 1..n
      <4>1. i \in 0..n /\ i - 1 \in 0..n
        BY <3>2
      <4> QED
        BY <2>2, <2>4, <3>2, <4>1
    <3>3. CASE i = n + 1
      <4>1. n \in 0..n /\ i - 1 = n /\ i # 0
        BY <3>3
      <4> QED
        BY <2>2, <2>3, <3>3, <4>1
    <3> QED
      BY <3>1, <3>2, <3>3
  <2>7. Builds(G, s, K, n + 1)
    BY <2>5, <2>6 DEF Builds
  <2> QED
    BY <2>7
<1>3. S = Nat
  <2> HIDE DEF S
  <2>1. S \subseteq Nat
    BY DEF S
  <2> QED
    BY <1>1, <1>2, <2>1, Induction
<1> QED
  BY <1>3

\* Kept(s, K) is the part of s at the places in K.
LEMMA KeptChosen ==
    ASSUME NEW S, NEW s \in Seq(S), NEW K
    PROVE  Kept(s, K) \in Seq(S) /\ Chosen(Kept(s, K), s, K, Len(s))
<1> DEFINE F == CHOOSE F : Builds(F, s, K, Len(s))
<1>1. Builds(F, s, K, Len(s))
  BY BuildsExists
<1>2. Kept(s, K) = F[Len(s)]
  BY DEF Kept, Builds
<1> HIDE DEF F
<1>3. F[0] = <<>> /\ \A i \in 1..Len(s) : F[i] = IF i \in K THEN Append(F[i - 1], s[i]) ELSE F[i - 1]
  BY <1>1, BuildsStep
<1> DEFINE T == {n \in Nat : n <= Len(s) => F[n] \in Seq(S) /\ Chosen(F[n], s, K, n)}
<1>4. 0 \in T
  <2>1. <<>> \in Seq(S) /\ Len(<<>>) = 0 /\ 1..0 = {}
    OBVIOUS
  <2>2. Chosen(<<>>, s, K, 0)
    <3> DEFINE f == [i \in {} |-> i]
    <3>1. f \in [1..Len(<<>>) -> K \cap 1..0]
      BY <2>1
    <3> QED
      BY <2>1, <3>1 DEF Chosen
  <2> QED
    BY <1>3, <2>1, <2>2
<1>5. ASSUME NEW n \in T
      PROVE  n + 1 \in T
  <2> SUFFICES ASSUME n + 1 <= Len(s)
               PROVE  F[n + 1] \in Seq(S) /\ Chosen(F[n + 1], s, K, n + 1)
    OBVIOUS
  <2>1. n \in Nat /\ F[n] \in Seq(S) /\ Chosen(F[n], s, K, n)
    OBVIOUS
  <2>2. n + 1 \in 1..Len(s) /\ s[n + 1] \in S /\ (n + 1) - 1 = n
    BY <2>1
  <2>3. F[n + 1] = IF n + 1 \in K THEN Append(F[n], s[n + 1]) ELSE F[n]
    BY <1>3, <2>2
  <2>4. Chosen(IF n + 1 \in K THEN Append(F[n], s[n + 1]) ELSE F[n], s, K, n + 1)
    BY <2>1, ChosenNext
  <2> QED
    BY <2>1, <2>2, <2>3, <2>4
<1>6. T = Nat
  <2> HIDE DEF T
  <2>1. T \subseteq Nat
    BY DEF T
  <2> QED
    BY <1>4, <1>5, <2>1, Induction
<1>7. Len(s) \in T
  BY <1>6
<1> QED
  BY <1>2, <1>7

(***************************************************************************)
(* Packages in a list, by what tells them apart.                           *)
(***************************************************************************)
Pkg == [kind : Kinds, s : Ids, idx : Nat, n : Nat]

Is(x, sid, k, i, n) == x.s = sid /\ x.kind = k /\ x.idx = i /\ x.n = n
Has(l, sid, k, i, n) == \E j \in DOMAIN l : Is(l[j], sid, k, i, n)

\* One data package before another; a copy of it counts as later too.
LT(i, n, j, m) == i < j /\ n < m
LE(i, n, j, m) == LT(i, n, j, m) \/ (i = j /\ n = m)

Data(x, sid) == x.kind = "data" /\ x.s = sid
Rises(l, sid) == \A i, j \in DOMAIN l :
   i < j /\ Data(l[i], sid) /\ Data(l[j], sid) => LE(l[i].idx, l[i].n, l[j].idx, l[j].n)
Climbs(l, sid) == \A i, j \in DOMAIN l :
   i < j /\ Data(l[i], sid) /\ Data(l[j], sid) => LT(l[i].idx, l[i].n, l[j].idx, l[j].n)

\* A list that has been filtered has what was at the places kept, in order.
LEMMA KeptFacts ==
    ASSUME NEW S, NEW l \in Seq(S), NEW K \in SUBSET (DOMAIN l)
    PROVE  /\ Kept(l, K) \in Seq(S)
           /\ \A sid, k, i, n : Has(Kept(l, K), sid, k, i, n) <=>
                                  \E j \in K : Is(l[j], sid, k, i, n)
           /\ \A sid : Rises(l, sid) => Rises(Kept(l, K), sid)
           /\ \A sid : Climbs(l, sid) => Climbs(Kept(l, K), sid)
           /\ \A x \in DOMAIN Kept(l, K), y \in DOMAIN Kept(l, K) : x < y =>
                 \E i, j \in K : i < j /\ Kept(l, K)[x] = l[i] /\ Kept(l, K)[y] = l[j]
           /\ \A x \in DOMAIN Kept(l, K) : \E i \in K : Kept(l, K)[x] = l[i]
<1> DEFINE t == Kept(l, K)
<1>1. t \in Seq(S) /\ Chosen(t, l, K, Len(l))
  BY KeptChosen
<1> HIDE DEF t
<1>2. PICK f \in [1..Len(t) -> K \cap 1..Len(l)] :
             /\ \A i, j \in 1..Len(t) : i < j => f[i] < f[j]
             /\ \A i \in 1..Len(t) : t[i] = l[f[i]]
             /\ \A k \in K \cap 1..Len(l) : \E i \in 1..Len(t) : f[i] = k
  BY <1>1 DEF Chosen
<1>3. DOMAIN t = 1..Len(t) /\ DOMAIN l = 1..Len(l) /\ K \cap 1..Len(l) = K
  BY <1>1
<1>4. \A i \in DOMAIN t : f[i] \in K /\ f[i] \in DOMAIN l /\ t[i] = l[f[i]]
  BY <1>2, <1>3
<1>5. \A i, j \in DOMAIN t : i < j => f[i] < f[j]
  BY <1>2, <1>3
<1>6. ASSUME NEW sid, NEW k, NEW i, NEW n
      PROVE  Has(t, sid, k, i, n) <=> \E j \in K : Is(l[j], sid, k, i, n)
  <2>1. \A c \in K : \E j \in DOMAIN t : t[j] = l[c]
    BY <1>2, <1>3, <1>4
  <2>2. Has(t, sid, k, i, n) => \E j \in K : Is(l[j], sid, k, i, n)
    BY <1>4 DEF Has
  <2>3. ASSUME NEW j \in K, Is(l[j], sid, k, i, n)
        PROVE  Has(t, sid, k, i, n)
    <3>1. PICK x \in DOMAIN t : t[x] = l[j]
      BY <2>1
    <3> QED
      BY <2>3, <3>1 DEF Has
  <2> QED
    BY <2>2, <2>3
<1>7. ASSUME NEW sid
      PROVE  (Rises(l, sid) => Rises(t, sid)) /\ (Climbs(l, sid) => Climbs(t, sid))
  BY <1>4, <1>5 DEF Rises, Climbs
<1>8. ASSUME NEW x \in DOMAIN t, NEW y \in DOMAIN t, x < y
      PROVE  \E i, j \in K : i < j /\ t[x] = l[i] /\ t[y] = l[j]
  BY <1>4, <1>5, <1>8
<1> QED
  BY <1>1, <1>4, <1>6, <1>7, <1>8 DEF t

LEMMA AddFacts ==
    ASSUME NEW o \in Seq(QPkg), NEW x \in Pkg, chances \in Nat
    PROVE  /\ Add(o, x) \in Seq(QPkg)
           /\ \A sid, k, i, n : Has(o, sid, k, i, n) => Has(Add(o, x), sid, k, i, n)
           /\ \A sid, k, i, n : Has(Add(o, x), sid, k, i, n) =>
                                  Has(o, sid, k, i, n) \/ Is(x, sid, k, i, n)
           /\ \A sid : /\ Climbs(o, sid)
                       /\ Data(x, sid) => \A i, n \in Nat :
                            Has(o, sid, "data", i, n) => LT(i, n, x.idx, x.n)
                       => Climbs(Add(o, x), sid)
           /\ ~Response(x) /\ (\A k \in Kinds \ {"ack"}, n \in Nat : ~Has(o, x.s, k, x.idx, n))
                 => Has(Add(o, x), x.s, x.kind, x.idx, x.n)
           /\ ~Response(x) => \E k \in Kinds \ {"ack"}, n \in Nat : Has(Add(o, x), x.s, k, x.idx, n)
<1>1. CASE \E i \in DOMAIN o : SameKey(o[i], x)
  <2>1. Add(o, x) = o
    BY <1>1 DEF Add
  <2>2. PICK c \in DOMAIN o : SameKey(o[c], x)
    BY <1>1
  <2>3. o[c] \in QPkg
    BY <2>2
  <2>4. ~Response(x) => /\ o[c].kind \in Kinds \ {"ack"} /\ o[c].n \in Nat
                        /\ Has(o, x.s, o[c].kind, x.idx, o[c].n)
    BY <2>2, <2>3 DEF SameKey, Has, Is, QPkg, Response
  <2> QED
    BY <2>1, <2>4
<1>2. CASE ~ \E i \in DOMAIN o : SameKey(o[i], x)
  <2> DEFINE q == Queued(x)
             u == Append(o, q)
  <2>1. q \in QPkg /\ Is(q, x.s, x.kind, x.idx, x.n)
    BY DEF Queued, Is, QPkg, Pkg
  <2>2. /\ u \in Seq(QPkg) /\ u[Len(o) + 1] = q
        /\ DOMAIN u = DOMAIN o \cup {Len(o) + 1} /\ \A i \in DOMAIN o : u[i] = o[i] /\ i < Len(o) + 1
        /\ \A i \in DOMAIN o : i \in Nat /\ o[i] \in QPkg
    <3> HIDE DEF q
    <3>1. q \in QPkg
      BY <2>1
    <3>2. Len(u) = Len(o) + 1 /\ u \in Seq(QPkg) /\ Len(o) \in Nat
      BY <3>1
    <3>3. DOMAIN u = 1..(Len(o) + 1) /\ DOMAIN o = 1..Len(o)
      BY <3>2
    <3> QED
      BY <3>1, <3>2, <3>3
  <2>3. Add(o, x) = u
    BY <1>2 DEF Add
  <2>4. \A sid, k, i, n : Is(q, sid, k, i, n) <=> Is(x, sid, k, i, n)
    BY DEF Queued, Is
  <2> HIDE DEF u, q
  <2>5. ASSUME NEW sid, NEW k, NEW i, NEW n
        PROVE  Has(u, sid, k, i, n) <=> Has(o, sid, k, i, n) \/ Is(x, sid, k, i, n)
    BY <2>2, <2>4 DEF Has
  <2>6. ASSUME NEW sid, Climbs(o, sid),
               Data(x, sid) => \A i, n \in Nat : Has(o, sid, "data", i, n) => LT(i, n, x.idx, x.n)
        PROVE  Climbs(u, sid)
    <3> SUFFICES ASSUME NEW i \in DOMAIN u, NEW j \in DOMAIN u,
                        i < j, Data(u[i], sid), Data(u[j], sid)
                 PROVE  LT(u[i].idx, u[i].n, u[j].idx, u[j].n)
      BY DEF Climbs
    <3>1. i \in DOMAIN o
      BY <2>2
    <3>2. CASE j \in DOMAIN o
      BY <2>2, <2>6, <3>1, <3>2 DEF Climbs
    <3>3. CASE j = Len(o) + 1
      <4>1. u[i] = o[i] /\ u[j] = q /\ o[i] \in QPkg
        BY <2>2, <3>1, <3>3
      <4>2. Data(x, sid) /\ q.idx = x.idx /\ q.n = x.n
        BY <4>1, <2>1 DEF Data, Is
      <4>3. Has(o, sid, "data", o[i].idx, o[i].n) /\ o[i].idx \in Nat /\ o[i].n \in Nat
        BY <3>1, <4>1 DEF Has, Is, Data, QPkg
      <4> QED
        BY <2>6, <4>1, <4>2, <4>3
    <3> QED
      BY <2>2, <3>2, <3>3
  <2>7. ~Response(x) => x.kind \in Kinds \ {"ack"} /\ x.n \in Nat
    BY DEF Response, Pkg
  <2>8. ~Response(x) => \E k \in Kinds \ {"ack"}, n \in Nat : Has(u, x.s, k, x.idx, n)
    BY <2>5, <2>7 DEF Is
  <2> QED
    BY <2>2, <2>3, <2>5, <2>6, <2>8 DEF Is
<1> QED
  BY <1>1, <1>2

LEMMA TailFacts ==
    ASSUME NEW S, NEW l \in Seq(S), l # <<>>
    PROVE  /\ Tail(l) \in Seq(S) /\ Head(l) \in S
           /\ \A sid, k, i, n : Has(Tail(l), sid, k, i, n) => Has(l, sid, k, i, n)
           /\ \A sid, k, i, n : Is(Head(l), sid, k, i, n) => Has(l, sid, k, i, n)
           /\ \A sid : Rises(l, sid) => Rises(Tail(l), sid)
           /\ DOMAIN Tail(l) = 1..(Len(l) - 1) /\ Head(l) = l[1]
           /\ \A i \in DOMAIN Tail(l) : i + 1 \in DOMAIN l /\ Tail(l)[i] = l[i + 1]
<1>1. /\ Tail(l) \in Seq(S) /\ Head(l) = l[1] /\ 1 \in DOMAIN l /\ l[1] \in S
      /\ DOMAIN Tail(l) = 1..(Len(l) - 1)
      /\ \A i \in DOMAIN Tail(l) : i + 1 \in DOMAIN l /\ Tail(l)[i] = l[i + 1] /\ i \in Nat
  OBVIOUS
<1>2. ASSUME NEW sid, NEW k, NEW i, NEW n
      PROVE  /\ Has(Tail(l), sid, k, i, n) => Has(l, sid, k, i, n)
             /\ Is(Head(l), sid, k, i, n) => Has(l, sid, k, i, n)
  BY <1>1 DEF Has
<1>3. ASSUME NEW sid, Rises(l, sid)
      PROVE  Rises(Tail(l), sid)
  BY <1>1, <1>3 DEF Rises
<1> QED
  BY <1>1, <1>2, <1>3

\* A read takes the first n packages of a line.
LEMMA ReadFacts ==
    ASSUME NEW S, NEW l \in Seq(S), NEW m \in DOMAIN l
    PROVE  /\ SubSeq(l, 1, m) \in Seq(S) /\ SubSeq(l, m + 1, Len(l)) \in Seq(S)
           /\ DOMAIN SubSeq(l, 1, m) = 1..m /\ \A i \in 1..m : SubSeq(l, 1, m)[i] = l[i]
           /\ DOMAIN SubSeq(l, m + 1, Len(l)) = 1..(Len(l) - m)
           /\ \A i \in 1..(Len(l) - m) : SubSeq(l, m + 1, Len(l))[i] = l[m + i]
           /\ 1..m \subseteq DOMAIN l /\ \A i \in 1..(Len(l) - m) : m + i \in DOMAIN l
<1>1. m \in Nat /\ m >= 1 /\ m <= Len(l) /\ Len(l) \in Nat /\ DOMAIN l = 1..Len(l)
  OBVIOUS
<1>2. \A i \in 1..Len(l) : l[i] \in S
  OBVIOUS
<1>3. SubSeq(l, 1, m) \in Seq(S) /\ Len(SubSeq(l, 1, m)) = m /\ \A i \in 1..m : SubSeq(l, 1, m)[i] = l[i]
  BY <1>1, <1>2
<1>4. SubSeq(l, m + 1, Len(l)) \in Seq(S) /\ Len(SubSeq(l, m + 1, Len(l))) = Len(l) - m
      /\ \A i \in 1..(Len(l) - m) : SubSeq(l, m + 1, Len(l))[i] = l[m + i]
  BY <1>1, <1>2, SMTT(30)
<1>5. DOMAIN SubSeq(l, 1, m) = 1..m
  BY ONLY <1>3
<1>6. DOMAIN SubSeq(l, m + 1, Len(l)) = 1..(Len(l) - m)
  BY ONLY <1>4
<1>7. 1..m \subseteq DOMAIN l /\ \A i \in 1..(Len(l) - m) : m + i \in DOMAIN l
  BY ONLY <1>1
<1> QED
  BY ONLY <1>3, <1>4, <1>5, <1>6, <1>7

LEMMA EndFacts ==
    ASSUME NEW e \in Ends
    PROVE  /\ Peer(e) \in Ends /\ Peer(Peer(e)) = e /\ Peer(e) # e
           /\ Sid(e) \in Sessions /\ Sid(e) \in Ids /\ Sid(Peer(e)) = Sid(e)
           /\ Base(e) \in Bases /\ Base(e) # Base(Peer(e))
           /\ EndOf(Base(e), Sid(e)) = e /\ Side(e) \in {"host", "daemon"}
           /\ (Side(e) = "host") <=> (Base(e) = "host")
           /\ Side(e) # "host" => Base(e) = Sid(e)
           /\ (Side(Peer(e)) = "host") <=> (Side(e) # "host")
  BY UartAssumption DEF Ends, Peer, Sid, Side, Base, Bases, EndOf, Ids

LEMMA EndsOfSession ==
    ASSUME NEW e \in Ends, NEW f \in Ends
    PROVE  /\ Sid(e) = Sid(f) => f = e \/ f = Peer(e)
           /\ Sid(e) = Sid(f) /\ Base(e) = Base(f) => f = e
  BY UartAssumption DEF Ends, Peer, Sid, Side, Base

LEMMA EndOfFacts ==
    ASSUME NEW b \in Bases, NEW s \in Sessions, b = "host" \/ b = s
    PROVE  EndOf(b, s) \in Ends /\ Base(EndOf(b, s)) = b /\ Sid(EndOf(b, s)) = s
  BY UartAssumption DEF Ends, Sid, Side, Base, Bases, EndOf

\* ClearUARTOutMap drops what is of one session and nothing else.
LEMMA ClearFacts ==
    ASSUME NEW o \in Seq(QPkg), NEW s
    PROVE  /\ Clear(o, s) \in Seq(QPkg)
           /\ \A sid, k, i, n : Has(Clear(o, s), sid, k, i, n) <=> Has(o, sid, k, i, n) /\ sid # s
           /\ \A sid : Climbs(o, sid) => Climbs(Clear(o, s), sid)
<1> DEFINE K == {i \in DOMAIN o : o[i].s # s}
<1>1. K \in SUBSET (DOMAIN o) /\ Clear(o, s) = Kept(o, K)
  BY DEF Clear
<1>2. \A j \in DOMAIN o : j \in K <=> o[j].s # s
  OBVIOUS
<1> HIDE DEF K
<1>3. \A sid, k, i, n : (\E j \in K : Is(o[j], sid, k, i, n)) <=> Has(o, sid, k, i, n) /\ sid # s
  BY <1>1, <1>2 DEF Has, Is
<1> QED
  BY <1>1, <1>3, KeptFacts

\* The loop of the send thread changes what a package waits for, and no more.
LEMMA MarkedFacts ==
    ASSUME NEW o \in Seq(QPkg), NEW goes, NEW K, NEW X
    PROVE  LET m == Marked(o, goes, Again(o, K), X)
           IN  /\ m \in Seq(QPkg) /\ DOMAIN m = DOMAIN o
               /\ \A j \in DOMAIN o : /\ m[j].s = o[j].s /\ m[j].kind = o[j].kind
                                        /\ m[j].idx = o[j].idx /\ m[j].n = o[j].n
               /\ \A sid, k, i, n : \A j \in DOMAIN o : Is(m[j], sid, k, i, n) <=> Is(o[j], sid, k, i, n)
               /\ \A sid : Climbs(o, sid) => Climbs(m, sid)
<1> DEFINE again == Again(o, K)
           m == Marked(o, goes, again, X)
<1>1. DOMAIN o = 1..Len(o) /\ Len(o) \in Nat /\ \A j \in DOMAIN o : o[j] \in QPkg
  OBVIOUS
<1>2. \A j \in again : o[j].retry > 0
  BY DEF Again
<1>3. DOMAIN m = DOMAIN o
  BY DEF Marked
<1>4. \A j \in DOMAIN o : m[j] = IF j \in goes
                                 THEN [o[j] EXCEPT !.status = "wait"]
                                 ELSE IF j \in again
                                 THEN [o[j] EXCEPT !.status = "send", !.retry = @ - 1]
                                 ELSE IF j \in X THEN [o[j] EXCEPT !.status = "late"]
                                 ELSE o[j]
  BY DEF Marked
<1>4a. m = [j \in 1..Len(o) |-> m[j]]
  BY <1>1 DEF Marked
<1> HIDE DEF m, again
<1>5. ASSUME NEW j \in DOMAIN o
      PROVE  /\ m[j] \in QPkg /\ m[j].s = o[j].s /\ m[j].kind = o[j].kind
             /\ m[j].idx = o[j].idx /\ m[j].n = o[j].n
  <2>1. o[j] \in QPkg /\ (j \in again => o[j].retry > 0)
    BY <1>1, <1>2
  <2>2. CASE j \in goes
    BY <1>4, <2>1, <2>2 DEF QPkg
  <2>3. CASE j \notin goes /\ j \in again
    <3>1. o[j].retry - 1 \in Nat
      BY <2>1, <2>3 DEF QPkg
    <3>2. PICK x, r, y : x = o[j] /\ r = o[j].retry - 1 /\ y = m[j]
      OBVIOUS
    <3>3. x \in QPkg /\ r \in Nat
      BY ONLY <2>1, <3>1, <3>2
    <3>4. m[j] = [o[j] EXCEPT !.status = "send", !.retry = @ - 1]
      BY <1>4, <2>3, Zenon
    <3>5. y = [x EXCEPT !.status = "send", !.retry = r]
      BY ONLY <3>2, <3>4, Zenon
    <3>6. y \in QPkg /\ y.s = x.s /\ y.kind = x.kind /\ y.idx = x.idx /\ y.n = x.n
      BY ONLY <3>3, <3>5 DEF QPkg
    <3> QED
      BY ONLY <3>2, <3>6
  <2>4. CASE j \notin goes /\ j \notin again
    BY <1>4, <2>1, <2>4 DEF QPkg
  <2> QED
    BY <2>2, <2>3, <2>4
<1>6. m \in Seq(QPkg)
  BY <1>1, <1>4a, <1>5
<1>7. \A sid, k, i, n : \A j \in DOMAIN o : Is(m[j], sid, k, i, n) <=> Is(o[j], sid, k, i, n)
  BY <1>5 DEF Is
<1>8. \A sid : Climbs(o, sid) => Climbs(m, sid)
  BY <1>3, <1>5 DEF Climbs, Data
<1> QED
  BY <1>3, <1>5, <1>6, <1>7, <1>8 DEF m, again

LEMMA IsSeq ==
    ASSUME NEW S, NEW m \in Nat, NEW v \in [1..m -> S]
    PROVE  v \in Seq(S) /\ Len(v) = m
  OBVIOUS

LEMMA OneSeq ==
    ASSUME NEW S, NEW x \in S
    PROVE  <<x>> \in Seq(S) /\ <<>> \in Seq(S)
  OBVIOUS

LEMMA ConcatFacts ==
    ASSUME NEW S, NEW l \in Seq(S), NEW v \in Seq(S), NEW w, w = l \o v
    PROVE  /\ w \in Seq(S) /\ Len(l) \in Nat /\ Len(v) \in Nat
           /\ DOMAIN l = 1..Len(l) /\ DOMAIN v = 1..Len(v)
           /\ DOMAIN w = 1..(Len(l) + Len(v))
           /\ \A j \in 1..Len(l) : w[j] = l[j] /\ j \in DOMAIN w
           /\ \A j \in 1..Len(v) : w[Len(l) + j] = v[j] /\ Len(l) + j \in DOMAIN w
           /\ \A j \in DOMAIN w :
                 (j \in 1..Len(l) /\ w[j] = l[j]) \/ (j - Len(l) \in 1..Len(v) /\ w[j] = v[j - Len(l)])
<1>1. Len(l) \in Nat /\ Len(v) \in Nat /\ DOMAIN l = 1..Len(l) /\ DOMAIN v = 1..Len(v)
  OBVIOUS
<1>2. w \in Seq(S) /\ DOMAIN w = 1..(Len(l) + Len(v))
  OBVIOUS
<1>3. \A j \in 1..(Len(l) + Len(v)) : w[j] = IF j <= Len(l) THEN l[j] ELSE v[j - Len(l)]
  OBVIOUS
<1>4. ASSUME NEW j \in 1..Len(l)
      PROVE  w[j] = l[j] /\ j \in DOMAIN w
  <2>1. j \in 1..(Len(l) + Len(v)) /\ j <= Len(l)
    BY <1>1
  <2> QED
    BY <1>2, <1>3, <2>1
<1>5. ASSUME NEW j \in 1..Len(v)
      PROVE  w[Len(l) + j] = v[j] /\ Len(l) + j \in DOMAIN w
  <2>1. Len(l) + j \in 1..(Len(l) + Len(v)) /\ ~(Len(l) + j <= Len(l)) /\ (Len(l) + j) - Len(l) = j
    BY <1>1
  <2> QED
    BY <1>2, <1>3, <2>1
<1>6. ASSUME NEW j \in DOMAIN w
      PROVE  \/ j \in 1..Len(l) /\ w[j] = l[j]
             \/ j - Len(l) \in 1..Len(v) /\ w[j] = v[j - Len(l)]
  <2>1. j <= Len(l) => j \in 1..Len(l)
    BY <1>1, <1>2
  <2>2. ~(j <= Len(l)) => j - Len(l) \in 1..Len(v)
    BY <1>1, <1>2
  <2> QED
    BY <1>2, <1>3, <2>1, <2>2
<1> QED
  BY <1>1, <1>2, <1>4, <1>5, <1>6

\* What a pass writes follows what is on the line.
LEMMA WrittenFacts ==
    ASSUME NEW l \in Seq(WPkg), NEW ps \in Seq(QPkg), NEW v \in Seq(WPkg), NEW w, w = l \o v,
           Len(v) = Len(ps), \A i \in 1..Len(ps) : v[i] = OnWire(ps[i], FALSE)
    PROVE  /\ w \in Seq(WPkg) /\ DOMAIN w = 1..(Len(l) + Len(ps))
           /\ \A j \in DOMAIN l : w[j] = l[j]
           /\ \A j \in 1..Len(ps) : w[Len(l) + j] = OnWire(ps[j], FALSE)
           /\ \A j \in DOMAIN w :
                 (j \in DOMAIN l /\ w[j] = l[j]) \/ (j - Len(l) \in 1..Len(ps) /\ w[j] = OnWire(ps[j - Len(l)], FALSE))
           /\ \A sid, k, i, n : Has(w, sid, k, i, n) <=>
                     Has(l, sid, k, i, n) \/ Has(ps, sid, k, i, n)
<1>1. Len(l) \in Nat /\ DOMAIN l = 1..Len(l)
  OBVIOUS
<1>2. DOMAIN ps = 1..Len(ps) /\ Len(ps) \in Nat
  OBVIOUS
<1>6. /\ w \in Seq(WPkg) /\ DOMAIN w = 1..(Len(l) + Len(ps))
      /\ \A j \in 1..Len(l) : w[j] = l[j] /\ j \in DOMAIN w
      /\ \A j \in 1..Len(ps) : w[Len(l) + j] = v[j] /\ Len(l) + j \in DOMAIN w
      /\ \A j \in DOMAIN w :
                 (j \in 1..Len(l) /\ w[j] = l[j]) \/ (j - Len(l) \in 1..Len(ps) /\ w[j] = v[j - Len(l)])
  BY ConcatFacts
<1>7. \A j \in 1..Len(ps) : w[Len(l) + j] = OnWire(ps[j], FALSE)
  BY <1>6
<1>8. \A j \in DOMAIN w :
                 (j \in DOMAIN l /\ w[j] = l[j]) \/ (j - Len(l) \in 1..Len(ps) /\ w[j] = OnWire(ps[j - Len(l)], FALSE))
  BY <1>1, <1>6
<1>9. ASSUME NEW sid, NEW k, NEW i, NEW n
      PROVE  Has(w, sid, k, i, n) <=> Has(l, sid, k, i, n) \/ Has(ps, sid, k, i, n)
  <2>1. \A x : Is(OnWire(x, FALSE), sid, k, i, n) <=> Is(x, sid, k, i, n)
    BY DEF OnWire, Is
  <2>2. Has(w, sid, k, i, n) => Has(l, sid, k, i, n) \/ Has(ps, sid, k, i, n)
    <3> SUFFICES ASSUME NEW j \in DOMAIN w, Is(w[j], sid, k, i, n)
                 PROVE  Has(l, sid, k, i, n) \/ Has(ps, sid, k, i, n)
      BY DEF Has
    <3>1. CASE j \in DOMAIN l /\ w[j] = l[j]
      BY <3>1 DEF Has
    <3>2. CASE j - Len(l) \in 1..Len(ps) /\ w[j] = OnWire(ps[j - Len(l)], FALSE)
      <4>1. j - Len(l) \in DOMAIN ps /\ Is(ps[j - Len(l)], sid, k, i, n)
        BY <1>2, <2>1, <3>2
      <4> QED
        BY ONLY <4>1 DEF Has
    <3> QED
      BY <1>8, <3>1, <3>2
  <2>3. Has(l, sid, k, i, n) => Has(w, sid, k, i, n)
    BY <1>1, <1>6 DEF Has
  <2>4. \A j \in 1..Len(ps) : Len(l) + j \in DOMAIN w
    BY <1>6
  <2>5. ASSUME NEW j \in DOMAIN ps, Is(ps[j], sid, k, i, n)
        PROVE  Has(w, sid, k, i, n)
    <3>1. Len(l) + j \in DOMAIN w /\ w[Len(l) + j] = OnWire(ps[j], FALSE)
      BY <1>2, <1>7, <2>4
    <3> QED
      BY <2>1, <2>5, <3>1 DEF Has
  <2> QED
    BY <2>2, <2>3, <2>5 DEF Has
<1> QED
  BY <1>1, <1>6, <1>7, <1>8, <1>9

\* The line after a pass has written the packages ps.
Wrote(l, ps) == l \o [i \in DOMAIN ps |-> OnWire(ps[i], FALSE)]
Follows(w, l, ps) ==
  /\ w \in Seq(WPkg) /\ DOMAIN w = 1..(Len(l) + Len(ps))
  /\ \A j \in DOMAIN l : w[j] = l[j]
  /\ \A j \in 1..Len(ps) : w[Len(l) + j] = OnWire(ps[j], FALSE)
  /\ \A j \in DOMAIN w :
        (j \in DOMAIN l /\ w[j] = l[j]) \/ (j - Len(l) \in 1..Len(ps) /\ w[j] = OnWire(ps[j - Len(l)], FALSE))
  /\ \A sid, k, i, n : Has(w, sid, k, i, n) <=>
            Has(l, sid, k, i, n) \/ Has(ps, sid, k, i, n)

LEMMA WriteFacts ==
    ASSUME NEW l \in Seq(WPkg), NEW ps \in Seq(QPkg), NEW w, w = Wrote(l, ps)
    PROVE  Follows(w, l, ps)
<1> DEFINE v == [i \in DOMAIN ps |-> OnWire(ps[i], FALSE)]
<1>2. DOMAIN ps = 1..Len(ps) /\ Len(ps) \in Nat /\ \A i \in DOMAIN ps : ps[i] \in QPkg
  OBVIOUS
<1>3. \A i \in DOMAIN ps : OnWire(ps[i], FALSE) \in WPkg
  BY <1>2 DEF OnWire, QPkg, WPkg
<1>4. v \in [1..Len(ps) -> WPkg] /\ \A i \in 1..Len(ps) : v[i] = OnWire(ps[i], FALSE)
  BY <1>2, <1>3
<1>5. w = l \o v
  BY DEF Wrote
<1> HIDE DEF v
<1>6. v \in Seq(WPkg) /\ Len(v) = Len(ps)
  BY <1>2, <1>4, IsSeq
<1>7. v \in Seq(WPkg) /\ Len(v) = Len(ps) /\ w = l \o v
  BY <1>5, <1>6
<1>8. \A i \in 1..Len(ps) : v[i] = OnWire(ps[i], FALSE)
  BY <1>4
<1> QED
  BY <1>7, <1>8, WrittenFacts, ZenonT(60) DEF Follows

LEMMA SlotFacts ==
    ASSUME NEW o, NEW sl \in SUBSET Sessions, NEW s
    PROVE  /\ ClearSlots(o, sl, s) \subseteq sl
           /\ s \in ClearSlots(o, sl, s) => s \in sl /\ \A i \in DOMAIN o : o[i].s = s => Response(o[i])
           /\ \A x \in sl : x # s => x \in ClearSlots(o, sl, s)
  BY DEF ClearSlots

(***************************************************************************)
(* Types.                                                                  *)
(***************************************************************************)
LEMMA InitTypes == Init => TypeOK
<1> SUFFICES ASSUME Init
             PROVE  TypeOK
  OBVIOUS
<1>1. PICK sc \in Scenarios :
        /\ queue = sc.messages /\ stale = sc.stale
        /\ noise = sc.noise /\ chances = sc.retry
        /\ alive = [e \in Ends |-> IF Sid(e) \in sc.connected THEN "live" ELSE "gone"]
        /\ open = sc.connected
  BY DEF Init
<1>2. sc \in [messages : [Ends -> Seq(Nat \ {0})], connected : SUBSET Sessions,
             stale : SUBSET Sessions, noise : Nat, retry : Nat]
  BY UartAssumption
<1>3. /\ queue \in [Ends -> Seq(Nat \ {0})] /\ stale \subseteq Sessions /\ noise \in Nat
      /\ chances \in Nat /\ open \subseteq Sessions
      /\ alive \in [Ends -> {"live", "dead", "gone"}]
  BY <1>1, <1>2
<1>4. OnWire(Package("data", Old, 1, 0), FALSE) \in WPkg
  BY DEF OnWire, Package, WPkg, Kinds, Ids
<1>5. line \in [Ends -> Seq(WPkg)]
  <2>1. <<OnWire(Package("data", Old, 1, 0), FALSE)>> \in Seq(WPkg) /\ <<>> \in Seq(WPkg)
    BY <1>4, OneSeq
  <2> QED
    BY <2>1 DEF Init
<1>6. /\ out \in [Bases -> Seq(QPkg)] /\ buf \in [Ends -> Seq(WPkg)]
      /\ delivered \in [Ends -> Seq(Nat)]
  BY DEF Init
<1>7. /\ slots \in [Bases -> SUBSET Sessions] /\ asleep \subseteq Ends /\ requested \subseteq Bases /\ armed \subseteq Bases
      /\ pc \in [Ends -> {"idle", "slot", "add"}]
      /\ todo \in [Ends -> Nat] /\ head \in [Ends -> Nat]
      /\ \A e \in Ends : todo[e] > 0 <=> pc[e] # "idle"
      /\ index \in [Ends -> Nat] /\ dispatched \in [Ends -> Nat]
      /\ sent \in [Ends -> Nat] /\ broken \subseteq Ends /\ resetIO \subseteq Sessions
  BY DEF Init
<1> QED
  BY <1>3, <1>5, <1>6, <1>7 DEF TypeOK

\* The parts that an action may change; the rest of a state's types.
OutType == /\ out \in [Bases -> Seq(QPkg)] /\ slots \in [Bases -> SUBSET Sessions]
           /\ asleep \subseteq Ends
LinkType == line \in [Ends -> Seq(WPkg)] /\ buf \in [Ends -> Seq(WPkg)]
SendType == /\ requested \subseteq Bases /\ armed \subseteq Bases
            /\ alive \in [Ends -> {"live", "dead", "gone"}] /\ open \subseteq Sessions
WorkType == /\ pc \in [Ends -> {"idle", "slot", "add"}]
            /\ todo \in [Ends -> Nat] /\ head \in [Ends -> Nat] /\ queue \in [Ends -> Seq(Nat \ {0})]
            /\ \A e \in Ends : todo[e] > 0 <=> pc[e] # "idle"
NumberType == /\ index \in [Ends -> Nat] /\ dispatched \in [Ends -> Nat]
              /\ sent \in [Ends -> Nat] /\ delivered \in [Ends -> Seq(Nat)]
              /\ broken \subseteq Ends /\ resetIO \subseteq Sessions /\ stale \subseteq Sessions
              /\ noise \in Nat /\ chances \in Nat

LEMMA TypeParts ==
    /\ TypeOK <=> OutType /\ LinkType /\ SendType /\ WorkType /\ NumberType
    /\ TypeOK' <=> OutType' /\ LinkType' /\ SendType' /\ WorkType' /\ NumberType'
  BY DEF TypeOK, OutType, LinkType, SendType, WorkType, NumberType

LEMMA OutMoves ==
    ASSUME TypeOK, NEW b \in Bases, NEW o \in Seq(QPkg), NEW sl \in SUBSET Sessions,
           out' = [out EXCEPT ![b] = o], slots' = [slots EXCEPT ![b] = sl],
           asleep' \subseteq asleep
    PROVE  OutType'
  BY DEF TypeOK, OutType

\* A slots.Free wakes sleepers, and puts nobody to sleep.
LEMMA NotifyWakes ==
    ASSUME NEW b, NEW K, Notify(b, K)
    PROVE  asleep' \subseteq asleep
  BY DEF Notify

\* What OnTransferError does to the list of packages.
LEMMA ErrorTypes ==
    ASSUME TypeOK, NEW b \in Bases, NEW o \in Seq(QPkg), NEW failed, failed \subseteq Ids,
           TransferError(b, o, failed)
    PROVE  /\ OutType' /\ open' \subseteq Sessions
           /\ alive' \in [Ends -> {"live", "dead", "gone"}]
<1> DEFINE s == CHOOSE x \in failed : TRUE
<1>1. Clear(o, s) \in Seq(QPkg)
  BY ClearFacts
<1>2. ClearSlots(o, slots[b], s) \in SUBSET Sessions
  BY DEF ClearSlots, TypeOK
<1> HIDE DEF s
<1>3. CASE failed = {}
  BY <1>3 DEF TransferError, TypeOK, OutType
<1>4. CASE failed # {}
  <2>1. /\ out' = [out EXCEPT ![b] = Clear(o, s)]
        /\ slots' = [slots EXCEPT ![b] = ClearSlots(o, slots[b], s)]
        /\ alive' = [alive EXCEPT ![EndOf(b, s)] = IF alive[EndOf(b, s)] = "live" THEN "dead" ELSE alive[EndOf(b, s)]]
        /\ open' = IF b = "host" THEN open \ {s} ELSE open
    BY <1>4 DEF TransferError, s
  <2>2. OutType'
    <3>1. asleep' \subseteq asleep
      BY <1>4, NotifyWakes DEF TransferError, s
    <3> QED
      BY <1>1, <1>2, <2>1, <3>1, OutMoves
  <2>3. alive' \in [Ends -> {"live", "dead", "gone"}] /\ open' \subseteq Sessions
    BY <2>1 DEF TypeOK
  <2> QED
    BY <2>2, <2>3
<1> QED
  BY <1>3, <1>4

LEMMA FreeTypes ==
    ASSUME TypeOK, NEW e \in Ends, NEW o \in Seq(QPkg)
    PROVE  AddFree(e, o) \in Seq(QPkg) /\ Package("free", Sid(e), index[e] + 1, 0) \in Pkg
<1>1. index[e] + 1 \in Nat /\ chances \in Nat
  BY DEF TypeOK
<1>2. Package("free", Sid(e), index[e] + 1, 0) \in Pkg
  <2>1. Sid(e) \in Ids
    BY EndFacts DEF Ids
  <2> QED
    BY <1>1, <2>1 DEF Package, Pkg, Kinds
<1> QED
  BY <1>1, <1>2, AddFacts DEF AddFree

LEMMA AckTypes ==
    ASSUME TypeOK, NEW e \in Ends, buf[e] # <<>>, NEW o \in Seq(QPkg)
    PROVE  /\ AddAck(e, o) \in Seq(QPkg) /\ Head(buf[e]) \in WPkg
           /\ Package("ack", Head(buf[e]).s, Head(buf[e]).idx, 0) \in Pkg
           /\ Package("reset", Head(buf[e]).s, 0, 0) \in Pkg
<1>1. Head(buf[e]) \in WPkg /\ chances \in Nat
  BY TailFacts DEF TypeOK
<1>2. /\ Package("ack", Head(buf[e]).s, Head(buf[e]).idx, 0) \in Pkg
      /\ Package("reset", Head(buf[e]).s, 0, 0) \in Pkg
  BY <1>1 DEF Package, Pkg, WPkg, Kinds
<1> QED
  BY <1>1, <1>2, AddFacts DEF AddAck

LEMMA WorkTypes ==
    ASSUME TypeOK, NEW e \in Ends, Work(e)
    PROVE  TypeOK'
<1>0. OutType /\ LinkType /\ SendType /\ WorkType /\ NumberType
  BY TypeParts
<1> USE <1>0
<1>1. CASE StartMessage(e)
  <2>1. OutType' /\ LinkType' /\ SendType' /\ NumberType'
    BY <1>1 DEF StartMessage, OutType, LinkType, SendType, NumberType, transfer, history
  <2>2. queue[e] \in Seq(Nat \ {0}) /\ queue[e] # <<>>
    BY <1>1 DEF StartMessage, WorkType
  <2>3. Head(queue[e]) \in Nat \ {0} /\ Tail(queue[e]) \in Seq(Nat \ {0})
    BY <2>2
  <2> DEFINE h == Head(queue[e])
             q == Tail(queue[e])
  <2>4. /\ pc' = [pc EXCEPT ![e] = "slot"] /\ todo' = [todo EXCEPT ![e] = h]
        /\ queue' = [queue EXCEPT ![e] = q] /\ head' = [head EXCEPT ![e] = index[e] + 1]
    BY <1>1 DEF StartMessage
  <2>5. h \in Nat /\ h > 0 /\ q \in Seq(Nat \ {0}) /\ index[e] + 1 \in Nat
    BY <2>3 DEF NumberType
  <2> HIDE DEF h, q
  <2>6. WorkType'
    BY <2>4, <2>5 DEF WorkType
  <2> QED
    BY <2>1, <2>6, TypeParts
<1>2. CASE TakeSlot(e)
  <2>1. Base(e) \in Bases /\ Sid(e) \in Sessions
    BY EndFacts
  <2>2. OutType' /\ LinkType' /\ SendType' /\ WorkType' /\ NumberType'
    BY <1>2, <2>1 DEF TakeSlot, OutType, LinkType, SendType, WorkType, NumberType, transfer, history
  <2> QED
    BY <2>2, TypeParts
<1>3. CASE AddPackage(e)
  <2>1. Package("data", Sid(e), head[e], sent[e] + 1) \in Pkg
    <3>1. Sid(e) \in Ids
      BY EndFacts
    <3>2. head[e] \in Nat /\ sent[e] + 1 \in Nat
      BY DEF WorkType, NumberType
    <3> QED
      BY <3>1, <3>2 DEF Package, Pkg, Kinds
  <2>2. Base(e) \in Bases /\ out[Base(e)] \in Seq(QPkg) /\ chances \in Nat
    BY EndFacts DEF OutType, NumberType
  <2>3. Add(out[Base(e)], Package("data", Sid(e), head[e], sent[e] + 1)) \in Seq(QPkg)
    BY <2>1, <2>2, AddFacts
  <2>4. OutType'
    BY <1>3, <2>2, <2>3 DEF AddPackage, OutType
  <2>5. LinkType' /\ SendType'
    BY <1>3, <2>2 DEF AddPackage, LinkType, SendType
  <2>6. WorkType' /\ NumberType'
    <3>1. pc[e] = "add" /\ todo[e] \in Nat \ {0} /\ todo[e] - 1 \in Nat
      BY <1>3 DEF AddPackage, WorkType
    <3>2. todo' = [todo EXCEPT ![e] = todo[e] - 1]
      BY <1>3 DEF AddPackage
    <3>3. /\ sent' = [sent EXCEPT ![e] = sent[e] + 1] /\ sent[e] + 1 \in Nat
          /\ UNCHANGED <<queue, dispatched, delivered, broken, resetIO, stale, noise, chances>>
      BY <1>3 DEF AddPackage, NumberType
    <3>4. \/ /\ todo[e] > 1 /\ pc' = [pc EXCEPT ![e] = "slot"] /\ index[e] + 1 \in Nat
             /\ index' = [index EXCEPT ![e] = index[e] + 1]
             /\ head' = [head EXCEPT ![e] = index[e] + 1]
          \/ /\ ~(todo[e] > 1) /\ pc' = [pc EXCEPT ![e] = "idle"] /\ UNCHANGED <<index, head>>
      BY <1>3 DEF AddPackage, NumberType
    <3>5. NumberType'
      BY <3>3, <3>4 DEF NumberType
    <3>6. WorkType'
      <4>1. todo' \in [Ends -> Nat] /\ head' \in [Ends -> Nat]
        BY <3>1, <3>2, <3>4 DEF WorkType
      <4>2. ASSUME NEW f \in Ends
            PROVE  (todo[f] > 0 <=> pc[f] # "idle")'
        BY <3>1, <3>2, <3>4 DEF WorkType
      <4> QED
        BY <3>3, <3>4, <4>1, <4>2 DEF WorkType
    <3> QED
      BY <3>5, <3>6
  <2> QED
    BY <2>4, <2>5, <2>6, TypeParts
<1>4. CASE Sleep(e)
  <2>1. OutType' /\ LinkType' /\ SendType' /\ WorkType' /\ NumberType'
    BY <1>4 DEF Sleep, OutType, LinkType, SendType, WorkType, NumberType, transfer, worker, history
  <2> QED
    BY <2>1, TypeParts
<1> QED
  BY <1>1, <1>2, <1>3, <1>4 DEF Work

LEMMA PassFacts ==
    ASSUME NEW b \in Bases, SendPass(b)
    PROVE  \E X : SendPkgInUARTOutMap(b, X)
  BY DEF SendPass

LEMMA PassTypes ==
    ASSUME TypeOK, NEW b \in Bases, SendPass(b)
    PROVE  TypeOK'
<1>0. OutType /\ LinkType /\ SendType /\ WorkType /\ NumberType
  BY TypeParts
<1> USE <1>0
<1>1. PICK X : SendPkgInUARTOutMap(b, X)
  BY PassFacts
<1> DEFINE o == out[b]
           K == BreaksAt(b, o, X)
           goes == Goes(b, o, X)
           stay == {i \in DOMAIN o : i \in goes => ~Response(o[i])}
           m == Marked(o, goes, Again(o, K), X)
           mine(e) == {i \in goes : o[i].s = Sid(e)}
<1>2. /\ TransferError(b, Kept(m, stay), Failed(b, o, K))
      /\ line' = [e \in Ends |-> IF Base(e) = b THEN WriteUartDev(e, Kept(o, mine(e))) ELSE line[e]]
      /\ requested' \subseteq requested \cup {b}
      /\ armed' \subseteq armed \cup {b}
  BY <1>1 DEF SendPkgInUARTOutMap, TimerAfter, WaitOver
<1>3. UNCHANGED <<worker, index, dispatched, buf, history, resetIO, stale, noise, chances>>
  BY DEF SendPass
<1>4. o \in Seq(QPkg)
  BY DEF OutType
<1>5. Failed(b, o, K) \subseteq Ids
  <2>1. K \subseteq DOMAIN o
    BY DEF BreaksAt
  <2>2. \A i \in DOMAIN o : o[i] \in QPkg
    BY <1>4
  <2> QED
    BY <2>1, <2>2 DEF Failed, QPkg
<1>6. m \in Seq(QPkg) /\ DOMAIN m = DOMAIN o
  BY <1>4, MarkedFacts
<1>7. goes \subseteq DOMAIN o
  BY DEF Goes
<1> HIDE DEF m, K, goes, o
<1>8. Kept(m, stay) \in Seq(QPkg)
  BY <1>6, KeptFacts
<1>9. OutType' /\ open' \subseteq Sessions /\ alive' \in [Ends -> {"live", "dead", "gone"}]
  BY <1>2, <1>5, <1>8, ErrorTypes
<1>10. ASSUME NEW e \in Ends
       PROVE  WriteUartDev(e, Kept(o, mine(e))) \in Seq(WPkg)
  <2>1. mine(e) \in SUBSET (DOMAIN o)
    BY <1>7
  <2> HIDE DEF mine
  <2>2. Kept(o, mine(e)) \in Seq(QPkg)
    BY <1>4, <2>1, KeptFacts
  <2>3. line[e] \in Seq(WPkg)
    BY DEF LinkType
  <2> QED
    BY <2>2, <2>3, WriteFacts DEF WriteUartDev, Wrote, Follows
<1>11. line' \in [Ends -> Seq(WPkg)]
  <2> HIDE DEF mine
  <2> QED
    BY <1>2, <1>10 DEF LinkType
<1>12. LinkType'
  BY <1>3, <1>11 DEF LinkType
<1>13. SendType'
  BY <1>2, <1>9 DEF SendType
<1>14. WorkType' /\ NumberType'
  BY <1>3 DEF WorkType, NumberType, worker, history
<1> QED
  BY <1>9, <1>12, <1>13, <1>14, TypeParts

LEMMA LinkTypes ==
    ASSUME TypeOK, NEW e \in Ends, ReadUartDev(e) \/ Damaged(e) \/ Noise(e)
    PROVE  TypeOK'
<1>0. OutType /\ LinkType /\ SendType /\ WorkType /\ NumberType
  BY TypeParts
<1> USE <1>0
<1>1. CASE ReadUartDev(e)
  <2>1. PICK n \in DOMAIN line[Peer(e)] :
           /\ buf' = [buf EXCEPT ![e] = SubSeq(line[Peer(e)], 1, n)]
           /\ line' = [line EXCEPT ![Peer(e)] = SubSeq(line[Peer(e)], n + 1, Len(line[Peer(e)]))]
    BY <1>1 DEF ReadUartDev
  <2>2. line[Peer(e)] \in Seq(WPkg)
    BY EndFacts DEF LinkType
  <2>3. /\ SubSeq(line[Peer(e)], 1, n) \in Seq(WPkg)
        /\ SubSeq(line[Peer(e)], n + 1, Len(line[Peer(e)])) \in Seq(WPkg)
    BY <2>2, ReadFacts
  <2>4. LinkType'
    BY <2>1, <2>3 DEF LinkType
  <2>5. OutType' /\ SendType' /\ WorkType' /\ NumberType'
    BY <1>1 DEF ReadUartDev, OutType, SendType, WorkType, NumberType, transfer, worker, history
  <2> QED
    BY <2>4, <2>5, TypeParts
<1>2. CASE Damaged(e)
  <2>1. <<>> \in Seq(WPkg)
    OBVIOUS
  <2>2. LinkType'
    BY <1>2, <2>1 DEF Damaged, LinkType
  <2>3. OutType' /\ SendType' /\ WorkType' /\ NumberType'
    BY <1>2 DEF Damaged, OutType, SendType, WorkType, NumberType, transfer, worker, history
  <2> QED
    BY <2>2, <2>3, TypeParts
<1>3. CASE Noise(e)
  <2>1. line[e] \in Seq(WPkg) /\ noise \in Nat /\ noise > 0
    BY <1>3 DEF LinkType, NumberType, Noise
  <2>2. PICK i \in DOMAIN line[e] :
           \/ line' = [line EXCEPT ![e] = Kept(line[e], DOMAIN line[e] \ {i})]
           \/ line' = [line EXCEPT ![e] = [line[e] EXCEPT ![i] = [line[e][i] EXCEPT !.bad = TRUE]]]
    BY <1>3 DEF Noise
  <2>3. Kept(line[e], DOMAIN line[e] \ {i}) \in Seq(WPkg)
    BY <2>1, KeptFacts
  <2>4. [line[e] EXCEPT ![i] = [line[e][i] EXCEPT !.bad = TRUE]] \in Seq(WPkg)
    <3>1. line[e][i] \in WPkg
      BY <2>1
    <3>2. [line[e][i] EXCEPT !.bad = TRUE] \in WPkg
      BY <3>1 DEF WPkg
    <3> QED
      BY <2>1, <3>2
  <2>5. LinkType'
    BY <1>3, <2>2, <2>3, <2>4 DEF Noise, LinkType
  <2>6. noise' \in Nat
    BY <1>3, <2>1 DEF Noise
  <2>7. OutType' /\ SendType' /\ WorkType' /\ NumberType'
    BY <1>3, <2>6 DEF Noise, OutType, SendType, WorkType, NumberType, transfer, worker, history
  <2> QED
    BY <2>5, <2>7, TypeParts
<1> QED
  BY <1>1, <1>2, <1>3

\* What comes to an end.
LEMMA ComesTypes ==
    ASSUME TypeOK, NEW e \in Ends, NEW k, Comes(e, k)
    PROVE  /\ buf[e] # <<>> /\ Head(buf[e]) \in WPkg /\ Tail(buf[e]) \in Seq(WPkg)
           /\ Head(buf[e]).idx \in Nat /\ Head(buf[e]).n \in Nat /\ Head(buf[e]).s \in Ids
           /\ Base(e) \in Bases /\ Sid(e) \in Sessions /\ out[Base(e)] \in Seq(QPkg)
           /\ (buf \in [Ends -> Seq(WPkg)])'
<1>1. buf[e] # <<>> /\ buf[e] \in Seq(WPkg) /\ buf' = [buf EXCEPT ![e] = Tail(buf[e])]
  BY DEF Comes, TypeOK
<1>2. Head(buf[e]) \in WPkg /\ Tail(buf[e]) \in Seq(WPkg)
  BY <1>1, TailFacts
<1>3. Head(buf[e]).idx \in Nat /\ Head(buf[e]).n \in Nat /\ Head(buf[e]).s \in Ids
  BY <1>2 DEF WPkg
<1>4. Base(e) \in Bases /\ Sid(e) \in Sessions
  BY EndFacts
<1>5. out[Base(e)] \in Seq(QPkg)
  BY <1>4 DEF TypeOK
<1>6. buf' \in [Ends -> Seq(WPkg)]
  BY <1>1, <1>2 DEF TypeOK
<1> QED
  BY <1>1, <1>2, <1>3, <1>4, <1>5, <1>6

LEMMA AnswerTypes ==
    ASSUME TypeOK, NEW e \in Ends, Acknowledged(e) \/ Freed(e) \/ Duplicate(e)
    PROVE  TypeOK'
<1>0. OutType /\ LinkType /\ SendType /\ WorkType /\ NumberType
  BY TypeParts
<1> USE <1>0
<1> DEFINE b == Base(e)
           o == out[b]
           s == Sid(e)
<1>1. CASE Acknowledged(e)
  <2> DEFINE Answers(p) == ~Response(p) /\ p.s = Head(buf[e]).s /\ p.idx = Head(buf[e]).idx
             u == Kept(o, {i \in DOMAIN o : ~Answers(o[i])})
             sl == IF \E i \in DOMAIN o : Answers(o[i]) THEN slots[b] \ {Head(buf[e]).s} ELSE slots[b]
  <2>1. Comes(e, "ack") /\ out' = [out EXCEPT ![b] = u] /\ slots' = [slots EXCEPT ![b] = sl]
    BY <1>1 DEF Acknowledged
  <2>2. b \in Bases /\ o \in Seq(QPkg) /\ buf' \in [Ends -> Seq(WPkg)]
    BY <2>1, ComesTypes
  <2>3. u \in Seq(QPkg)
    BY <2>2, KeptFacts
  <2>4. sl \in SUBSET Sessions
    BY <2>2 DEF OutType
  <2> HIDE DEF u, sl
  <2>5. OutType'
    <3>1. asleep' \subseteq asleep
      BY <1>1, NotifyWakes DEF Acknowledged
    <3> QED
      BY <2>1, <2>2, <2>3, <2>4, <3>1, OutMoves
  <2>6. LinkType' /\ SendType' /\ WorkType' /\ NumberType'
    BY <1>1, <2>2 DEF Acknowledged, LinkType, SendType, WorkType, NumberType, worker, history
  <2> QED
    BY <2>5, <2>6, TypeParts
<1>2. CASE Freed(e)
  <2> DEFINE u == AddAck(e, IF Found(b, s) THEN Clear(o, s) ELSE o)
             sl == IF Found(b, s) THEN ClearSlots(o, slots[b], s) ELSE slots[b]
  <2>1. Comes(e, "free") /\ out' = [out EXCEPT ![b] = u] /\ slots' = [slots EXCEPT ![b] = sl]
    BY <1>2 DEF Freed
  <2>2. b \in Bases /\ o \in Seq(QPkg) /\ buf' \in [Ends -> Seq(WPkg)] /\ buf[e] # <<>>
    BY <2>1, ComesTypes
  <2>3. u \in Seq(QPkg)
    BY <2>2, AckTypes, ClearFacts
  <2>4. sl \in SUBSET Sessions
    BY <2>2 DEF OutType, ClearSlots
  <2> HIDE DEF u, sl
  <2>5. OutType'
    <3>1. asleep' \subseteq asleep
      BY <1>2, NotifyWakes DEF Freed
    <3> QED
      BY <2>1, <2>2, <2>3, <2>4, <3>1, OutMoves
  <2>6. LinkType' /\ SendType' /\ WorkType' /\ NumberType'
    BY <1>2, <2>2 DEF Freed, LinkType, SendType, WorkType, NumberType, worker, history
  <2> QED
    BY <2>5, <2>6, TypeParts
<1>3. CASE Duplicate(e)
  <2>1. Comes(e, "data") /\ out' = [out EXCEPT ![b] = AddAck(e, o)]
    BY <1>3 DEF Duplicate
  <2>2. b \in Bases /\ o \in Seq(QPkg) /\ buf' \in [Ends -> Seq(WPkg)] /\ buf[e] # <<>>
    BY <2>1, ComesTypes
  <2>3. AddAck(e, o) \in Seq(QPkg)
    BY <2>2, AckTypes
  <2>5. OutType'
    BY <1>3, <2>1, <2>3 DEF OutType, Duplicate
  <2>6. LinkType' /\ SendType' /\ WorkType' /\ NumberType'
    BY <1>3, <2>2 DEF Duplicate, LinkType, SendType, WorkType, NumberType, worker, history
  <2> QED
    BY <2>5, <2>6, TypeParts
<1> QED
  BY <1>1, <1>2, <1>3

LEMMA DispatchTypes ==
    ASSUME TypeOK, NEW e \in Ends, Dispatched(e) \/ DispatchFails(e) \/ Foreign(e)
    PROVE  TypeOK'
<1>0. OutType /\ LinkType /\ SendType /\ WorkType /\ NumberType
  BY TypeParts
<1> USE <1>0
<1> DEFINE b == Base(e)
           o == out[b]
           x == Head(buf[e])
<1>1. New(e)
  BY DEF Dispatched, DispatchFails, Foreign
<1>2. /\ b \in Bases /\ o \in Seq(QPkg) /\ buf' \in [Ends -> Seq(WPkg)] /\ buf[e] # <<>>
      /\ x.idx \in Nat /\ x.n \in Nat /\ Sid(e) \in Sessions
  BY <1>1, ComesTypes DEF New
<1>3. /\ dispatched' = [dispatched EXCEPT ![e] = x.idx] /\ requested' = requested \cup {b}
      /\ UNCHANGED <<slots, asleep, armed, alive, open, worker, line, sent, stale, noise, chances>>
  BY <1>1 DEF New, Dispatched, DispatchFails, Foreign
<1>4. LinkType' /\ SendType' /\ WorkType'
  BY <1>2, <1>3 DEF LinkType, SendType, WorkType, worker
<1>5. dispatched' \in [Ends -> Nat] /\ sent' \in [Ends -> Nat] /\ stale' \subseteq Sessions
      /\ noise' \in Nat /\ chances' \in Nat
  BY <1>2, <1>3 DEF NumberType
<1>6. AddAck(e, o) \in Seq(QPkg) /\ chances \in Nat /\ index[e] + 1 \in Nat
  BY <1>2, AckTypes DEF NumberType
<1>7. CASE Dispatched(e)
  <2>1. out' = [out EXCEPT ![b] = AddAck(e, o)] /\ delivered' = [delivered EXCEPT ![e] = Append(delivered[e], x.n)]
        /\ UNCHANGED <<index, broken, resetIO>>
    BY <1>7 DEF Dispatched
  <2>2. OutType'
    BY <1>3, <1>6, <2>1 DEF OutType
  <2>3. Append(delivered[e], x.n) \in Seq(Nat)
    BY <1>2 DEF NumberType
  <2>4. NumberType'
    BY <1>5, <2>1, <2>3 DEF NumberType
  <2> QED
    BY <1>4, <2>2, <2>4, TypeParts
<1>8. CASE DispatchFails(e)
  <2>1. /\ out' = [out EXCEPT ![b] = AddFree(e, AddAck(e, o))] /\ index' = [index EXCEPT ![e] = index[e] + 1]
        /\ broken' = broken \cup {e} /\ UNCHANGED <<delivered, resetIO>>
    BY <1>8 DEF DispatchFails
  <2>2. AddFree(e, AddAck(e, o)) \in Seq(QPkg)
    BY <1>6, FreeTypes
  <2>3. OutType'
    BY <1>3, <2>1, <2>2 DEF OutType
  <2>4. NumberType'
    BY <1>5, <1>6, <2>1 DEF NumberType
  <2> QED
    BY <1>4, <2>3, <2>4, TypeParts
<1>9. CASE Foreign(e)
  <2> DEFINE acked == AddAck(e, o)
             Reset == Package("reset", x.s, 0, 0)
             u == IF Sid(e) \in resetIO THEN acked ELSE AddFree(e, Add(acked, Reset))
  <2>1. /\ out' = [out EXCEPT ![b] = u]
        /\ index' = IF Sid(e) \in resetIO THEN index ELSE [index EXCEPT ![e] = index[e] + 1]
        /\ broken' = IF Sid(e) \in resetIO THEN broken ELSE broken \cup {e}
        /\ delivered' = delivered /\ resetIO' = resetIO \cup {Sid(e)}
    BY <1>9 DEF Foreign
  <2>2. Reset \in Pkg
    BY <1>2, AckTypes
  <2> HIDE DEF Reset, acked
  <2>3. Add(acked, Reset) \in Seq(QPkg)
    BY <1>6, <2>2, AddFacts DEF acked
  <2>4. u \in Seq(QPkg)
    BY <1>6, <2>3, FreeTypes DEF acked
  <2> HIDE DEF u
  <2>5. OutType'
    BY <1>3, <2>1, <2>4 DEF OutType
  <2>6. NumberType'
    BY <1>2, <1>5, <1>6, <2>1 DEF NumberType
  <2> QED
    BY <1>4, <2>5, <2>6, TypeParts
<1> QED
  BY <1>7, <1>8, <1>9

LEMMA EndTypes ==
    ASSUME TypeOK, NEW e \in Ends, ReadFails(e) \/ NotUnderstood(e) \/ FreeSessionContinue(e)
    PROVE  TypeOK'
<1>0. OutType /\ LinkType /\ SendType /\ WorkType /\ NumberType
  BY TypeParts
<1> USE <1>0
<1> DEFINE b == Base(e)
           o == out[b]
           s == Sid(e)
<1>1. b \in Bases /\ s \in Sessions /\ s \in Ids
  BY EndFacts
<1>2. o \in Seq(QPkg) /\ slots[b] \in SUBSET Sessions
  BY <1>1 DEF OutType
<1>3. CASE ReadFails(e)
  <2>1. "host" \in Bases /\ out["host"] \in Seq(QPkg)
    BY DEF Bases, OutType
  <2>2. TransferError("host", out["host"], {s}) /\ requested' = requested \cup {"host"}
        /\ UNCHANGED <<armed, worker, index, dispatched, line, buf, history, resetIO, stale, noise, chances>>
    BY <1>3 DEF ReadFails
  <2>3. OutType' /\ open' \subseteq Sessions /\ alive' \in [Ends -> {"live", "dead", "gone"}]
    BY <1>1, <2>1, <2>2, ErrorTypes
  <2>4. LinkType' /\ SendType' /\ WorkType' /\ NumberType'
    BY <2>1, <2>2, <2>3 DEF LinkType, SendType, WorkType, NumberType, worker, history
  <2> QED
    BY <2>3, <2>4, TypeParts
<1>4. CASE NotUnderstood(e)
  <2>1. /\ index' = [index EXCEPT ![e] = index[e] + 1] /\ out' = [out EXCEPT ![b] = AddFree(e, o)]
        /\ requested' = requested \cup {b} /\ alive' = [alive EXCEPT ![e] = "dead"]
        /\ UNCHANGED <<slots, asleep, armed, open, worker, dispatched, line, buf, history, resetIO,
                       stale, noise, chances>>
    BY <1>4 DEF NotUnderstood
  <2>2. AddFree(e, o) \in Seq(QPkg)
    BY <1>2, FreeTypes
  <2>3. OutType'
    BY <2>1, <2>2 DEF OutType
  <2>4. LinkType' /\ SendType' /\ WorkType' /\ NumberType'
    BY <1>1, <2>1, SMTT(30) DEF LinkType, SendType, WorkType, NumberType, worker, history
  <2> QED
    BY <2>3, <2>4, TypeParts
<1>5. CASE FreeSessionContinue(e)
  <2>1. /\ out' = [out EXCEPT ![b] = Clear(o, s)]
        /\ slots' = [slots EXCEPT ![b] = ClearSlots(o, slots[b], s)]
        /\ requested' = requested \cup {b} /\ alive' = [alive EXCEPT ![e] = "gone"]
        /\ UNCHANGED <<armed, open, worker, index, dispatched, line, buf, history, resetIO,
                       stale, noise, chances>>
    BY <1>5 DEF FreeSessionContinue
  <2>2. Clear(o, s) \in Seq(QPkg) /\ ClearSlots(o, slots[b], s) \in SUBSET Sessions
    BY <1>2, ClearFacts DEF ClearSlots
  <2>3. OutType'
    <3>1. asleep' \subseteq asleep
      BY <1>5, NotifyWakes DEF FreeSessionContinue
    <3> QED
      BY <1>1, <2>1, <2>2, <3>1, OutMoves
  <2>4. LinkType' /\ SendType' /\ WorkType' /\ NumberType'
    BY <1>1, <2>1 DEF LinkType, SendType, WorkType, NumberType, worker, history
  <2> QED
    BY <2>3, <2>4, TypeParts
<1> QED
  BY <1>3, <1>4, <1>5

LEMMA NextTypes == TypeOK /\ [Next]_vars => TypeOK'
<1> SUFFICES ASSUME TypeOK, [Next]_vars
             PROVE  TypeOK'
  OBVIOUS
<1>1. ASSUME NEW b \in Bases, SendPass(b)
      PROVE  TypeOK'
  BY <1>1, PassTypes
<1>2. ASSUME NEW e \in Ends, Work(e)
      PROVE  TypeOK'
  BY <1>2, WorkTypes
<1>3. ASSUME NEW e \in Ends, ReadUartDev(e) \/ Damaged(e) \/ Noise(e)
      PROVE  TypeOK'
  BY <1>3, LinkTypes
<1>4. ASSUME NEW e \in Ends, Acknowledged(e) \/ Freed(e) \/ Duplicate(e)
      PROVE  TypeOK'
  BY <1>4, AnswerTypes
<1>5. ASSUME NEW e \in Ends, Dispatched(e) \/ DispatchFails(e) \/ Foreign(e)
      PROVE  TypeOK'
  BY <1>5, DispatchTypes
<1>6. ASSUME NEW e \in Ends, ReadFails(e) \/ NotUnderstood(e) \/ FreeSessionContinue(e)
      PROVE  TypeOK'
  BY <1>6, EndTypes
<1>7. ASSUME NEW s \in Sessions, Disconnect(s)
      PROVE  TypeOK'
  BY <1>7 DEF Disconnect, TypeOK, transfer, worker, history
<1>8. CASE UNCHANGED vars
  BY <1>8 DEF TypeOK, vars, transfer, worker, history
<1> QED
  BY <1>1, <1>2, <1>3, <1>4, <1>5, <1>6, <1>7, <1>8 DEF Next, Process

\* The link layer keeps its types.
THEOREM Types == Spec => []TypeOK
<1>1. Init => TypeOK
  BY InitTypes
<1>2. TypeOK /\ [Next]_vars => TypeOK'
  BY NextTypes
<1> QED
  BY <1>1, <1>2, PTL DEF Spec

(***************************************************************************)
(* Slots.                                                                  *)
(***************************************************************************)
\* A package of session s that waits to be acknowledged is listed.
Asks(o, s) == \E i \in DOMAIN o : o[i].s = s /\ ~Response(o[i])

LEMMA AddKeepsAsks ==
    ASSUME NEW o \in Seq(QPkg), NEW x \in Pkg, NEW s, Asks(o, s)
    PROVE  Asks(Add(o, x), s)
<1>1. CASE \E i \in DOMAIN o : SameKey(o[i], x)
  BY <1>1 DEF Add
<1>2. CASE ~ \E i \in DOMAIN o : SameKey(o[i], x)
  <2> DEFINE q == Queued(x)
  <2>1. Add(o, x) = Append(o, q)
    BY <1>2 DEF Add
  <2> HIDE DEF q
  <2>2. \A i \in DOMAIN o : i \in DOMAIN Append(o, q) /\ Append(o, q)[i] = o[i]
    OBVIOUS
  <2> QED
    BY <2>1, <2>2 DEF Asks
<1> QED
  BY <1>1, <1>2

\* A list that keeps what asks for an answer keeps the slots in order.
LEMMA KeptAsks ==
    ASSUME NEW o \in Seq(QPkg), NEW K \in SUBSET (DOMAIN o), NEW s,
           NEW i \in K, o[i].s = s, ~Response(o[i])
    PROVE  Asks(Kept(o, K), s)
<1>1. Is(o[i], s, o[i].kind, o[i].idx, o[i].n)
  BY DEF Is
<1>2. Has(Kept(o, K), s, o[i].kind, o[i].idx, o[i].n)
  BY <1>1, KeptFacts
<1> QED
  BY <1>2 DEF Has, Is, Asks, Response

LEMMA ClearAsks ==
    ASSUME NEW o \in Seq(QPkg), NEW sl \in SUBSET Sessions, NEW s, NEW x,
           x \in ClearSlots(o, sl, s), Asks(o, x)
    PROVE  x \in sl /\ Asks(Clear(o, s), x)
<1>1. x # s /\ x \in sl
  BY DEF ClearSlots, Asks
<1>2. PICK i \in DOMAIN o : o[i].s = x /\ ~Response(o[i])
  BY DEF Asks
<1> DEFINE K == {j \in DOMAIN o : o[j].s # s}
<1>3. i \in K /\ K \in SUBSET (DOMAIN o) /\ Clear(o, s) = Kept(o, K)
  BY <1>1, <1>2 DEF Clear
<1> HIDE DEF K
<1> QED
  BY <1>1, <1>2, <1>3, KeptAsks

\* A step after which every slot that is still taken was taken before, and
\* what the list asked for under it is still there.
SlotsKept == \A b \in Bases : \A s \in slots'[b] :
               s \in slots[b] /\ (Asks(out[b], s) => Asks(out'[b], s))

LEMMA KeptIsHeld ==
    ASSUME TypeOK, SlotIsHeld, SlotsKept, pc' = pc
    PROVE  SlotIsHeld'
<1> SUFFICES ASSUME NEW e \in Ends, Sid(e) \in slots'[Base(e)]
             PROVE  pc'[e] = "add" \/ Asks(out'[Base(e)], Sid(e))
  BY DEF SlotIsHeld, Asks
<1>1. Base(e) \in Bases
  BY EndFacts
<1> QED
  BY <1>1 DEF SlotIsHeld, SlotsKept, Asks

LEMMA OneBase ==
    ASSUME TypeOK, NEW b \in Bases, NEW o, NEW sl,
           out' = [out EXCEPT ![b] = o], slots' = [slots EXCEPT ![b] = sl],
           \A s \in sl : s \in slots[b] /\ (Asks(out[b], s) => Asks(o, s))
    PROVE  SlotsKept
  BY DEF TypeOK, SlotsKept

LEMMA ErrorKeepsSlots ==
    ASSUME TypeOK, NEW b \in Bases, NEW o \in Seq(QPkg), NEW failed, TransferError(b, o, failed),
           \A s \in Sessions : Asks(out[b], s) => Asks(o, s)
    PROVE  SlotsKept
<1> DEFINE s == CHOOSE x \in failed : TRUE
<1>0. slots[b] \in SUBSET Sessions
  BY DEF TypeOK
<1>1. CASE failed = {}
  <2>1. out' = [out EXCEPT ![b] = o] /\ slots' = [slots EXCEPT ![b] = slots[b]]
    BY <1>1 DEF TransferError, TypeOK
  <2> QED
    BY <1>0, <2>1, OneBase
<1>2. CASE failed # {}
  <2>1. out' = [out EXCEPT ![b] = Clear(o, s)] /\ slots' = [slots EXCEPT ![b] = ClearSlots(o, slots[b], s)]
    BY <1>2 DEF TransferError
  <2> HIDE DEF s
  <2>2. \A x \in ClearSlots(o, slots[b], s) : x \in slots[b]
    BY <1>0, SlotFacts
  <2>3. ASSUME NEW x \in ClearSlots(o, slots[b], s), Asks(out[b], x)
        PROVE  Asks(Clear(o, s), x)
    <3>1. x \in Sessions
      BY <1>0, <2>2
    <3>2. Asks(o, x)
      BY <2>3, <3>1
    <3> QED
      BY <1>0, <3>2, ClearAsks
  <2> QED
    BY <2>1, <2>2, <2>3, OneBase
<1> QED
  BY <1>1, <1>2

LEMMA WorkHeld ==
    ASSUME TypeOK, SlotIsHeld, NEW e \in Ends, Work(e)
    PROVE  SlotIsHeld'
<1>0. /\ Base(e) \in Bases /\ Sid(e) \in Sessions /\ Sid(e) \in Ids
      /\ \A f \in Ends : Base(f) \in Bases /\ (Sid(f) = Sid(e) /\ Base(f) = Base(e) => f = e)
  BY EndFacts, EndsOfSession
<1>1. CASE StartMessage(e)
  <2> SUFFICES ASSUME NEW f \in Ends, Sid(f) \in slots'[Base(f)]
               PROVE  pc'[f] = "add" \/ Asks(out'[Base(f)], Sid(f))
    BY DEF SlotIsHeld, Asks
  <2>1. Sid(f) \in slots[Base(f)] /\ out' = out
    BY <1>1 DEF StartMessage
  <2>2. pc[f] = "add" \/ Asks(out[Base(f)], Sid(f))
    BY <2>1 DEF SlotIsHeld, Asks
  <2>3. pc[f] = "add" => pc'[f] = "add"
    BY <1>1 DEF StartMessage, TypeOK
  <2> QED
    BY <2>1, <2>2, <2>3
<1>2. CASE TakeSlot(e)
  <2> SUFFICES ASSUME NEW f \in Ends, Sid(f) \in slots'[Base(f)]
               PROVE  pc'[f] = "add" \/ Asks(out'[Base(f)], Sid(f))
    BY DEF SlotIsHeld, Asks
  <2>1. CASE f = e
    BY <1>2, <2>1 DEF TakeSlot, TypeOK
  <2>2. CASE f # e
    <3>1. Sid(f) \in slots[Base(f)] /\ out' = out /\ pc'[f] = pc[f]
      BY <1>0, <1>2, <2>2 DEF TakeSlot, TypeOK
    <3> QED
      BY <3>1 DEF SlotIsHeld, Asks
  <2> QED
    BY <2>1, <2>2
<1>3. CASE AddPackage(e)
  <2> DEFINE x == Package("data", Sid(e), head[e], sent[e] + 1)
             o == Add(out[Base(e)], x)
  <2>1. x \in Pkg
    <3>1. head[e] \in Nat /\ sent[e] + 1 \in Nat
      BY DEF TypeOK
    <3> QED
      BY <1>0, <3>1 DEF Package, Pkg, Kinds
  <2>2. out[Base(e)] \in Seq(QPkg) /\ chances \in Nat
    BY <1>0 DEF TypeOK
  <2>3. x.s = Sid(e) /\ ~Response(x)
    BY DEF Package, Response
  <2>4. out' = [out EXCEPT ![Base(e)] = o] /\ slots' = slots /\ \A f \in Ends : f # e => pc'[f] = pc[f]
    BY <1>3 DEF AddPackage, TypeOK
  <2> HIDE DEF x
  <2>5. \E k \in Kinds \ {"ack"}, n \in Nat : Has(o, Sid(e), k, x.idx, n)
    BY <2>1, <2>2, <2>3, AddFacts
  <2>6. Asks(o, Sid(e))
    BY <2>5 DEF Has, Is, Asks, Response
  <2>7. \A s : Asks(out[Base(e)], s) => Asks(o, s)
    BY <2>1, <2>2, AddKeepsAsks
  <2> HIDE DEF o
  <2> SUFFICES ASSUME NEW f \in Ends, Sid(f) \in slots'[Base(f)]
               PROVE  pc'[f] = "add" \/ Asks(out'[Base(f)], Sid(f))
    BY DEF SlotIsHeld, Asks
  <2>8. pc[f] = "add" \/ Asks(out[Base(f)], Sid(f))
    BY <2>4 DEF SlotIsHeld, Asks
  <2>9. Asks(out[Base(f)], Sid(f)) => Asks(out'[Base(f)], Sid(f))
    BY <1>0, <2>4, <2>7 DEF TypeOK
  <2>10. CASE f = e
    BY <1>0, <2>4, <2>6, <2>10 DEF TypeOK
  <2>11. CASE f # e
    BY <2>4, <2>8, <2>9, <2>11
  <2> QED
    BY <2>10, <2>11
<1>4. CASE Sleep(e)
  BY <1>4 DEF Sleep, worker, SlotIsHeld
<1> QED
  BY <1>1, <1>2, <1>3, <1>4 DEF Work

LEMMA PassHeld ==
    ASSUME TypeOK, SlotIsHeld, NEW b \in Bases, SendPass(b)
    PROVE  SlotIsHeld'
<1>1. PICK X : SendPkgInUARTOutMap(b, X)
  BY PassFacts
<1> DEFINE o == out[b]
           K == BreaksAt(b, o, X)
           goes == Goes(b, o, X)
           stay == {i \in DOMAIN o : i \in goes => ~Response(o[i])}
           m == Marked(o, goes, Again(o, K), X)
<1>2. TransferError(b, Kept(m, stay), Failed(b, o, K)) /\ pc' = pc
  BY <1>1 DEF SendPkgInUARTOutMap, SendPass, worker
<1>3. o \in Seq(QPkg)
  BY DEF TypeOK
<1>4. /\ m \in Seq(QPkg) /\ DOMAIN m = DOMAIN o
      /\ \A j \in DOMAIN o : m[j].s = o[j].s /\ m[j].kind = o[j].kind
  BY <1>3, MarkedFacts
<1>5. stay \in SUBSET (DOMAIN o) /\ \A i \in DOMAIN o : ~Response(o[i]) => i \in stay
  OBVIOUS
<1> HIDE DEF m, K, goes, stay
<1>6. Kept(m, stay) \in Seq(QPkg)
  BY <1>4, <1>5, KeptFacts
<1>7. ASSUME NEW s \in Sessions, Asks(o, s)
      PROVE  Asks(Kept(m, stay), s)
  <2>1. PICK i \in DOMAIN o : o[i].s = s /\ ~Response(o[i])
    BY <1>7 DEF Asks
  <2>2. i \in stay /\ m[i].s = s /\ ~Response(m[i])
    BY <1>4, <1>5, <2>1 DEF Response
  <2> QED
    BY <1>4, <1>5, <2>2, KeptAsks
<1>8. SlotsKept
  BY <1>2, <1>6, <1>7, ErrorKeepsSlots
<1> QED
  BY <1>2, <1>8, KeptIsHeld

LEMMA AnswerHeld ==
    ASSUME TypeOK, SlotIsHeld, NEW e \in Ends, Acknowledged(e) \/ Freed(e) \/ Duplicate(e)
    PROVE  SlotIsHeld'
<1> DEFINE b == Base(e)
           o == out[b]
           s == Sid(e)
<1>0. b \in Bases /\ o \in Seq(QPkg) /\ slots[b] \in SUBSET Sessions
  BY EndFacts DEF TypeOK
<1>1. CASE Acknowledged(e)
  <2> DEFINE Answers(p) == ~Response(p) /\ p.s = Head(buf[e]).s /\ p.idx = Head(buf[e]).idx
             K == {i \in DOMAIN o : ~Answers(o[i])}
             sl == IF \E i \in DOMAIN o : Answers(o[i]) THEN slots[b] \ {Head(buf[e]).s} ELSE slots[b]
  <2>1. out' = [out EXCEPT ![b] = Kept(o, K)] /\ slots' = [slots EXCEPT ![b] = sl] /\ pc' = pc
    BY <1>1 DEF Acknowledged, worker
  <2>2. \A x \in sl : x \in slots[b]
    OBVIOUS
  <2>3. ASSUME NEW x \in sl, Asks(o, x)
        PROVE  Asks(Kept(o, K), x)
    <3>1. PICK i \in DOMAIN o : o[i].s = x /\ ~Response(o[i])
      BY <2>3 DEF Asks
    <3>2. ~Answers(o[i])
      BY <3>1
    <3>3. i \in K /\ K \in SUBSET (DOMAIN o)
      BY <3>2
    <3> HIDE DEF K
    <3> QED
      BY <1>0, <3>1, <3>3, KeptAsks
  <2> HIDE DEF K, sl
  <2>4. SlotsKept
    BY <1>0, <2>1, <2>2, <2>3, OneBase
  <2> QED
    BY <2>1, <2>4, KeptIsHeld
<1>2. CASE Freed(e)
  <2> DEFINE c == IF Found(b, s) THEN Clear(o, s) ELSE o
             sl == IF Found(b, s) THEN ClearSlots(o, slots[b], s) ELSE slots[b]
             a == Package("ack", Head(buf[e]).s, Head(buf[e]).idx, 0)
  <2>1. out' = [out EXCEPT ![b] = Add(c, a)] /\ slots' = [slots EXCEPT ![b] = sl] /\ pc' = pc
    BY <1>2 DEF Freed, worker, AddAck
  <2>2. buf[e] # <<>>
    BY <1>2 DEF Freed, Comes
  <2>3. a \in Pkg /\ c \in Seq(QPkg)
    BY <1>0, <2>2, AckTypes, ClearFacts
  <2>4. \A x \in sl : x \in slots[b]
    BY <1>0, SlotFacts
  <2>5. \A x \in sl : Asks(o, x) => Asks(c, x)
    BY <1>0, ClearAsks
  <2> HIDE DEF c, a, sl
  <2>6. \A x \in sl : Asks(c, x) => Asks(Add(c, a), x)
    BY <2>3, AddKeepsAsks
  <2>7. SlotsKept
    BY <1>0, <2>1, <2>4, <2>5, <2>6, OneBase
  <2> QED
    BY <2>1, <2>7, KeptIsHeld
<1>3. CASE Duplicate(e)
  <2> DEFINE a == Package("ack", Head(buf[e]).s, Head(buf[e]).idx, 0)
  <2>1. out' = [out EXCEPT ![b] = Add(o, a)] /\ slots' = [slots EXCEPT ![b] = slots[b]] /\ pc' = pc
    BY <1>3 DEF Duplicate, worker, AddAck, TypeOK
  <2>2. buf[e] # <<>>
    BY <1>3 DEF Duplicate, Comes
  <2>3. a \in Pkg
    BY <1>0, <2>2, AckTypes
  <2> HIDE DEF a
  <2>4. \A x : Asks(o, x) => Asks(Add(o, a), x)
    BY <1>0, <2>3, AddKeepsAsks
  <2>5. SlotsKept
    BY <1>0, <2>1, <2>4, OneBase
  <2> QED
    BY <2>1, <2>5, KeptIsHeld
<1> QED
  BY <1>1, <1>2, <1>3

LEMMA ListGrows ==
    ASSUME TypeOK, SlotIsHeld, NEW b \in Bases, NEW o \in Seq(QPkg),
           out' = [out EXCEPT ![b] = o], slots' = slots, pc' = pc,
           \A s : Asks(out[b], s) => Asks(o, s)
    PROVE  SlotIsHeld'
<1>1. slots' = [slots EXCEPT ![b] = slots[b]]
  BY DEF TypeOK
<1>2. SlotsKept
  BY <1>1, OneBase
<1> QED
  BY <1>2, KeptIsHeld

LEMMA DispatchHeld ==
    ASSUME TypeOK, SlotIsHeld, NEW e \in Ends, Dispatched(e) \/ DispatchFails(e) \/ Foreign(e)
    PROVE  SlotIsHeld'
<1> DEFINE b == Base(e)
           o == out[b]
           a == Package("ack", Head(buf[e]).s, Head(buf[e]).idx, 0)
           r == Package("reset", Head(buf[e]).s, 0, 0)
           f == Package("free", Sid(e), index[e] + 1, 0)
<1>1. b \in Bases /\ o \in Seq(QPkg) /\ chances \in Nat
  BY EndFacts DEF TypeOK
<1>2. buf[e] # <<>>
  BY DEF New, Comes, Dispatched, DispatchFails, Foreign
<1>3. a \in Pkg /\ r \in Pkg /\ f \in Pkg
  BY <1>1, <1>2, AckTypes, FreeTypes
<1>4. /\ slots' = slots /\ pc' = pc
      /\ \/ out' = [out EXCEPT ![b] = Add(o, a)]
         \/ out' = [out EXCEPT ![b] = Add(Add(o, a), f)]
         \/ out' = [out EXCEPT ![b] = Add(Add(Add(o, a), r), f)]
  BY DEF Dispatched, DispatchFails, Foreign, AddAck, AddFree, worker
<1> HIDE DEF a, r, f
<1> DEFINE o1 == Add(o, a)
           o2 == Add(o1, r)
           o3 == Add(o1, f)
           o4 == Add(o2, f)
<1>5. o1 \in Seq(QPkg) /\ \A s : Asks(o, s) => Asks(o1, s)
  BY <1>1, <1>3, AddFacts, AddKeepsAsks
<1> HIDE DEF o1
<1>6. o2 \in Seq(QPkg) /\ \A s : Asks(o1, s) => Asks(o2, s)
  BY <1>1, <1>3, <1>5, AddFacts, AddKeepsAsks
<1>7. o3 \in Seq(QPkg) /\ \A s : Asks(o1, s) => Asks(o3, s)
  BY <1>1, <1>3, <1>5, AddFacts, AddKeepsAsks
<1> HIDE DEF o2
<1>8. o4 \in Seq(QPkg) /\ \A s : Asks(o2, s) => Asks(o4, s)
  BY <1>1, <1>3, <1>6, AddFacts, AddKeepsAsks
<1>9. \A s : Asks(o, s) => Asks(o3, s) /\ Asks(o4, s)
  BY <1>5, <1>6, <1>7, <1>8
<1>10. \/ out' = [out EXCEPT ![b] = o1] \/ out' = [out EXCEPT ![b] = o3]
       \/ out' = [out EXCEPT ![b] = o4]
  BY <1>4 DEF o1, o2
<1> HIDE DEF o3, o4
<1> QED
  BY <1>1, <1>4, <1>5, <1>7, <1>8, <1>9, <1>10, ListGrows

LEMMA EndHeld ==
    ASSUME TypeOK, SlotIsHeld, NEW e \in Ends, ReadFails(e) \/ NotUnderstood(e) \/ FreeSessionContinue(e)
    PROVE  SlotIsHeld'
<1> DEFINE b == Base(e)
           o == out[b]
           s == Sid(e)
<1>1. b \in Bases /\ o \in Seq(QPkg) /\ slots[b] \in SUBSET Sessions /\ chances \in Nat
  BY EndFacts DEF TypeOK
<1>2. CASE ReadFails(e)
  <2>1. "host" \in Bases /\ out["host"] \in Seq(QPkg)
    BY DEF Bases, TypeOK
  <2>2. TransferError("host", out["host"], {s}) /\ pc' = pc
    BY <1>2 DEF ReadFails, worker
  <2>3. SlotsKept
    BY <2>1, <2>2, ErrorKeepsSlots
  <2> QED
    BY <2>2, <2>3, KeptIsHeld
<1>3. CASE NotUnderstood(e)
  <2> DEFINE f == Package("free", s, index[e] + 1, 0)
  <2>1. out' = [out EXCEPT ![b] = Add(o, f)] /\ slots' = slots /\ pc' = pc
    BY <1>3 DEF NotUnderstood, AddFree, worker
  <2>2. f \in Pkg
    BY <1>1, FreeTypes
  <2> HIDE DEF f
  <2>3. Add(o, f) \in Seq(QPkg) /\ \A x : Asks(o, x) => Asks(Add(o, f), x)
    BY <1>1, <2>2, AddFacts, AddKeepsAsks
  <2> QED
    BY <1>1, <2>1, <2>3, ListGrows
<1>4. CASE FreeSessionContinue(e)
  <2>1. /\ out' = [out EXCEPT ![b] = Clear(o, s)] /\ pc' = pc
        /\ slots' = [slots EXCEPT ![b] = ClearSlots(o, slots[b], s)]
    BY <1>4 DEF FreeSessionContinue, worker
  <2>2. \A x \in ClearSlots(o, slots[b], s) : x \in slots[b] /\ (Asks(o, x) => Asks(Clear(o, s), x))
    BY <1>1, SlotFacts, ClearAsks
  <2>3. SlotsKept
    BY <1>1, <2>1, <2>2, OneBase
  <2> QED
    BY <2>1, <2>3, KeptIsHeld
<1> QED
  BY <1>2, <1>3, <1>4

\* A slot is never lost.
THEOREM SlotHeld == Spec => []SlotIsHeld
<1>1. Init => SlotIsHeld
  <2>1. ASSUME Init
        PROVE  SlotIsHeld
    <3>1. \A e \in Ends : Sid(e) \notin slots[Base(e)]
      BY <2>1, EndFacts DEF Init
    <3> QED
      BY <3>1 DEF SlotIsHeld
  <2> QED
    BY <2>1
<1>2. TypeOK /\ SlotIsHeld /\ [Next]_vars => SlotIsHeld'
  <2> SUFFICES ASSUME TypeOK, SlotIsHeld, [Next]_vars
               PROVE  SlotIsHeld'
    OBVIOUS
  <2>1. ASSUME NEW b \in Bases, SendPass(b)
        PROVE  SlotIsHeld'
    BY <2>1, PassHeld
  <2>2. ASSUME NEW e \in Ends, Work(e)
        PROVE  SlotIsHeld'
    BY <2>2, WorkHeld
  <2>3. ASSUME NEW e \in Ends, Acknowledged(e) \/ Freed(e) \/ Duplicate(e)
        PROVE  SlotIsHeld'
    BY <2>3, AnswerHeld
  <2>4. ASSUME NEW e \in Ends, Dispatched(e) \/ DispatchFails(e) \/ Foreign(e)
        PROVE  SlotIsHeld'
    BY <2>4, DispatchHeld
  <2>5. ASSUME NEW e \in Ends, ReadFails(e) \/ NotUnderstood(e) \/ FreeSessionContinue(e)
        PROVE  SlotIsHeld'
    BY <2>5, EndHeld
  <2>6. ASSUME NEW e \in Ends, ReadUartDev(e) \/ Damaged(e) \/ Noise(e)
        PROVE  SlotIsHeld'
    <3>1. UNCHANGED <<out, slots, pc>>
      BY <2>6 DEF ReadUartDev, Damaged, Noise, worker
    <3> QED
      BY <3>1 DEF SlotIsHeld, Response
  <2>7. ASSUME NEW s \in Sessions, Disconnect(s)
        PROVE  SlotIsHeld'
    BY <2>7 DEF Disconnect, SlotIsHeld, Response, worker
  <2>8. CASE UNCHANGED vars
    BY <2>8 DEF SlotIsHeld, Response, vars, worker
  <2> QED
    BY <2>1, <2>2, <2>3, <2>4, <2>5, <2>6, <2>7, <2>8 DEF Next, Process
<1> QED
  BY <1>1, <1>2, Types, PTL DEF Spec

(***************************************************************************)
(* The stream.  Each end e is the sender of one direction.  What it has    *)
(* listed, what is coming to the other end (on the line or read), and the  *)
(* answers under way back, which the other end sends, are related by their *)
(* indices and numbers.                                                    *)
(***************************************************************************)
Listed(e, k, i, n) == Has(out[Base(e)], Sid(e), k, i, n)
Coming(e, k, i, n) == Has(buf[Peer(e)], Sid(e), k, i, n) \/ Has(line[e], Sid(e), k, i, n)
Sent(e, k, i, n) == Listed(e, k, i, n) \/ Coming(e, k, i, n)

Newest(s) == Stream!Newest(s)
N(e) == Newest(delivered[Peer(e)])   \* the newest package that was passed on
D(e) == dispatched[Peer(e)]          \* and the index that counts as such
Busy(e) == pc[e] # "idle"

\* Every index is used once: by a package, or by the one at hand.
Fresh(e) ==
  /\ Busy(e) => head[e] \in 1..index[e]
  /\ \A k \in {"data", "free"}, i, n \in Nat : Sent(e, k, i, n) =>
        i > 0 /\ i <= index[e] /\ (Busy(e) => i # head[e])
  /\ \A i, n \in Nat : Sent(e, "data", i, n) =>
        n > 0 /\ n <= sent[e] /\ (Busy(e) => i < head[e])
  /\ \A i, n \in Nat : Sent(Peer(e), "ack", i, n) =>
        i <= index[e] /\ (Busy(e) => i # head[e])
  /\ \A i, n, j, m \in Nat : Sent(e, "free", i, n) /\ Listed(e, "data", j, m) => i # j

\* Packages are listed and come in the order of their numbers.
Sorted(e) ==
  /\ Rises(buf[Peer(e)], Sid(e)) /\ Rises(line[e], Sid(e)) /\ Climbs(out[Base(e)], Sid(e))
  /\ \A i, n, j, m \in Nat :
        Has(buf[Peer(e)], Sid(e), "data", i, n) /\ Has(line[e], Sid(e), "data", j, m) => LE(i, n, j, m)
  /\ \A i, n, j, m \in Nat :
        Coming(e, "data", i, n) /\ Listed(e, "data", j, m) => LE(i, n, j, m)

\* The index that counts as dispatched tells a copy from a new package.
Once(e) ==
  /\ \A i, n \in Nat : Sent(e, "data", i, n) =>
        /\ D(e) <= i
        /\ D(e) < i => N(e) < n
        /\ D(e) = i => n <= N(e) \/ Peer(e) \in broken
  /\ N(e) <= sent[e]
  /\ D(e) <= index[e] \/ (D(e) = index[e] + 1 /\ Peer(e) \in broken)
  /\ Busy(e) => D(e) < head[e] \/ (D(e) = head[e] /\ Peer(e) \in broken)

\* The other end may miss packages: it has been broken, is no longer there, or
\* the sender is a daemon that has given up and keeps writing.
Over(e) == \/ Peer(e) \in broken \/ alive[Peer(e)] = "gone"
           \/ Side(e) = "daemon" /\ alive[e] # "live"
\* A host whose port is closed writes nothing any more.
Silent(e) == Side(e) = "host" /\ (Sid(e) \notin open \/ alive[e] = "gone")

\* Nothing has been left out: what is not dispatched is listed, no package
\* comes before its turn, and what is answered was passed on.
Unbroken(e) ==
  /\ \A i, n \in Nat : Coming(e, "data", i, n) => n <= N(e) + 1
  /\ ~Silent(e) => \A n \in Nat : N(e) < n /\ n <= sent[e] => \E i \in Nat : Listed(e, "data", i, n)
  /\ \A i, n, m \in Nat : Listed(e, "data", i, n) /\ Sent(Peer(e), "ack", i, m) => n <= N(e)

Direction(e) == Fresh(e) /\ Sorted(e) /\ Once(e) /\ (~Over(e) => Unbroken(e))

\* What is listed and comes, and what answers it, is no more than before.
Fewer(e) ==
  /\ \A k \in {"data", "free"} : \A i, n :
       /\ Listed(e, k, i, n)' => Listed(e, k, i, n)
       /\ Coming(e, k, i, n)' => Sent(e, k, i, n)
  /\ \A i, n : Sent(Peer(e), "ack", i, n)' => Sent(Peer(e), "ack", i, n)

\* Unless the direction is over, what goes on its way is next, and what is
\* still to come stays listed.
Stays(e) ==
  ~Over(e)' =>
    /\ \A i, n \in Nat : Coming(e, "data", i, n)' => n <= N(e) + 1
    /\ ~Silent(e)' => \A i, n \in Nat : N(e) < n /\ Listed(e, "data", i, n) => Listed(e, "data", i, n)'

\* The numbers of a direction do not change.
SameNumbers(e) ==
  /\ Busy(e)' = Busy(e) /\ head'[e] = head[e] /\ index'[e] = index[e] /\ sent'[e] = sent[e]
  /\ N(e)' = N(e) /\ D(e)' = D(e)

\* What is over stays over.
OverStays(e) == /\ broken \subseteq broken' /\ (Over(e) => Over(e)') /\ (Silent(e) => Silent(e)')

LEMMA NumberTypes ==
    ASSUME TypeOK, NEW e \in Ends
    PROVE  /\ head[e] \in Nat /\ index[e] \in Nat /\ sent[e] \in Nat /\ N(e) \in Nat /\ D(e) \in Nat
<1>1. Peer(e) \in Ends
  BY EndFacts
<1>2. delivered[Peer(e)] \in Seq(Nat)
  BY <1>1 DEF TypeOK
<1>3. N(e) \in Nat
  BY <1>2 DEF N, Newest, Stream!Newest
<1> QED
  BY <1>1, <1>3 DEF TypeOK, D

LEMMA Frame ==
    ASSUME TypeOK, TypeOK', NEW e \in Ends, Direction(e), SameNumbers(e), OverStays(e),
           Fewer(e), Sorted(e)', Stays(e)
    PROVE  Direction(e)'
<1>1. Peer(e) \in Ends
  BY EndFacts
<1>2. \A k \in {"data", "free"} : \A i, n : Sent(e, k, i, n)' => Sent(e, k, i, n)
  BY DEF Fewer, Sent
<1>3. \A i, n : Sent(Peer(e), "ack", i, n)' => Sent(Peer(e), "ack", i, n)
  BY DEF Fewer
<1>4. \A k \in {"data", "free"} : \A i, n : Listed(e, k, i, n)' => Listed(e, k, i, n)
  BY DEF Fewer
<1>5. Fresh(e)'
  <2>1. Fresh(e) /\ SameNumbers(e)
    BY DEF Direction
  <2> QED
    BY <1>2, <1>3, <1>4, <2>1 DEF Fresh, SameNumbers
<1>6. Once(e)'
  BY <1>2 DEF Direction, Once, SameNumbers, OverStays
<1>7. ASSUME ~Over(e)'
      PROVE  Unbroken(e)'
  <2>1. ~Over(e) /\ Unbroken(e)
    BY <1>7 DEF OverStays, Direction
  <2> QED
    BY <1>3, <1>4, <1>7, <2>1 DEF Unbroken, Stays, SameNumbers, OverStays
<1> QED
  BY <1>5, <1>6, <1>7 DEF Direction

\* A message begins: the next index is remembered.
LEMMA Begins ==
    ASSUME TypeOK, NEW e \in Ends, Direction(e), Fewer(e), Sorted(e)', Stays(e), OverStays(e),
           ~Busy(e), Busy(e)', index'[e] = index[e] + 1, head'[e] = index[e] + 1,
           sent'[e] = sent[e], N(e)' = N(e), D(e)' = D(e)
    PROVE  Direction(e)'
<1>0. head[e] \in Nat /\ index[e] \in Nat /\ sent[e] \in Nat /\ N(e) \in Nat /\ D(e) \in Nat
  BY NumberTypes
<1>2. \A k \in {"data", "free"} : \A i, n : Sent(e, k, i, n)' => Sent(e, k, i, n)
  BY DEF Fewer, Sent
<1>3. \A i, n : Sent(Peer(e), "ack", i, n)' => Sent(Peer(e), "ack", i, n)
  BY DEF Fewer
<1>4. \A k \in {"data", "free"} : \A i, n : Listed(e, k, i, n)' => Listed(e, k, i, n)
  BY DEF Fewer
<1>5. Fresh(e)'
  <2>1. Fresh(e)
    BY DEF Direction
  <2>2. index[e] + 1 \in 1..(index[e] + 1) /\ \A i \in Nat : i <= index[e] => i < index[e] + 1 /\ i # index[e] + 1
    BY <1>0
  <2> QED
    BY <1>0, <1>2, <1>3, <1>4, <2>1, <2>2 DEF Fresh
<1>6. Once(e)'
  BY <1>0, <1>2 DEF Direction, Once, OverStays
<1>7. ASSUME ~Over(e)'
      PROVE  Unbroken(e)'
  <2>1. ~Over(e) /\ Unbroken(e)
    BY <1>7 DEF OverStays, Direction
  <2> QED
    BY <1>3, <1>4, <1>7, <2>1 DEF Unbroken, Stays, OverStays
<1> QED
  BY <1>5, <1>6, <1>7 DEF Direction

\* A package is listed under the index remembered for it.
LEMMA Lists ==
    ASSUME TypeOK, TypeOK', NEW e \in Ends, Direction(e), Sorted(e)', OverStays(e), Busy(e),
           \A k, i, n : Listed(e, k, i, n)' <=>
             Listed(e, k, i, n) \/ (k = "data" /\ i = head[e] /\ n = sent[e] + 1),
           \A k, i, n : Coming(e, k, i, n)' => Coming(e, k, i, n),
           \A i, n : Sent(Peer(e), "ack", i, n)' => Sent(Peer(e), "ack", i, n),
           sent'[e] = sent[e] + 1, N(e)' = N(e), D(e)' = D(e),
           \/ Busy(e)' /\ index'[e] = index[e] + 1 /\ head'[e] = index[e] + 1
           \/ ~Busy(e)' /\ index'[e] = index[e]
    PROVE  Direction(e)'
<1>0. head[e] \in Nat /\ index[e] \in Nat /\ sent[e] \in Nat /\ N(e) \in Nat /\ D(e) \in Nat
  BY NumberTypes
<1>1. Fresh(e) /\ Once(e)
  BY DEF Direction
<1>2. head[e] > 0 /\ head[e] <= index[e]
  BY <1>0, <1>1 DEF Fresh
<1>3. \A k, i, n : Sent(e, k, i, n)' => Sent(e, k, i, n) \/ (k = "data" /\ i = head[e] /\ n = sent[e] + 1)
  BY DEF Sent
<1>4. \A i \in Nat : i <= index[e] => i <= index'[e] /\ (Busy(e)' => i < head'[e] /\ i # head'[e])
  BY <1>0
<1>5. Fresh(e)'
  <2>1. Busy(e)' => head'[e] \in 1..index'[e]
    BY <1>0
  <2>2. ASSUME NEW k \in {"data", "free"}, NEW i \in Nat, NEW n \in Nat, Sent(e, k, i, n)'
        PROVE  i > 0 /\ i <= index'[e] /\ (Busy(e)' => i # head'[e])
    BY <1>0, <1>1, <1>2, <1>3, <1>4, <2>2 DEF Fresh
  <2>3. ASSUME NEW i \in Nat, NEW n \in Nat, Sent(e, "data", i, n)'
        PROVE  n > 0 /\ n <= sent'[e] /\ (Busy(e)' => i < head'[e])
    BY <1>0, <1>1, <1>2, <1>3, <1>4, <2>3 DEF Fresh
  <2>4. ASSUME NEW i \in Nat, NEW n \in Nat, Sent(Peer(e), "ack", i, n)'
        PROVE  i <= index'[e] /\ (Busy(e)' => i # head'[e])
    BY <1>1, <1>4, <2>4 DEF Fresh
  <2>5. ASSUME NEW i \in Nat, NEW n \in Nat, NEW j \in Nat, NEW m \in Nat,
               Sent(e, "free", i, n)', Listed(e, "data", j, m)'
        PROVE  i # j
    <3>1. Sent(e, "free", i, n)
      BY <1>3, <2>5
    <3> QED
      BY <1>1, <2>5, <3>1 DEF Fresh
  <2> QED
    BY <2>1, <2>2, <2>3, <2>4, <2>5 DEF Fresh
<1>6. Once(e)'
  BY <1>0, <1>1, <1>2, <1>3 DEF Once, OverStays
<1>7. ASSUME ~Over(e)'
      PROVE  Unbroken(e)'
  <2>1. ~Over(e) /\ Unbroken(e)
    BY <1>7 DEF OverStays, Direction
  <2>2. \A i, n \in Nat : Coming(e, "data", i, n)' => n <= N(e)' + 1
    BY <2>1 DEF Unbroken
  <2>3. ASSUME ~Silent(e)', NEW n \in Nat, N(e)' < n, n <= sent'[e]
        PROVE  (\E i \in Nat : Listed(e, "data", i, n))'
    <3>1. ~Silent(e)
      BY <2>3 DEF OverStays
    <3>2. n <= sent[e] \/ n = sent[e] + 1
      BY <1>0, <2>3
    <3> QED
      BY <1>0, <2>1, <2>3, <3>1, <3>2 DEF Unbroken
  <2>4. ASSUME NEW i \in Nat, NEW n \in Nat, NEW m \in Nat,
               Listed(e, "data", i, n)', Sent(Peer(e), "ack", i, m)'
        PROVE  n <= N(e)'
    <3>1. i # head[e]
      BY <1>1, <2>4 DEF Fresh
    <3> QED
      BY <2>1, <2>4, <3>1 DEF Unbroken
  <2> QED
    BY <2>2, <2>3, <2>4 DEF Unbroken
<1> QED
  BY <1>5, <1>6, <1>7 DEF Direction

\* The other side is asked to end the session, under the next index.
LEMMA AsksToEnd ==
    ASSUME TypeOK, TypeOK', NEW e \in Ends, Direction(e), Sorted(e)', OverStays(e), Stays(e),
           \A i, n :
             /\ Listed(e, "data", i, n)' => Listed(e, "data", i, n)
             /\ Coming(e, "data", i, n)' => Sent(e, "data", i, n)
             /\ Sent(e, "free", i, n)' => Sent(e, "free", i, n) \/ i = index[e] + 1
             /\ Sent(Peer(e), "ack", i, n)' => Sent(Peer(e), "ack", i, n),
           index'[e] = index[e] + 1, Busy(e)' = Busy(e), head'[e] = head[e],
           sent'[e] = sent[e], N(e)' = N(e), D(e)' = D(e)
    PROVE  Direction(e)'
<1>0. head[e] \in Nat /\ index[e] \in Nat /\ sent[e] \in Nat /\ N(e) \in Nat /\ D(e) \in Nat
  BY NumberTypes
<1>1. Fresh(e) /\ Once(e)
  BY DEF Direction
<1>2. \A i, n : Sent(e, "data", i, n)' => Sent(e, "data", i, n)
  BY DEF Sent
<1>3. Fresh(e)'
  <2>1. Busy(e)' => head'[e] \in 1..index'[e]
    BY <1>0, <1>1 DEF Fresh
  <2>2. ASSUME NEW k \in {"data", "free"}, NEW i \in Nat, NEW n \in Nat, Sent(e, k, i, n)'
        PROVE  i > 0 /\ i <= index'[e] /\ (Busy(e)' => i # head'[e])
    <3>1. CASE Sent(e, k, i, n)
      BY <1>0, <1>1, <3>1 DEF Fresh
    <3>2. CASE k = "free" /\ i = index[e] + 1
      BY <1>0, <1>1, <3>2 DEF Fresh
    <3> QED
      BY <1>2, <2>2, <3>1, <3>2
  <2>3. ASSUME NEW i \in Nat, NEW n \in Nat, Sent(e, "data", i, n)'
        PROVE  n > 0 /\ n <= sent'[e] /\ (Busy(e)' => i < head'[e])
    BY <1>1, <1>2, <2>3 DEF Fresh
  <2>4. ASSUME NEW i \in Nat, NEW n \in Nat, Sent(Peer(e), "ack", i, n)'
        PROVE  i <= index'[e] /\ (Busy(e)' => i # head'[e])
    BY <1>0, <1>1, <2>4 DEF Fresh
  <2>5. ASSUME NEW i \in Nat, NEW n \in Nat, NEW j \in Nat, NEW m \in Nat,
               Sent(e, "free", i, n)', Listed(e, "data", j, m)'
        PROVE  i # j
    <3>1. Listed(e, "data", j, m) /\ Sent(e, "data", j, m)
      BY <2>5 DEF Sent
    <3>2. j <= index[e]
      BY <1>1, <3>1 DEF Fresh
    <3> QED
      BY <1>0, <1>1, <2>5, <3>1, <3>2 DEF Fresh
  <2> QED
    BY <2>1, <2>2, <2>3, <2>4, <2>5 DEF Fresh
<1>4. Once(e)'
  BY <1>0, <1>1, <1>2 DEF Once, OverStays
<1>5. ASSUME ~Over(e)'
      PROVE  Unbroken(e)'
  <2>1. ~Over(e) /\ Unbroken(e)
    BY <1>5 DEF OverStays, Direction
  <2> QED
    BY <1>5, <2>1 DEF Unbroken, Stays, OverStays
<1> QED
  BY <1>3, <1>4, <1>5 DEF Direction

\* What holds when a package with index x and number m is the next to come.
NextComes(e, x, m) ==
  /\ x \in Nat /\ m \in Nat /\ Coming(e, "data", x, m)
  /\ \A i, n \in Nat : Sent(e, "data", i, n)' => Sent(e, "data", i, n) /\ LE(x, m, i, n)
  /\ \A i, n : Listed(e, "data", i, n)' <=> Listed(e, "data", i, n)
  /\ \A i, n : Coming(e, "data", i, n)' => Coming(e, "data", i, n)
  /\ \A i, n : Sent(e, "free", i, n)' => Sent(e, "free", i, n)
  /\ \A i, n \in Nat : Sent(Peer(e), "ack", i, n)' => Sent(Peer(e), "ack", i, n) \/ i = x
  /\ Sorted(e)' /\ OverStays(e) /\ (Silent(e)' => Silent(e)) /\ Busy(e)' = Busy(e)
  /\ head'[e] = head[e] /\ index'[e] = index[e] /\ sent'[e] = sent[e]

LEMMA ComesFresh ==
    ASSUME TypeOK, NEW e \in Ends, NEW x, NEW m, Direction(e), NextComes(e, x, m)
    PROVE  Fresh(e)' /\ x > 0 /\ x <= index[e] /\ m > 0 /\ m <= sent[e] /\ (Busy(e) => x < head[e])
<1>0. Fresh(e) /\ head[e] \in Nat
  BY NumberTypes DEF Direction
<1>1. x \in Nat /\ m \in Nat /\ Sent(e, "data", x, m)
  BY DEF NextComes, Sent
<1>2. x > 0 /\ x <= index[e] /\ m > 0 /\ m <= sent[e] /\ (Busy(e) => x < head[e])
  BY <1>0, <1>1 DEF Fresh
<1>3. \A k \in {"data", "free"}, i, n \in Nat : Sent(e, k, i, n)' => Sent(e, k, i, n)
  BY DEF NextComes
<1>4. \A i, n \in Nat : Sent(Peer(e), "ack", i, n)' => Sent(Peer(e), "ack", i, n) \/ i = x
  BY DEF NextComes
<1>5. Fresh(e)'
  BY <1>0, <1>1, <1>2, <1>3, <1>4 DEF Fresh, NextComes
<1> QED
  BY <1>2, <1>5

\* The next package is passed on.
LEMMA Passes ==
    ASSUME TypeOK, TypeOK', NEW e \in Ends, NEW x, NEW m, Direction(e), NextComes(e, x, m),
           D(e) # x, D(e)' = x, N(e)' = m
    PROVE  /\ Direction(e)' /\ N(e) < m /\ m <= sent[e] /\ (~Over(e) => m = N(e) + 1)
<1>0. head[e] \in Nat /\ index[e] \in Nat /\ sent[e] \in Nat /\ N(e) \in Nat /\ D(e) \in Nat
  BY NumberTypes
<1>1. Fresh(e)' /\ x > 0 /\ x <= index[e] /\ m > 0 /\ m <= sent[e] /\ (Busy(e) => x < head[e])
  BY ComesFresh
<1>2. Once(e) /\ Sent(e, "data", x, m) /\ x \in Nat /\ m \in Nat
  BY DEF Direction, NextComes, Sent
<1>3. D(e) < x /\ N(e) < m
  BY <1>0, <1>2 DEF Once
<1>4. Once(e)'
  <2>1. ASSUME NEW i \in Nat, NEW n \in Nat, Sent(e, "data", i, n)'
        PROVE  x <= i /\ (x < i => m < n) /\ (x = i => n <= m)
    <3>1. LE(x, m, i, n)
      BY <2>1 DEF NextComes
    <3> QED
      BY <1>2, <3>1 DEF LE, LT
  <2> QED
    BY <1>1, <2>1 DEF Once, NextComes
<1>5. ASSUME ~Over(e)
      PROVE  m = N(e) + 1
  <2>1. m <= N(e) + 1
    BY <1>2, <1>5 DEF Direction, Unbroken, NextComes
  <2> QED
    BY <1>0, <1>2, <1>3, <2>1
<1>6. ASSUME ~Over(e)'
      PROVE  Unbroken(e)'
  <2>1. ~Over(e) /\ Unbroken(e) /\ m = N(e) + 1
    BY <1>5, <1>6 DEF NextComes, OverStays, Direction
  <2>2. \A i, n \in Nat : Coming(e, "data", i, n)' => n <= N(e)' + 1
    <3>1. \A n \in Nat : n <= N(e) + 1 => n <= m + 1
      BY <1>0, <2>1
    <3> QED
      BY <2>1, <3>1 DEF Unbroken, NextComes
  <2>3. ASSUME ~Silent(e)', NEW n \in Nat, N(e)' < n, n <= sent'[e]
        PROVE  (\E i \in Nat : Listed(e, "data", i, n))'
    <3>1. N(e) < n /\ n <= sent[e] /\ ~Silent(e)
      BY <1>0, <1>2, <1>3, <2>3 DEF NextComes, OverStays
    <3> QED
      BY <2>1, <3>1 DEF Unbroken, NextComes
  <2>4. ASSUME NEW i \in Nat, NEW n \in Nat, NEW a \in Nat,
               Listed(e, "data", i, n)', Sent(Peer(e), "ack", i, a)'
        PROVE  n <= m
    <3>1. Listed(e, "data", i, n) /\ Sent(e, "data", i, n)'
      BY <2>4 DEF NextComes, Sent
    <3>2. CASE Sent(Peer(e), "ack", i, a)
      <4>1. n <= N(e)
        BY <2>1, <3>1, <3>2 DEF Unbroken
      <4> QED
        BY <1>0, <1>2, <1>3, <4>1
    <3>3. CASE i = x
      <4>1. LE(x, m, i, n)
        BY <3>1 DEF NextComes
      <4> QED
        BY <1>2, <3>3, <4>1 DEF LE, LT
    <3> QED
      BY <2>4, <3>2, <3>3 DEF NextComes
  <2> QED
    BY <2>2, <2>3, <2>4 DEF Unbroken
<1> QED
  BY <1>1, <1>3, <1>4, <1>5, <1>6 DEF Direction, NextComes

\* The next package cannot be passed on: the end is broken from here on.
LEMMA Loses ==
    ASSUME TypeOK, TypeOK', NEW e \in Ends, NEW x, NEW m, Direction(e), NextComes(e, x, m),
           D(e) # x, D(e)' = x, N(e)' = N(e), Peer(e) \in broken'
    PROVE  Direction(e)'
<1>0. head[e] \in Nat /\ index[e] \in Nat /\ sent[e] \in Nat /\ N(e) \in Nat /\ D(e) \in Nat
  BY NumberTypes
<1>1. Fresh(e)' /\ x > 0 /\ x <= index[e] /\ m > 0 /\ m <= sent[e] /\ (Busy(e) => x < head[e])
  BY ComesFresh
<1>2. Once(e) /\ Sent(e, "data", x, m) /\ x \in Nat /\ m \in Nat
  BY DEF Direction, NextComes, Sent
<1>3. D(e) < x /\ N(e) < m
  BY <1>0, <1>2 DEF Once
<1>4. Once(e)'
  <2>1. ASSUME NEW i \in Nat, NEW n \in Nat, Sent(e, "data", i, n)'
        PROVE  x <= i /\ (x < i => N(e) < n)
    <3>1. LE(x, m, i, n)
      BY <2>1 DEF NextComes
    <3> QED
      BY <1>0, <1>2, <1>3, <3>1 DEF LE, LT
  <2> QED
    BY <1>0, <1>1, <1>2, <2>1 DEF Once, NextComes
<1>5. Over(e)'
  BY DEF Over
<1> QED
  BY <1>1, <1>4, <1>5 DEF Direction, NextComes

\* A copy comes and is answered once more.
LEMMA Repeats ==
    ASSUME TypeOK, TypeOK', NEW e \in Ends, NEW x, NEW m, Direction(e), NextComes(e, x, m),
           D(e) = x \/ Over(e), D(e)' = D(e), N(e)' = N(e)
    PROVE  Direction(e)'
<1>0. head[e] \in Nat /\ index[e] \in Nat /\ sent[e] \in Nat /\ N(e) \in Nat /\ D(e) \in Nat
  BY NumberTypes
<1>1. Fresh(e)'
  BY ComesFresh
<1>2. Once(e)'
  BY DEF Direction, Once, NextComes, OverStays
<1>3. ASSUME ~Over(e)'
      PROVE  Unbroken(e)'
  <2>1. ~Over(e) /\ Unbroken(e) /\ D(e) = x /\ Once(e) /\ Peer(e) \notin broken
    BY <1>3 DEF NextComes, OverStays, Direction, Over
  <2>2. ASSUME NEW i \in Nat, NEW n \in Nat, NEW a \in Nat,
               Listed(e, "data", i, n)', Sent(Peer(e), "ack", i, a)'
        PROVE  n <= N(e)
    <3>1. Listed(e, "data", i, n) /\ Sent(e, "data", i, n)
      BY <2>2 DEF NextComes, Sent
    <3>2. CASE Sent(Peer(e), "ack", i, a)
      BY <2>1, <3>1, <3>2 DEF Unbroken
    <3>3. CASE i = x
      BY <2>1, <3>1, <3>3 DEF Once
    <3> QED
      BY <2>2, <3>2, <3>3 DEF NextComes
  <2> QED
    BY <2>1, <2>2 DEF Unbroken, NextComes, OverStays
<1> QED
  BY <1>1, <1>2, <1>3 DEF Direction, NextComes

\* A direction of which nothing more is listed or comes.
LEMMA SameFrame ==
    ASSUME TypeOK, TypeOK', NEW e \in Ends, Direction(e), SameNumbers(e), OverStays(e), Sorted(e)',
           \A k, i, n : Listed(e, k, i, n)' <=> Listed(e, k, i, n),
           \A k, i, n : Coming(e, k, i, n)' => Coming(e, k, i, n),
           \A i, n : Sent(Peer(e), "ack", i, n)' => Sent(Peer(e), "ack", i, n)
    PROVE  Direction(e)'
<1>1. Fewer(e)
  BY DEF Fewer, Sent
<1>2. Stays(e)
  BY DEF Stays, Direction, Unbroken, OverStays
<1> QED
  BY <1>1, <1>2, Frame

\* What is listed is no more than before, and no more comes.
LEMMA SortedLess ==
    ASSUME TypeOK, NEW e \in Ends, Sorted(e),
           Climbs(out[Base(e)], Sid(e))',
           \A i, n : Listed(e, "data", i, n)' => Listed(e, "data", i, n),
           line'[e] = line[e],
           \/ buf'[Peer(e)] = buf[Peer(e)]
           \/ buf[Peer(e)] # <<>> /\ buf'[Peer(e)] = Tail(buf[Peer(e)])
           \/ buf'[Peer(e)] = <<>>
    PROVE  Sorted(e)' /\ \A k, i, n : Coming(e, k, i, n)' => Coming(e, k, i, n)
<1>1. Peer(e) \in Ends /\ buf[Peer(e)] \in Seq(WPkg)
  BY EndFacts DEF TypeOK
<1>2. /\ \A k, i, n : Has(buf'[Peer(e)], Sid(e), k, i, n) => Has(buf[Peer(e)], Sid(e), k, i, n)
      /\ Rises(buf'[Peer(e)], Sid(e))
  <2>1. Rises(buf[Peer(e)], Sid(e))
    BY DEF Sorted
  <2>2. CASE buf[Peer(e)] # <<>> /\ buf'[Peer(e)] = Tail(buf[Peer(e)])
    BY <1>1, <2>1, <2>2, TailFacts
  <2>3. CASE buf'[Peer(e)] = <<>>
    BY <2>3 DEF Has, Rises
  <2> QED
    BY <2>1, <2>2, <2>3
<1>3. \A k, i, n : Has(line'[e], Sid(e), k, i, n) => Has(line[e], Sid(e), k, i, n)
  OBVIOUS
<1>4. \A k, i, n : Coming(e, k, i, n)' => Coming(e, k, i, n)
  BY <1>2, <1>3 DEF Coming
<1>5. Rises(line'[e], Sid(e))
  BY DEF Sorted
<1> QED
  BY <1>2, <1>3, <1>4, <1>5 DEF Sorted

(***************************************************************************)
(* Whose packages are where.  A daemon's list holds its own session's; a   *)
(* package of the old session comes first, if at all, and to a host that   *)
(* has seen nothing yet.                                                   *)
(***************************************************************************)
IsOld(x) == x.s = Old /\ x.kind = "data" /\ x.idx = 1
Unseen(e) == Side(e) = "daemon" /\ D(e) = 0 /\ N(e) = 0 /\ Sid(e) \notin resetIO
OldOne(e, x) == IsOld(x) /\ Unseen(e)
Own(e) ==
  /\ \A j \in DOMAIN buf[Peer(e)] :
        buf[Peer(e)][j].s = Sid(e) \/ (j = 1 /\ OldOne(e, buf[Peer(e)][1]))
  /\ \A j \in DOMAIN line[e] :
        line[e][j].s = Sid(e) \/ (j = 1 /\ buf[Peer(e)] = <<>> /\ OldOne(e, line[e][1]))
  /\ \A i, n : ~Listed(e, "reset", i, n)
  /\ Side(e) = "daemon" => \A s, k, i, n : Has(out[Base(e)], s, k, i, n) => s = Sid(e)

UInv == TypeOK /\ \A e \in Ends : Own(e) /\ Direction(e)

\* A step of end a leaves the other ends alone.
Still(d) ==
  /\ pc'[d] = pc[d] /\ head'[d] = head[d] /\ index'[d] = index[d] /\ sent'[d] = sent[d]
  /\ delivered'[d] = delivered[d] /\ dispatched'[d] = dispatched[d]
  /\ buf'[d] = buf[d] /\ line'[d] = line[d] /\ alive'[d] = alive[d]
  /\ (d \in broken') = (d \in broken)
  /\ \A k, i, n : Listed(d, k, i, n)' <=> Listed(d, k, i, n)
  /\ Climbs(out[Base(d)], Sid(d)) => Climbs(out[Base(d)], Sid(d))'
  /\ Side(d) = "daemon" => out'[Base(d)] = out[Base(d)]

StepOf(a) ==
  /\ \A d \in Ends \ {a} : Still(d)
  /\ broken \subseteq broken' /\ open' \subseteq open /\ line' = line
  /\ \A s \in Sessions \ {Sid(a)} : s \in open => s \in open'
  /\ \A s \in Sessions \ {Sid(a)} : s \in resetIO' => s \in resetIO
  /\ alive[a] = "gone" => alive'[a] = "gone"
  /\ alive[a] # "live" => alive'[a] # "live"

LEMMA StepKeepsOver ==
    ASSUME NEW a \in Ends, StepOf(a), NEW d \in Ends
    PROVE  OverStays(d)
<1>1. \A f \in Ends : /\ alive[f] = "gone" => alive'[f] = "gone"
                      /\ alive[f] # "live" => alive'[f] # "live"
  BY DEF StepOf, Still
<1>2. Peer(d) \in Ends
  BY EndFacts
<1> QED
  BY <1>1, <1>2 DEF StepOf, OverStays, Over, Silent

\* What a step of one session leaves alone.
LEMMA Elsewhere ==
    ASSUME TypeOK, TypeOK', NEW a \in Ends, StepOf(a), NEW d \in Ends, Sid(d) # Sid(a),
           Own(d), Direction(d)
    PROVE  Own(d)' /\ Direction(d)'
<1>1. Peer(d) \in Ends /\ Peer(d) # a /\ d # a /\ Peer(Peer(d)) = d /\ Sid(Peer(d)) = Sid(d)
  BY EndFacts
<1>2. Still(d) /\ Still(Peer(d))
  BY <1>1 DEF StepOf
<1>3. N(d)' = N(d) /\ D(d)' = D(d)
  BY <1>2 DEF Still, N, D
<1>4. Own(d)'
  <2>1. Sid(d) \in resetIO' => Sid(d) \in resetIO
    BY EndFacts DEF StepOf
  <2>2. \A x : OldOne(d, x) => OldOne(d, x)'
    BY <1>3, <2>1 DEF OldOne, Unseen
  <2>3. /\ \A j \in DOMAIN buf'[Peer(d)] :
              buf'[Peer(d)][j].s = Sid(d) \/ (j = 1 /\ OldOne(d, buf[Peer(d)][1])')
        /\ \A j \in DOMAIN line'[d] :
              line'[d][j].s = Sid(d) \/ (j = 1 /\ buf'[Peer(d)] = <<>> /\ OldOne(d, line[d][1])')
    <3>1. buf'[Peer(d)] = buf[Peer(d)] /\ line'[d] = line[d]
      BY <1>2 DEF Still
    <3> QED
      BY <2>2, <3>1 DEF Own, OldOne
  <2>4. \A i, n : ~Listed(d, "reset", i, n)'
    BY <1>2 DEF Still, Own
  <2> QED
    BY <1>2, <2>3, <2>4 DEF Own, Still
<1>5. SameNumbers(d)
  BY <1>2, <1>3 DEF SameNumbers, Still, Busy
<1>6. OverStays(d)
  BY StepKeepsOver
<1>7. Sorted(d)' /\ \A k, i, n : Coming(d, k, i, n)' => Coming(d, k, i, n)
  <2>1. Sorted(d) /\ Climbs(out[Base(d)], Sid(d))'
    BY <1>2 DEF Direction, Sorted, Still
  <2> QED
    BY <1>2, <2>1, SortedLess DEF Still
<1>8. \A i, n : Sent(Peer(d), "ack", i, n)' => Sent(Peer(d), "ack", i, n)
  BY <1>1, <1>2 DEF Sent, Coming, Still
<1>9. \A k, i, n : Listed(d, k, i, n)' <=> Listed(d, k, i, n)
  BY <1>2 DEF Still
<1> QED
  BY <1>4, <1>5, <1>6, <1>7, <1>8, <1>9, SameFrame

\* A step that changes no list but that of a, and nothing there that is of
\* another session.
Variables(d) ==
  /\ pc'[d] = pc[d] /\ head'[d] = head[d] /\ index'[d] = index[d] /\ sent'[d] = sent[d]
  /\ delivered'[d] = delivered[d] /\ dispatched'[d] = dispatched[d]
  /\ buf'[d] = buf[d] /\ line'[d] = line[d] /\ alive'[d] = alive[d]
  /\ (d \in broken') = (d \in broken)

Others(o, q, sid) ==
  \A s \in Sessions : s # sid =>
     /\ \A k, i, n : Has(q, s, k, i, n) <=> Has(o, s, k, i, n)
     /\ Climbs(o, s) => Climbs(q, s)

LEMMA AllStill ==
    ASSUME TypeOK, NEW a \in Ends, NEW o \in Seq(QPkg), out' = [out EXCEPT ![Base(a)] = o],
           Others(out[Base(a)], o, Sid(a)), \A d \in Ends \ {a} : Variables(d)
    PROVE  /\ \A d \in Ends \ {a} : Still(d)
           /\ out'[Base(a)] = o
<1>1. out'[Base(a)] = o /\ \A b \in Bases : b # Base(a) => out'[b] = out[b]
  BY EndFacts DEF TypeOK
<1>2. ASSUME NEW d \in Ends, d # a
      PROVE  Still(d)
  <2>1. Base(d) \in Bases /\ Sid(d) \in Sessions
    BY EndFacts
  <2>2. Side(d) = "daemon" => Base(d) # Base(a)
    BY <1>2, UartAssumption DEF Ends, Side, Base, Sid
  <2>3. Variables(d)
    BY <1>2
  <2>4. CASE Base(d) # Base(a)
    BY <1>1, <2>1, <2>3, <2>4 DEF Still, Variables, Listed
  <2>5. CASE Base(d) = Base(a)
    <3>1. Sid(d) # Sid(a)
      BY <1>2, <2>5, EndsOfSession
    <3> QED
      BY <1>1, <2>1, <2>2, <2>3, <2>5, <3>1 DEF Still, Variables, Listed, Others
  <2> QED
    BY <2>4, <2>5
<1> QED
  BY <1>1, <1>2

LEMMA SameLists ==
    ASSUME TypeOK, NEW a \in Ends, out' = out, \A d \in Ends \ {a} : Variables(d)
    PROVE  \A d \in Ends \ {a} : Still(d)
<1>1. out[Base(a)] \in Seq(QPkg) /\ out' = [out EXCEPT ![Base(a)] = out[Base(a)]]
  BY EndFacts DEF TypeOK
<1>2. Others(out[Base(a)], out[Base(a)], Sid(a))
  BY DEF Others
<1> QED
  BY <1>1, <1>2, AllStill

\* Own after a step of a: what a sends, and what comes to it.
LEMMA OwnSends ==
    ASSUME TypeOK, NEW a \in Ends, StepOf(a), Own(a),
           Side(a) = "host" \/ (Sid(a) \in resetIO' => Sid(a) \in resetIO),
           \A i, n : ~Listed(a, "reset", i, n)',
           Side(a) = "daemon" => \A s, k, i, n : Has(out'[Base(a)], s, k, i, n) => s = Sid(a)
    PROVE  Own(a)'
<1>1. Peer(a) \in Ends \ {a} /\ Still(Peer(a)) /\ line'[a] = line[a]
  BY EndFacts DEF StepOf
<1>2. N(a)' = N(a) /\ D(a)' = D(a)
  BY <1>1 DEF Still, N, D
<1>3. \A x : OldOne(a, x) => OldOne(a, x)'
  BY <1>2 DEF OldOne, Unseen
<1>4. buf'[Peer(a)] = buf[Peer(a)]
  BY <1>1 DEF Still
<1> QED
  BY <1>1, <1>3, <1>4 DEF Own, OldOne

LEMMA OwnKeeps ==
    ASSUME TypeOK, NEW a \in Ends, StepOf(a), Own(Peer(a)), buf'[a] = buf[a],
           delivered'[a] = delivered[a], dispatched'[a] = dispatched[a], resetIO' = resetIO
    PROVE  Own(Peer(a))'
<1>1. Peer(a) \in Ends \ {a} /\ Still(Peer(a)) /\ Peer(Peer(a)) = a /\ line' = line
  BY EndFacts DEF StepOf
<1>2. N(Peer(a))' = N(Peer(a)) /\ D(Peer(a))' = D(Peer(a))
  BY <1>1 DEF N, D
<1>3. \A x : OldOne(Peer(a), x) => OldOne(Peer(a), x)'
  BY <1>2 DEF OldOne, Unseen
<1> QED
  BY <1>1, <1>3 DEF Own, OldOne, Still

LEMMA OwnTakes ==
    ASSUME TypeOK, NEW a \in Ends, StepOf(a), Own(Peer(a)), buf[a] # <<>>,
           buf'[a] = Tail(buf[a]) \/ buf'[a] = <<>>
    PROVE  Own(Peer(a))'
<1>1. Peer(a) \in Ends \ {a} /\ Still(Peer(a)) /\ Peer(Peer(a)) = a /\ line' = line
  BY EndFacts DEF StepOf
<1>2. \A j \in DOMAIN buf'[a] : buf'[a][j].s = Sid(Peer(a))
  <2>1. CASE buf'[a] = Tail(buf[a])
    <3>1. buf[a] \in Seq(WPkg)
      BY DEF TypeOK
    <3>2. /\ DOMAIN Tail(buf[a]) = 1..(Len(buf[a]) - 1)
          /\ \A i \in DOMAIN Tail(buf[a]) : i + 1 \in DOMAIN buf[a] /\ Tail(buf[a])[i] = buf[a][i + 1]
      BY <3>1, TailFacts
    <3> QED
      BY <1>1, <2>1, <3>2 DEF Own
  <2>2. CASE buf'[a] = <<>>
    BY <2>2
  <2> QED
    BY <2>1, <2>2
<1>3. \A j \in DOMAIN line'[Peer(a)] : line'[Peer(a)][j].s = Sid(Peer(a))
  BY <1>1 DEF Own
<1> QED
  BY <1>1, <1>2, <1>3 DEF Own, Still

\* The other direction, where a step of a takes nothing and answers nothing.
LEMMA OtherWay ==
    ASSUME TypeOK, TypeOK', NEW a \in Ends, StepOf(a), Direction(Peer(a)), buf'[a] = buf[a],
           delivered'[a] = delivered[a], dispatched'[a] = dispatched[a],
           \A i, n : Listed(a, "ack", i, n)' => Listed(a, "ack", i, n)
    PROVE  Direction(Peer(a))'
<1>1. /\ Peer(a) \in Ends \ {a} /\ Still(Peer(a)) /\ Peer(Peer(a)) = a
      /\ line' = line /\ Sid(Peer(a)) = Sid(a)
  BY EndFacts DEF StepOf
<1> DEFINE p == Peer(a)
<1>2. SameNumbers(p)
  BY <1>1 DEF Still, SameNumbers, Busy, N, D
<1>3. OverStays(p)
  BY <1>1, StepKeepsOver
<1>4. Sorted(p)' /\ \A k, i, n : Coming(p, k, i, n)' => Coming(p, k, i, n)
  <2>1. Sorted(p) /\ Climbs(out[Base(p)], Sid(p))'
    BY <1>1 DEF Direction, Sorted, Still
  <2> QED
    BY <1>1, <2>1, SortedLess DEF Still
<1>5. \A i, n : Sent(a, "ack", i, n)' => Sent(a, "ack", i, n)
  BY <1>1 DEF Sent, Coming, Still
<1>6. \A k, i, n : Listed(p, k, i, n)' <=> Listed(p, k, i, n)
  BY <1>1 DEF Still
<1> QED
  BY <1>1, <1>2, <1>3, <1>4, <1>5, <1>6, SameFrame

LEMMA Together ==
    ASSUME UInv, TypeOK', NEW a \in Ends, StepOf(a), Own(a)', Own(Peer(a))',
           Direction(a)', Direction(Peer(a))'
    PROVE  UInv'
<1> SUFFICES ASSUME NEW d \in Ends
             PROVE  Own(d)' /\ Direction(d)'
  BY DEF UInv
<1>1. CASE Sid(d) # Sid(a)
  BY <1>1, Elsewhere DEF UInv
<1>2. CASE Sid(d) = Sid(a)
  BY <1>2, EndsOfSession
<1> QED
  BY <1>1, <1>2

\* What a has listed is in order, and comes in order, when its list is less.
LEMMA SendsLess ==
    ASSUME TypeOK, TypeOK', NEW a \in Ends, StepOf(a), Direction(a),
           Climbs(out[Base(a)], Sid(a))',
           \A k, i, n : k # "ack" => (Listed(a, k, i, n)' => Listed(a, k, i, n))
    PROVE  /\ Sorted(a)' /\ OverStays(a)
           /\ \A k, i, n : Coming(a, k, i, n)' => Coming(a, k, i, n)
           /\ N(a)' = N(a) /\ D(a)' = D(a)
<1>1. Peer(a) \in Ends \ {a} /\ Still(Peer(a)) /\ line' = line
  BY EndFacts DEF StepOf
<1>2. Sorted(a)' /\ \A k, i, n : Coming(a, k, i, n)' => Coming(a, k, i, n)
  BY <1>1, SortedLess DEF Direction, Still
<1> QED
  BY <1>1, <1>2, StepKeepsOver DEF N, D, Still

\* The answers under way to a, when nothing is added at the other end.
LEMMA AnswersLess ==
    ASSUME TypeOK, NEW a \in Ends, StepOf(a),
           \/ buf'[a] = buf[a]
           \/ buf[a] # <<>> /\ buf'[a] = Tail(buf[a])
           \/ buf'[a] = <<>>
    PROVE  \A i, n : Sent(Peer(a), "ack", i, n)' => Sent(Peer(a), "ack", i, n)
<1>1. Peer(a) \in Ends \ {a} /\ Still(Peer(a)) /\ line' = line /\ Peer(Peer(a)) = a
  BY EndFacts DEF StepOf
<1>2. buf[a] \in Seq(WPkg)
  BY DEF TypeOK
<1>3. \A k, i, n : Has(buf'[a], Sid(Peer(a)), k, i, n) => Has(buf[a], Sid(Peer(a)), k, i, n)
  <2>1. CASE buf[a] # <<>> /\ buf'[a] = Tail(buf[a])
    BY <1>2, <2>1, TailFacts
  <2>2. CASE buf'[a] = <<>>
    BY <2>2 DEF Has
  <2> QED
    BY <2>1, <2>2
<1> QED
  BY <1>1, <1>3 DEF Sent, Coming, Still

(***************************************************************************)
(* The work thread.                                                        *)
(***************************************************************************)
LEMMA StartKeeps ==
    ASSUME UInv, NEW e \in Ends, StartMessage(e)
    PROVE  UInv'
<1>0. TypeOK /\ TypeOK' /\ Own(e) /\ Own(Peer(e)) /\ Direction(e) /\ Direction(Peer(e))
  BY WorkTypes, EndFacts DEF UInv, Work
<1>1. /\ pc[e] = "idle" /\ pc' = [pc EXCEPT ![e] = "slot"]
      /\ index' = [index EXCEPT ![e] = @ + 1] /\ head' = [head EXCEPT ![e] = index[e] + 1]
      /\ UNCHANGED <<out, alive, open, dispatched, line, buf, history, resetIO>>
  BY DEF StartMessage
<1>2. \A d \in Ends \ {e} : Variables(d)
  BY <1>0, <1>1 DEF Variables, history, TypeOK
<1>3. StepOf(e)
  BY <1>0, <1>1, <1>2, SameLists DEF StepOf, history
<1>4. \A k, i, n : Listed(e, k, i, n)' <=> Listed(e, k, i, n)
  BY <1>1 DEF Listed
<1>5. Own(e)' /\ Own(Peer(e))' /\ Direction(Peer(e))'
  <2>1. Own(e)'
    BY <1>0, <1>1, <1>3, <1>4, OwnSends DEF Own
  <2> QED
    BY <1>0, <1>1, <1>3, <1>4, <2>1, OwnKeeps, OtherWay DEF history
<1>6. /\ Sorted(e)' /\ OverStays(e) /\ N(e)' = N(e) /\ D(e)' = D(e)
      /\ \A k, i, n : Coming(e, k, i, n)' => Coming(e, k, i, n)
      /\ \A i, n : Sent(Peer(e), "ack", i, n)' => Sent(Peer(e), "ack", i, n)
  <2>1. Climbs(out[Base(e)], Sid(e))'
    BY <1>0, <1>1 DEF Direction, Sorted
  <2> QED
    BY <1>0, <1>1, <1>3, <1>4, <2>1, SendsLess, AnswersLess
<1>7. Fewer(e) /\ Stays(e)
  BY <1>0, <1>4, <1>6 DEF Fewer, Stays, Sent, Direction, Unbroken, OverStays
<1>8. ~Busy(e) /\ Busy(e)' /\ index'[e] = index[e] + 1 /\ head'[e] = index[e] + 1 /\ sent'[e] = sent[e]
  BY <1>0, <1>1 DEF Busy, TypeOK, history
<1>9. Direction(e)'
  BY <1>0, <1>6, <1>7, <1>8, Begins
<1> QED
  BY <1>0, <1>3, <1>5, <1>9, Together

LEMMA SlotKeeps ==
    ASSUME UInv, NEW e \in Ends, TakeSlot(e)
    PROVE  UInv'
<1>0. TypeOK /\ TypeOK' /\ Own(e) /\ Own(Peer(e)) /\ Direction(e) /\ Direction(Peer(e))
  BY WorkTypes, EndFacts DEF UInv, Work
<1>1. /\ pc[e] = "slot" /\ pc' = [pc EXCEPT ![e] = "add"]
      /\ UNCHANGED <<out, alive, open, head, index, dispatched, line, buf, history, resetIO>>
  BY DEF TakeSlot
<1>2. \A d \in Ends \ {e} : Variables(d)
  BY <1>0, <1>1 DEF Variables, history, TypeOK
<1>3. StepOf(e)
  BY <1>0, <1>1, <1>2, SameLists DEF StepOf, history
<1>4. \A k, i, n : Listed(e, k, i, n)' <=> Listed(e, k, i, n)
  BY <1>1 DEF Listed
<1>5. Own(e)' /\ Own(Peer(e))' /\ Direction(Peer(e))'
  <2>1. Own(e)'
    BY <1>0, <1>1, <1>3, <1>4, OwnSends DEF Own
  <2> QED
    BY <1>0, <1>1, <1>3, <1>4, <2>1, OwnKeeps, OtherWay DEF history
<1>6. /\ Sorted(e)' /\ OverStays(e) /\ N(e)' = N(e) /\ D(e)' = D(e)
      /\ \A k, i, n : Coming(e, k, i, n)' => Coming(e, k, i, n)
      /\ \A i, n : Sent(Peer(e), "ack", i, n)' => Sent(Peer(e), "ack", i, n)
  <2>1. Climbs(out[Base(e)], Sid(e))'
    BY <1>0, <1>1 DEF Direction, Sorted
  <2> QED
    BY <1>0, <1>1, <1>3, <1>4, <2>1, SendsLess, AnswersLess
<1>7. SameNumbers(e)
  BY <1>0, <1>1, <1>6 DEF SameNumbers, Busy, TypeOK, history
<1>8. Direction(e)'
  BY <1>0, <1>4, <1>6, <1>7, SameFrame
<1> QED
  BY <1>0, <1>3, <1>5, <1>8, Together

\* What the invariant does not speak of may change.
LEMMA StillKeeps ==
    ASSUME UInv, TypeOK',
           UNCHANGED <<out, alive, open, pc, head, index, sent, delivered, dispatched, line, buf, broken, resetIO>>
    PROVE  UInv'
  BY DEF UInv, Own, OldOne, IsOld, Unseen, Direction, Fresh, Sorted, Once, Over, Unbroken, Silent,
      N, D, Busy, Listed, Coming, Sent

LEMMA SleepKeeps ==
    ASSUME UInv, NEW e \in Ends, Sleep(e)
    PROVE  UInv'
<1>1. TypeOK'
  BY WorkTypes DEF UInv, Work
<1> QED
  BY <1>1, StillKeeps DEF Sleep, worker, history

LEMMA AddKeeps ==
    ASSUME UInv, NEW e \in Ends, AddPackage(e)
    PROVE  UInv'
<1>0. TypeOK /\ TypeOK' /\ Own(e) /\ Own(Peer(e)) /\ Direction(e) /\ Direction(Peer(e))
  BY WorkTypes, EndFacts DEF UInv, Work
<1> DEFINE x == Package("data", Sid(e), head[e], sent[e] + 1)
           o == Add(out[Base(e)], x)
<1>1. /\ pc[e] = "add" /\ out' = [out EXCEPT ![Base(e)] = o]
      /\ sent' = [sent EXCEPT ![e] = @ + 1]
      /\ \/ /\ pc' = [pc EXCEPT ![e] = "slot"]
            /\ index' = [index EXCEPT ![e] = @ + 1] /\ head' = [head EXCEPT ![e] = index[e] + 1]
         \/ /\ pc' = [pc EXCEPT ![e] = "idle"] /\ UNCHANGED <<index, head>>
      /\ UNCHANGED <<alive, open, dispatched, line, buf, delivered, broken, resetIO>>
  BY DEF AddPackage
<1>2. \A d \in Ends \ {e} : Variables(d)
  BY <1>0, <1>1, ZenonT(30) DEF Variables, TypeOK
<1>3. /\ out[Base(e)] \in Seq(QPkg) /\ chances \in Nat /\ Busy(e) /\ Sid(e) \in Ids
      /\ head[e] \in Nat /\ sent[e] \in Nat /\ index[e] \in Nat /\ Peer(e) \in Ends /\ Sid(e) \in Sessions
  BY <1>0, <1>1, EndFacts DEF TypeOK, Busy
<1>4. x \in Pkg /\ ~Response(x) /\ x.kind = "data" /\ x.s = Sid(e) /\ x.idx = head[e] /\ x.n = sent[e] + 1
  BY <1>3 DEF Package, Pkg, Response, Kinds
<1> HIDE DEF x
<1>5. \A i, n \in Nat : Listed(e, "data", i, n) => i < head[e] /\ n <= sent[e]
  BY <1>0, <1>3 DEF Direction, Fresh, Sent
<1>6. \A k \in Kinds \ {"ack"}, n \in Nat : ~Has(out[Base(e)], x.s, k, x.idx, n)
  <2>1. \A k \in {"data", "free"}, n \in Nat : ~Listed(e, k, head[e], n)
    BY <1>0, <1>3 DEF Direction, Fresh, Sent
  <2>2. \A n \in Nat : ~Listed(e, "reset", head[e], n)
    BY <1>0 DEF Own
  <2> QED
    BY <1>4, <2>1, <2>2 DEF Listed, Kinds
<1>7. /\ o \in Seq(QPkg)
      /\ \A sid, k, i, n : Has(out[Base(e)], sid, k, i, n) => Has(o, sid, k, i, n)
      /\ \A sid, k, i, n : Has(o, sid, k, i, n) => Has(out[Base(e)], sid, k, i, n) \/ Is(x, sid, k, i, n)
      /\ \A sid : /\ Climbs(out[Base(e)], sid)
                  /\ Data(x, sid) => \A i, n \in Nat :
                       Has(out[Base(e)], sid, "data", i, n) => LT(i, n, x.idx, x.n)
                  => Climbs(o, sid)
      /\ Has(o, Sid(e), "data", head[e], sent[e] + 1)
  BY <1>3, <1>4, <1>6, AddFacts
<1>8. Others(out[Base(e)], o, Sid(e))
  BY <1>4, <1>7 DEF Others, Is, Data
<1> HIDE DEF o
<1>9. (\A d \in Ends \ {e} : Still(d)) /\ out'[Base(e)] = o
  BY <1>0, <1>1, <1>2, <1>7, <1>8, AllStill
<1>10. StepOf(e)
  BY <1>1, <1>9 DEF StepOf
<1>11. \A k, i, n : Listed(e, k, i, n)' <=>
             Listed(e, k, i, n) \/ (k = "data" /\ i = head[e] /\ n = sent[e] + 1)
  BY <1>4, <1>7, <1>9 DEF Listed, Is
<1>12. Own(e)' /\ Own(Peer(e))' /\ Direction(Peer(e))'
  <2>1. \A i, n : ~Listed(e, "reset", i, n)'
    BY <1>0, <1>11 DEF Own
  <2>2. Side(e) = "daemon" => \A s, k, i, n : Has(out'[Base(e)], s, k, i, n) => s = Sid(e)
    BY <1>0, <1>4, <1>7, <1>9 DEF Own, Is
  <2>3. \A i, n : Listed(e, "ack", i, n)' => Listed(e, "ack", i, n)
    BY <1>11
  <2> QED
    BY <1>0, <1>1, <1>10, <2>1, <2>2, <2>3, OwnSends, OwnKeeps, OtherWay
<1>13. Still(Peer(e)) /\ N(e)' = N(e) /\ D(e)' = D(e) /\ OverStays(e)
  BY <1>3, <1>9, <1>10, StepKeepsOver, EndFacts DEF N, D, Still
<1>14. \A k, i, n : Coming(e, k, i, n)' <=> Coming(e, k, i, n)
  BY <1>1 DEF Coming
<1>15. \A i, n : Sent(Peer(e), "ack", i, n)' => Sent(Peer(e), "ack", i, n)
  BY <1>0, <1>1, <1>10, AnswersLess
<1>16. Sorted(e)'
  <2>1. Sorted(e) /\ Fresh(e)
    BY <1>0 DEF Direction
  <2>2. Climbs(o, Sid(e))
    <3>1. \A i, n \in Nat : Has(out[Base(e)], Sid(e), "data", i, n) => LT(i, n, x.idx, x.n)
      BY <1>3, <1>4, <1>5 DEF LT, Listed
    <3> QED
      BY <1>7, <2>1, <3>1 DEF Sorted
  <2>3. \A i, n, j, m \in Nat : Coming(e, "data", i, n)' /\ Listed(e, "data", j, m)' => LE(i, n, j, m)
    <3>1. \A i, n \in Nat : Coming(e, "data", i, n) => LE(i, n, head[e], sent[e] + 1)
      BY <1>3, <2>1 DEF Fresh, Sent, LE, LT
    <3> QED
      BY <1>11, <1>14, <2>1, <3>1 DEF Sorted
  <2> QED
    BY <1>1, <1>9, <2>1, <2>2, <2>3 DEF Sorted
<1>17. /\ sent'[e] = sent[e] + 1
       /\ \/ Busy(e)' /\ index'[e] = index[e] + 1 /\ head'[e] = index[e] + 1
          \/ ~Busy(e)' /\ index'[e] = index[e]
  BY <1>0, <1>1 DEF Busy, TypeOK
<1>18. Direction(e)'
  BY <1>0, <1>3, <1>11, <1>13, <1>14, <1>15, <1>16, <1>17, Lists
<1> QED
  BY <1>0, <1>10, <1>12, <1>18, Together

(***************************************************************************)
(* The read thread: what comes.                                            *)
(***************************************************************************)
\* An answer or a request is listed.
LEMMA AddOther ==
    ASSUME NEW o \in Seq(QPkg), NEW x \in Pkg, x.kind # "data", chances \in Nat
    PROVE  /\ Add(o, x) \in Seq(QPkg)
           /\ \A sid, k, i, n : Has(o, sid, k, i, n) => Has(Add(o, x), sid, k, i, n)
           /\ \A sid, k, i, n : Has(Add(o, x), sid, k, i, n) => Has(o, sid, k, i, n) \/ Is(x, sid, k, i, n)
           /\ \A sid : Climbs(o, sid) => Climbs(Add(o, x), sid)
<1>1. \A sid : ~Data(x, sid)
  BY DEF Data
<1> QED
  BY <1>1, AddFacts

\* The list o of a with answers and requests added: answers with an index in X,
\* packages of the old session, and frees with an index in Y.
Adds(a, o, X, Y) ==
  /\ o \in Seq(QPkg)
  /\ \A sid, k, i, n : Has(out[Base(a)], sid, k, i, n) => Has(o, sid, k, i, n)
  /\ \A sid, k, i, n : Has(o, sid, k, i, n) =>
        \/ Has(out[Base(a)], sid, k, i, n)
        \/ sid = Sid(a) /\ k = "ack" /\ i \in X
        \/ sid = Sid(a) /\ k = "free" /\ i \in Y
        \/ sid = Old /\ Side(a) = "host"
  /\ \A sid : Climbs(out[Base(a)], sid) => Climbs(o, sid)

LEMMA AddsStill ==
    ASSUME TypeOK, NEW a \in Ends, NEW o, NEW X, NEW Y, Adds(a, o, X, Y),
           Own(a), out' = [out EXCEPT ![Base(a)] = o], \A d \in Ends \ {a} : Variables(d)
    PROVE  /\ \A d \in Ends \ {a} : Still(d)
           /\ Climbs(out[Base(a)], Sid(a)) => Climbs(out[Base(a)], Sid(a))'
           /\ \A k, i, n : Listed(a, k, i, n) => Listed(a, k, i, n)'
           /\ \A k, i, n : Listed(a, k, i, n)' =>
                 Listed(a, k, i, n) \/ (k = "ack" /\ i \in X) \/ (k = "free" /\ i \in Y)
           /\ \A i, n : ~Listed(a, "reset", i, n)'
           /\ Side(a) = "daemon" => \A s, k, i, n : Has(out'[Base(a)], s, k, i, n) => s = Sid(a)
<1>1. \A s \in Sessions : s # Old
  BY UartAssumption
<1>2. Others(out[Base(a)], o, Sid(a))
  BY <1>1 DEF Others, Adds
<1>3. (\A d \in Ends \ {a} : Still(d)) /\ out'[Base(a)] = o
  BY <1>2, AllStill DEF Adds
<1>4. Sid(a) \in Sessions
  BY EndFacts
<1>5. \A k, i, n : Listed(a, k, i, n)' =>
                 Listed(a, k, i, n) \/ (k = "ack" /\ i \in X) \/ (k = "free" /\ i \in Y)
  BY <1>1, <1>3, <1>4 DEF Listed, Adds
<1>6. \A k, i, n : Listed(a, k, i, n) => Listed(a, k, i, n)'
  BY <1>3 DEF Listed, Adds
<1>7. Side(a) = "daemon" => \A s, k, i, n : Has(out'[Base(a)], s, k, i, n) => s = Sid(a)
  BY <1>3 DEF Own, Adds
<1> QED
  BY <1>3, <1>5, <1>6, <1>7 DEF Own, Adds

\* What the answers and requests of the read thread add.
Acked(e) == IF Head(buf[e]).s = Sid(e) THEN {Head(buf[e]).idx} ELSE {}

LEMMA AckAdds ==
    ASSUME TypeOK, NEW e \in Ends, buf[e] # <<>>, Own(Peer(e))
    PROVE  /\ Adds(e, AddAck(e, out[Base(e)]), Acked(e), {})
           /\ Adds(e, AddFree(e, out[Base(e)]), Acked(e), {index[e] + 1})
           /\ Adds(e, AddFree(e, AddAck(e, out[Base(e)])), Acked(e), {index[e] + 1})
           /\ Head(buf[e]).s # Sid(e) =>
                 Adds(e, AddFree(e, Add(AddAck(e, out[Base(e)]), Package("reset", Head(buf[e]).s, 0, 0))),
                      Acked(e), {index[e] + 1})
<1> DEFINE o == out[Base(e)]
           p == Package("ack", Head(buf[e]).s, Head(buf[e]).idx, 0)
           q == Package("free", Sid(e), index[e] + 1, 0)
           r == Package("reset", Head(buf[e]).s, 0, 0)
<1>1. o \in Seq(QPkg) /\ chances \in Nat
  BY EndFacts DEF TypeOK
<1>2. p \in Pkg /\ r \in Pkg /\ q \in Pkg
  BY <1>1, AckTypes, FreeTypes
<1>3. Head(buf[e]).s = Sid(e) \/ (Head(buf[e]).s = Old /\ Side(e) = "host")
  <2>1. buf[e] \in Seq(WPkg) /\ 1 \in DOMAIN buf[e] /\ Head(buf[e]) = buf[e][1]
    BY DEF TypeOK
  <2>2. Sid(Peer(e)) = Sid(e) /\ Peer(Peer(e)) = e /\ (Side(Peer(e)) = "host" <=> Side(e) # "host")
    BY EndFacts
  <2>3. Side(e) \in {"host", "daemon"}
    BY EndFacts
  <2> QED
    BY <2>1, <2>2, <2>3 DEF Own, OldOne, IsOld, Unseen
<1>4. /\ p.kind = "ack" /\ p.s = Head(buf[e]).s /\ p.idx = Head(buf[e]).idx
      /\ q.kind = "free" /\ q.s = Sid(e) /\ q.idx = index[e] + 1
      /\ r.kind = "reset" /\ r.s = Head(buf[e]).s
  BY DEF Package
<1> HIDE DEF p, q, r, o
<1>5. /\ Add(o, p) \in Seq(QPkg)
      /\ \A sid, k, i, n : Has(o, sid, k, i, n) => Has(Add(o, p), sid, k, i, n)
      /\ \A sid, k, i, n : Has(Add(o, p), sid, k, i, n) => Has(o, sid, k, i, n) \/ Is(p, sid, k, i, n)
      /\ \A sid : Climbs(o, sid) => Climbs(Add(o, p), sid)
  BY <1>1, <1>2, <1>4, AddOther
<1>6. ASSUME NEW u \in Seq(QPkg)
      PROVE  /\ Add(u, q) \in Seq(QPkg)
             /\ \A sid, k, i, n : Has(u, sid, k, i, n) => Has(Add(u, q), sid, k, i, n)
             /\ \A sid, k, i, n : Has(Add(u, q), sid, k, i, n) => Has(u, sid, k, i, n) \/ Is(q, sid, k, i, n)
             /\ \A sid : Climbs(u, sid) => Climbs(Add(u, q), sid)
  BY <1>1, <1>2, <1>4, AddOther
<1>7. /\ Add(Add(o, p), r) \in Seq(QPkg)
      /\ \A sid, k, i, n : Has(o, sid, k, i, n) => Has(Add(Add(o, p), r), sid, k, i, n)
      /\ \A sid, k, i, n : Has(Add(Add(o, p), r), sid, k, i, n) =>
              Has(o, sid, k, i, n) \/ Is(p, sid, k, i, n) \/ Is(r, sid, k, i, n)
      /\ \A sid : Climbs(o, sid) => Climbs(Add(Add(o, p), r), sid)
  <2>1. /\ Add(Add(o, p), r) \in Seq(QPkg)
        /\ \A sid, k, i, n : Has(Add(o, p), sid, k, i, n) => Has(Add(Add(o, p), r), sid, k, i, n)
        /\ \A sid, k, i, n : Has(Add(Add(o, p), r), sid, k, i, n) => Has(Add(o, p), sid, k, i, n) \/ Is(r, sid, k, i, n)
        /\ \A sid : Climbs(Add(o, p), sid) => Climbs(Add(Add(o, p), r), sid)
    BY <1>1, <1>2, <1>4, <1>5, AddOther
  <2> QED
    BY <1>5, <2>1
<1>8. Adds(e, Add(o, p), Acked(e), {})
  BY <1>3, <1>4, <1>5 DEF Adds, Is, Acked, o
<1>9. Adds(e, Add(o, q), Acked(e), {index[e] + 1})
  BY <1>1, <1>4, <1>6 DEF Adds, Is, Acked, o
<1>10. Adds(e, Add(Add(o, p), q), Acked(e), {index[e] + 1})
  <2>1. /\ Add(Add(o, p), q) \in Seq(QPkg)
        /\ \A sid, k, i, n : Has(o, sid, k, i, n) => Has(Add(Add(o, p), q), sid, k, i, n)
        /\ \A sid, k, i, n : Has(Add(Add(o, p), q), sid, k, i, n) =>
              Has(o, sid, k, i, n) \/ Is(p, sid, k, i, n) \/ Is(q, sid, k, i, n)
        /\ \A sid : Climbs(o, sid) => Climbs(Add(Add(o, p), q), sid)
    BY <1>5, <1>6
  <2> QED
    BY <1>3, <1>4, <2>1 DEF Adds, Is, Acked, o
<1>11. Head(buf[e]).s # Sid(e) => Adds(e, Add(Add(Add(o, p), r), q), Acked(e), {index[e] + 1})
  <2> DEFINE u == Add(Add(o, p), r)
  <2>1. u \in Seq(QPkg)
    BY <1>7
  <2>2. /\ Add(u, q) \in Seq(QPkg)
        /\ \A sid, k, i, n : Has(o, sid, k, i, n) => Has(Add(u, q), sid, k, i, n)
        /\ \A sid, k, i, n : Has(Add(u, q), sid, k, i, n) =>
              Has(o, sid, k, i, n) \/ Is(p, sid, k, i, n) \/ Is(r, sid, k, i, n) \/ Is(q, sid, k, i, n)
        /\ \A sid : Climbs(o, sid) => Climbs(Add(u, q), sid)
    <3>1. \A sid, k, i, n : Has(o, sid, k, i, n) => Has(u, sid, k, i, n)
      BY <1>7
    <3>2. \A sid, k, i, n : Has(u, sid, k, i, n) => Has(o, sid, k, i, n) \/ Is(p, sid, k, i, n) \/ Is(r, sid, k, i, n)
      BY <1>7
    <3>3. \A sid : Climbs(o, sid) => Climbs(u, sid)
      BY <1>7
    <3> HIDE DEF u
    <3> QED
      BY <1>6, <2>1, <3>1, <3>2, <3>3
  <2> HIDE DEF u
  <2>3. Head(buf[e]).s # Sid(e) => Adds(e, Add(u, q), Acked(e), {index[e] + 1})
    BY <1>3, <1>4, <2>2 DEF Adds, Is, Acked, o
  <2> QED
    BY <2>3 DEF u
<1>12. /\ AddAck(e, o) = Add(o, p) /\ AddFree(e, o) = Add(o, q) /\ AddFree(e, AddAck(e, o)) = Add(Add(o, p), q)
       /\ AddFree(e, Add(AddAck(e, o), r)) = Add(Add(Add(o, p), r), q)
  BY DEF AddAck, AddFree, p, q, r
<1> QED
  BY <1>8, <1>9, <1>10, <1>11, <1>12 DEF o, r

\* The package at the head of a's buffer is the next of the other direction.
LEMMA TakesNext ==
    ASSUME TypeOK, TypeOK', NEW a \in Ends, StepOf(a), Direction(Peer(a)), buf[a] # <<>>,
           buf'[a] = Tail(buf[a]), Head(buf[a]).kind = "data", Head(buf[a]).s = Sid(a),
           \A i, n : Listed(a, "ack", i, n)' => Listed(a, "ack", i, n) \/ i = Head(buf[a]).idx,
           open' = open
    PROVE  NextComes(Peer(a), Head(buf[a]).idx, Head(buf[a]).n)
<1> DEFINE p == Peer(a)
           x == Head(buf[a]).idx
           m == Head(buf[a]).n
<1>1. /\ p \in Ends \ {a} /\ Still(p) /\ Peer(p) = a /\ line' = line /\ Sid(p) = Sid(a)
  BY EndFacts DEF StepOf
<1>2. buf[a] \in Seq(WPkg)
  BY DEF TypeOK
<1>3. /\ Head(buf[a]) \in WPkg /\ Head(buf[a]) = buf[a][1] /\ 1 \in DOMAIN buf[a]
      /\ \A sid, k, i, n : Has(Tail(buf[a]), sid, k, i, n) => Has(buf[a], sid, k, i, n)
      /\ \A i \in DOMAIN Tail(buf[a]) : i + 1 \in DOMAIN buf[a] /\ 1 < i + 1 /\ Tail(buf[a])[i] = buf[a][i + 1]
  BY <1>2, TailFacts
<1>4. x \in Nat /\ m \in Nat
  BY <1>3 DEF WPkg
<1>5. Sorted(p) /\ Climbs(out[Base(p)], Sid(p))'
  BY <1>1 DEF Direction, Sorted, Still
<1>6. Sorted(p)' /\ \A k, i, n : Coming(p, k, i, n)' => Coming(p, k, i, n)
  BY <1>1, <1>5, SortedLess DEF Still
<1>7. Has(buf[a], Sid(p), "data", x, m) /\ Coming(p, "data", x, m)
  BY <1>1, <1>3 DEF Has, Is, Coming
<1>8. ASSUME NEW i \in Nat, NEW n \in Nat, Sent(p, "data", i, n)'
      PROVE  Sent(p, "data", i, n) /\ LE(x, m, i, n)
  <2>1. CASE Listed(p, "data", i, n)'
    <3>1. Listed(p, "data", i, n)
      BY <1>1, <2>1 DEF Still
    <3> QED
      BY <1>4, <1>5, <1>7, <3>1 DEF Sorted, Sent
  <2>2. CASE Has(line'[p], Sid(p), "data", i, n)
    <3>1. Has(line[p], Sid(p), "data", i, n)
      BY <1>1, <2>2
    <3> QED
      BY <1>1, <1>4, <1>5, <1>7, <3>1 DEF Sorted, Sent, Coming
  <2>3. CASE Has(buf'[a], Sid(p), "data", i, n)
    <3>1. PICK j \in DOMAIN Tail(buf[a]) : Is(Tail(buf[a])[j], Sid(p), "data", i, n)
      BY <2>3 DEF Has
    <3>2. Rises(buf[a], Sid(p))
      BY <1>1, <1>5 DEF Sorted
    <3>3. LE(x, m, i, n)
      BY <1>1, <1>3, <3>1, <3>2 DEF Rises, Data, Is
    <3> QED
      BY <1>1, <1>3, <2>3, <3>3 DEF Sent, Coming
  <2> QED
    BY <1>1, <1>8, <2>1, <2>2, <2>3 DEF Sent, Coming
<1>9. \A i, n : /\ Listed(p, "data", i, n)' <=> Listed(p, "data", i, n)
                /\ Sent(p, "free", i, n)' => Sent(p, "free", i, n)
  BY <1>1, <1>6 DEF Still, Sent
<1>10. \A i, n \in Nat : Sent(a, "ack", i, n)' => Sent(a, "ack", i, n) \/ i = x
  BY <1>1 DEF Sent, Coming, Still
<1>11. OverStays(p) /\ (Silent(p)' => Silent(p)) /\ Busy(p)' = Busy(p)
       /\ head'[p] = head[p] /\ index'[p] = index[p] /\ sent'[p] = sent[p]
  BY <1>1, StepKeepsOver DEF Still, Silent, Busy
<1> QED
  BY <1>1, <1>4, <1>6, <1>7, <1>8, <1>9, <1>10, <1>11 DEF NextComes

\* The direction of a step's own end, when it lists no more packages.
LEMMA SendsNoMore ==
    ASSUME TypeOK, TypeOK', NEW a \in Ends, StepOf(a), Direction(a),
           Climbs(out[Base(a)], Sid(a)) => Climbs(out[Base(a)], Sid(a))',
           \A k, i, n : k # "ack" => (Listed(a, k, i, n)' <=> Listed(a, k, i, n)),
           pc' = pc, head' = head, index'[a] = index[a], sent' = sent,
           buf'[a] = buf[a] \/ (buf[a] # <<>> /\ buf'[a] = Tail(buf[a])) \/ buf'[a] = <<>>
    PROVE  Direction(a)'
<1>1. Climbs(out[Base(a)], Sid(a))'
  BY DEF Direction, Sorted
<1>2. /\ Sorted(a)' /\ OverStays(a) /\ N(a)' = N(a) /\ D(a)' = D(a)
      /\ \A k, i, n : Coming(a, k, i, n)' => Coming(a, k, i, n)
      /\ \A i, n : Sent(Peer(a), "ack", i, n)' => Sent(Peer(a), "ack", i, n)
  BY <1>1, SendsLess, AnswersLess
<1>3. SameNumbers(a)
  BY <1>2 DEF SameNumbers, Busy
<1>4. Fewer(a)
  BY <1>2 DEF Fewer, Sent
<1>5. Stays(a)
  BY <1>2 DEF Stays, Direction, Unbroken, OverStays
<1> QED
  BY <1>2, <1>3, <1>4, <1>5, Frame

\* The direction of a step's own end, when it asks the other to end.
LEMMA SendsEnd ==
    ASSUME TypeOK, TypeOK', NEW a \in Ends, StepOf(a), Direction(a),
           Climbs(out[Base(a)], Sid(a)) => Climbs(out[Base(a)], Sid(a))',
           \A k, i, n : Listed(a, k, i, n) => Listed(a, k, i, n)',
           \A k, i, n : k # "ack" /\ Listed(a, k, i, n)' =>
                           Listed(a, k, i, n) \/ (k = "free" /\ i = index[a] + 1),
           pc' = pc, head' = head, index'[a] = index[a] + 1, sent' = sent,
           buf'[a] = buf[a] \/ (buf[a] # <<>> /\ buf'[a] = Tail(buf[a])) \/ buf'[a] = <<>>
    PROVE  Direction(a)'
<1>1. Climbs(out[Base(a)], Sid(a))'
  BY DEF Direction, Sorted
<1>2. Peer(a) \in Ends \ {a} /\ Still(Peer(a)) /\ line' = line
  BY EndFacts DEF StepOf
<1>3. /\ Sorted(a)'
      /\ \A k, i, n : Coming(a, k, i, n)' => Coming(a, k, i, n)
  BY <1>1, <1>2, SortedLess DEF Direction, Still
<1>4. OverStays(a) /\ N(a)' = N(a) /\ D(a)' = D(a)
  BY <1>2, StepKeepsOver DEF Still, N, D
<1>5. \A i, n : Sent(Peer(a), "ack", i, n)' => Sent(Peer(a), "ack", i, n)
  BY AnswersLess
<1>6. Stays(a)
  BY <1>3, <1>4 DEF Stays, Direction, Unbroken, OverStays
<1>7. \A i, n :
        /\ Listed(a, "data", i, n)' => Listed(a, "data", i, n)
        /\ Coming(a, "data", i, n)' => Sent(a, "data", i, n)
        /\ Sent(a, "free", i, n)' => Sent(a, "free", i, n) \/ i = index[a] + 1
  BY <1>3 DEF Sent
<1>8. Busy(a)' = Busy(a) /\ head'[a] = head[a] /\ sent'[a] = sent[a]
  BY DEF Busy
<1> QED
  BY <1>3, <1>4, <1>5, <1>6, <1>7, <1>8, AsksToEnd

\* A package that belongs to another session than the port.
LEMMA Stranger ==
    ASSUME TypeOK, NEW e \in Ends, Own(Peer(e)), buf[e] # <<>>, Head(buf[e]).s # Sid(e)
    PROVE  /\ Head(buf[e]).idx = 1 /\ dispatched[e] = 0 /\ Newest(delivered[e]) = 0
           /\ Sid(e) \notin resetIO /\ Side(e) = "host" /\ Acked(e) = {}
           /\ Head(buf[e]).kind = "data"
<1>1. Peer(Peer(e)) = e /\ Sid(Peer(e)) = Sid(e) /\ Side(e) \in {"host", "daemon"}
      /\ ((Side(Peer(e)) = "host") <=> (Side(e) # "host"))
  BY EndFacts
<1>2. buf[e] \in Seq(WPkg) /\ 1 \in DOMAIN buf[e] /\ Head(buf[e]) = buf[e][1]
  BY DEF TypeOK
<1>3. OldOne(Peer(e), Head(buf[e]))
  BY <1>1, <1>2 DEF Own
<1> QED
  BY <1>1, <1>3 DEF OldOne, IsOld, Unseen, N, D, Acked

\* The direction to a, when the package that came was none of its own.
LEMMA TakesStranger ==
    ASSUME TypeOK, TypeOK', NEW a \in Ends, StepOf(a), Direction(Peer(a)), buf[a] # <<>>,
           buf'[a] = Tail(buf[a]) \/ buf'[a] = <<>>,
           delivered'[a] = delivered[a], dispatched'[a] = dispatched[a],
           \A i, n : Listed(a, "ack", i, n)' => Listed(a, "ack", i, n)
    PROVE  Direction(Peer(a))'
<1> DEFINE p == Peer(a)
<1>1. p \in Ends \ {a} /\ Still(p) /\ Peer(p) = a /\ line' = line /\ Sid(p) = Sid(a)
  BY EndFacts DEF StepOf
<1>2. SameNumbers(p) /\ OverStays(p)
  BY <1>1, StepKeepsOver DEF Still, SameNumbers, Busy, N, D
<1>3. Sorted(p)' /\ \A k, i, n : Coming(p, k, i, n)' => Coming(p, k, i, n)
  <2>1. Sorted(p) /\ Climbs(out[Base(p)], Sid(p))'
    BY <1>1 DEF Direction, Sorted, Still
  <2> QED
    BY <1>1, <2>1, SortedLess DEF Still
<1>4. \A i, n : Sent(a, "ack", i, n)' => Sent(a, "ack", i, n)
  BY <1>1 DEF Sent, Coming, Still
<1>5. \A k, i, n : Listed(p, k, i, n)' <=> Listed(p, k, i, n)
  BY <1>1 DEF Still
<1> QED
  BY <1>1, <1>2, <1>3, <1>4, <1>5, SameFrame

LEMMA DuplicateKeeps ==
    ASSUME UInv, NEW e \in Ends, Duplicate(e)
    PROVE  UInv'
<1>0. /\ TypeOK /\ TypeOK' /\ Own(e) /\ Own(Peer(e)) /\ Direction(e) /\ Direction(Peer(e))
      /\ Peer(Peer(e)) = e
  BY AnswerTypes, EndFacts DEF UInv
<1>1. /\ buf[e] # <<>> /\ Head(buf[e]).kind = "data" /\ buf' = [buf EXCEPT ![e] = Tail(@)]
      /\ alive[e] = "gone" \/ dispatched[e] = Head(buf[e]).idx
      /\ out' = [out EXCEPT ![Base(e)] = AddAck(e, out[Base(e)])]
      /\ UNCHANGED <<slots, alive, open, pc, head, index, dispatched, line, history, resetIO>>
  BY DEF Duplicate, Comes, worker
<1>2. \A d \in Ends \ {e} : Variables(d)
  BY <1>0, <1>1 DEF Variables, history, TypeOK
<1>3. buf'[e] = Tail(buf[e])
  BY <1>0, <1>1 DEF TypeOK
<1>4. Adds(e, AddAck(e, out[Base(e)]), Acked(e), {})
  BY <1>0, <1>1, AckAdds
<1>5. /\ \A d \in Ends \ {e} : Still(d)
      /\ Climbs(out[Base(e)], Sid(e)) => Climbs(out[Base(e)], Sid(e))'
      /\ \A k, i, n : Listed(e, k, i, n) => Listed(e, k, i, n)'
      /\ \A k, i, n : Listed(e, k, i, n)' => \/ Listed(e, k, i, n) \/ (k = "ack" /\ i \in Acked(e))
                                             \/ (k = "free" /\ i \in {})
      /\ \A i, n : ~Listed(e, "reset", i, n)'
      /\ Side(e) = "daemon" => \A s, k, i, n : Has(out'[Base(e)], s, k, i, n) => s = Sid(e)
  BY <1>0, <1>1, <1>2, <1>4, AddsStill
<1>6. StepOf(e)
  BY <1>1, <1>5 DEF StepOf, history
<1>7. Own(e)' /\ Own(Peer(e))'
  BY <1>0, <1>1, <1>3, <1>5, <1>6, OwnSends, OwnTakes
<1>8. Direction(e)'
  BY <1>0, <1>1, <1>3, <1>5, <1>6, SendsNoMore DEF history
<1>9. Direction(Peer(e))'
  <2>1. CASE Head(buf[e]).s = Sid(e)
    <3>1. NextComes(Peer(e), Head(buf[e]).idx, Head(buf[e]).n)
      BY <1>0, <1>1, <1>3, <1>5, <1>6, <2>1, TakesNext DEF Acked
    <3>2. D(Peer(e)) = Head(buf[e]).idx \/ Over(Peer(e))
      BY <1>0, <1>1 DEF D, Over
    <3>3. D(Peer(e))' = D(Peer(e)) /\ N(Peer(e))' = N(Peer(e))
      BY <1>1 DEF D, N, history
    <3> QED
      BY <1>0, <3>1, <3>2, <3>3, Repeats, EndFacts
  <2>2. CASE Head(buf[e]).s # Sid(e)
    <3>1. \A i, n : Listed(e, "ack", i, n)' => Listed(e, "ack", i, n)
      BY <1>0, <1>1, <1>5, <2>2, Stranger
    <3> QED
      BY <1>0, <1>1, <1>3, <1>6, <3>1, TakesStranger DEF history
  <2> QED
    BY <2>1, <2>2
<1> QED
  BY <1>0, <1>6, <1>7, <1>8, <1>9, Together

LEMMA DispatchedKeeps ==
    ASSUME UInv, NEW e \in Ends, Dispatched(e)
    PROVE  /\ UInv'
           /\ Newest(delivered[e]) < Head(buf[e]).n /\ Head(buf[e]).n <= sent[Peer(e)]
           /\ Over(Peer(e)) \/ Head(buf[e]).n = Newest(delivered[e]) + 1
<1>0. /\ TypeOK /\ TypeOK' /\ Own(e) /\ Own(Peer(e)) /\ Direction(e) /\ Direction(Peer(e))
      /\ Peer(Peer(e)) = e /\ Peer(e) \in Ends
  BY DispatchTypes, EndFacts DEF UInv
<1>1. /\ buf[e] # <<>> /\ Head(buf[e]).kind = "data" /\ Head(buf[e]).s = Sid(e)
      /\ buf' = [buf EXCEPT ![e] = Tail(@)]
      /\ alive[e] # "gone" /\ dispatched[e] # Head(buf[e]).idx
      /\ dispatched' = [dispatched EXCEPT ![e] = Head(buf[e]).idx]
      /\ delivered' = [delivered EXCEPT ![e] = Append(@, Head(buf[e]).n)]
      /\ out' = [out EXCEPT ![Base(e)] = AddAck(e, out[Base(e)])]
      /\ UNCHANGED <<slots, alive, open, pc, head, index, line, sent, broken, resetIO>>
  BY DEF Dispatched, New, Comes, worker
<1>2. \A d \in Ends \ {e} : Variables(d)
  BY <1>0, <1>1 DEF Variables, TypeOK
<1>3. /\ buf'[e] = Tail(buf[e]) /\ dispatched'[e] = Head(buf[e]).idx
      /\ delivered'[e] = Append(delivered[e], Head(buf[e]).n) /\ delivered[e] \in Seq(Nat)
  BY <1>0, <1>1 DEF TypeOK
<1>4. Adds(e, AddAck(e, out[Base(e)]), Acked(e), {})
  BY <1>0, <1>1, AckAdds
<1>5. /\ \A d \in Ends \ {e} : Still(d)
      /\ Climbs(out[Base(e)], Sid(e)) => Climbs(out[Base(e)], Sid(e))'
      /\ \A k, i, n : Listed(e, k, i, n) => Listed(e, k, i, n)'
      /\ \A k, i, n : Listed(e, k, i, n)' => \/ Listed(e, k, i, n) \/ (k = "ack" /\ i \in Acked(e))
                                             \/ (k = "free" /\ i \in {})
      /\ \A i, n : ~Listed(e, "reset", i, n)'
      /\ Side(e) = "daemon" => \A s, k, i, n : Has(out'[Base(e)], s, k, i, n) => s = Sid(e)
  BY <1>0, <1>1, <1>2, <1>4, AddsStill
<1>6. StepOf(e)
  BY <1>1, <1>5 DEF StepOf
<1>7. Own(e)' /\ Own(Peer(e))'
  BY <1>0, <1>1, <1>3, <1>5, <1>6, OwnSends, OwnTakes
<1>8. Direction(e)'
  BY <1>0, <1>1, <1>3, <1>5, <1>6, SendsNoMore
<1>9. NextComes(Peer(e), Head(buf[e]).idx, Head(buf[e]).n)
  BY <1>0, <1>1, <1>3, <1>5, <1>6, TakesNext DEF Acked
<1>10. /\ D(Peer(e)) # Head(buf[e]).idx /\ D(Peer(e))' = Head(buf[e]).idx
       /\ N(Peer(e))' = Head(buf[e]).n /\ N(Peer(e)) = Newest(delivered[e])
  <2>1. Head(buf[e]).n \in Nat
    BY <1>9 DEF NextComes
  <2>2. Newest(delivered'[e]) = Head(buf[e]).n
    BY <1>3, <2>1 DEF Newest, Stream!Newest
  <2> QED
    BY <1>0, <1>1, <1>3, <2>2 DEF D, N
<1>11. /\ Direction(Peer(e))' /\ N(Peer(e)) < Head(buf[e]).n /\ Head(buf[e]).n <= sent[Peer(e)]
       /\ ~Over(Peer(e)) => Head(buf[e]).n = N(Peer(e)) + 1
  BY <1>0, <1>9, <1>10, Passes
<1>12. UInv'
  BY <1>0, <1>6, <1>7, <1>8, <1>11, Together
<1> QED
  BY <1>10, <1>11, <1>12

LEMMA DispatchFailsKeeps ==
    ASSUME UInv, NEW e \in Ends, DispatchFails(e)
    PROVE  UInv'
<1>0. /\ TypeOK /\ TypeOK' /\ Own(e) /\ Own(Peer(e)) /\ Direction(e) /\ Direction(Peer(e))
      /\ Peer(Peer(e)) = e /\ Peer(e) \in Ends
  BY DispatchTypes, EndFacts DEF UInv
<1>1. /\ buf[e] # <<>> /\ Head(buf[e]).kind = "data" /\ Head(buf[e]).s = Sid(e)
      /\ buf' = [buf EXCEPT ![e] = Tail(@)]
      /\ dispatched[e] # Head(buf[e]).idx
      /\ dispatched' = [dispatched EXCEPT ![e] = Head(buf[e]).idx]
      /\ index' = [index EXCEPT ![e] = @ + 1] /\ broken' = broken \cup {e}
      /\ out' = [out EXCEPT ![Base(e)] = AddFree(e, AddAck(e, out[Base(e)]))]
      /\ UNCHANGED <<slots, alive, open, pc, head, line, sent, delivered, resetIO>>
  BY DEF DispatchFails, New, Comes, worker
<1>2. \A d \in Ends \ {e} : Variables(d)
  BY <1>0, <1>1 DEF Variables, TypeOK
<1>3. buf'[e] = Tail(buf[e]) /\ dispatched'[e] = Head(buf[e]).idx /\ index'[e] = index[e] + 1
  BY <1>0, <1>1 DEF TypeOK
<1>4. Adds(e, AddFree(e, AddAck(e, out[Base(e)])), Acked(e), {index[e] + 1})
  BY <1>0, <1>1, AckAdds
<1>5. /\ \A d \in Ends \ {e} : Still(d)
      /\ Climbs(out[Base(e)], Sid(e)) => Climbs(out[Base(e)], Sid(e))'
      /\ \A k, i, n : Listed(e, k, i, n) => Listed(e, k, i, n)'
      /\ \A k, i, n : Listed(e, k, i, n)' => \/ Listed(e, k, i, n) \/ (k = "ack" /\ i \in Acked(e))
                                             \/ (k = "free" /\ i \in {index[e] + 1})
      /\ \A i, n : ~Listed(e, "reset", i, n)'
      /\ Side(e) = "daemon" => \A s, k, i, n : Has(out'[Base(e)], s, k, i, n) => s = Sid(e)
  BY <1>0, <1>1, <1>2, <1>4, AddsStill
<1>6. StepOf(e)
  BY <1>1, <1>5 DEF StepOf
<1>7. Own(e)' /\ Own(Peer(e))'
  BY <1>0, <1>1, <1>3, <1>5, <1>6, OwnSends, OwnTakes
<1>8. Direction(e)'
  BY <1>0, <1>1, <1>3, <1>5, <1>6, SendsEnd
<1>9. NextComes(Peer(e), Head(buf[e]).idx, Head(buf[e]).n)
  BY <1>0, <1>1, <1>3, <1>5, <1>6, TakesNext DEF Acked
<1>10. /\ D(Peer(e)) # Head(buf[e]).idx /\ D(Peer(e))' = Head(buf[e]).idx
       /\ N(Peer(e))' = N(Peer(e)) /\ Peer(Peer(e)) \in broken'
  BY <1>0, <1>1, <1>3 DEF D, N
<1>11. Direction(Peer(e))'
  BY <1>0, <1>9, <1>10, Loses
<1> QED
  BY <1>0, <1>6, <1>7, <1>8, <1>11, Together

LEMMA ForeignKeeps ==
    ASSUME UInv, NEW e \in Ends, Foreign(e)
    PROVE  UInv'
<1>0. /\ TypeOK /\ TypeOK' /\ Own(e) /\ Own(Peer(e)) /\ Direction(e) /\ Direction(Peer(e))
      /\ Peer(Peer(e)) = e /\ Peer(e) \in Ends \ {e}
  BY DispatchTypes, EndFacts DEF UInv
<1>1. /\ buf[e] # <<>> /\ Head(buf[e]).s # Sid(e) /\ buf' = [buf EXCEPT ![e] = Tail(@)]
      /\ dispatched' = [dispatched EXCEPT ![e] = Head(buf[e]).idx]
      /\ resetIO' = resetIO \cup {Sid(e)}
      /\ UNCHANGED <<slots, alive, open, pc, head, line, sent, delivered>>
  BY DEF Foreign, New, Comes, worker
<1>2. /\ Head(buf[e]).idx = 1 /\ dispatched[e] = 0 /\ Newest(delivered[e]) = 0
      /\ Sid(e) \notin resetIO /\ Side(e) = "host" /\ Acked(e) = {}
  BY <1>0, <1>1, Stranger
<1> DEFINE o == AddFree(e, Add(AddAck(e, out[Base(e)]), Package("reset", Head(buf[e]).s, 0, 0)))
<1>3. /\ out' = [out EXCEPT ![Base(e)] = o] /\ index' = [index EXCEPT ![e] = @ + 1]
      /\ broken' = broken \cup {e}
  BY <1>2 DEF Foreign
<1>4. Adds(e, o, Acked(e), {index[e] + 1})
  BY <1>0, <1>1, AckAdds
<1> HIDE DEF o
<1>5. \A d \in Ends \ {e} : Variables(d)
  BY <1>0, <1>1, <1>3 DEF Variables, TypeOK
<1>6. buf'[e] = Tail(buf[e]) /\ dispatched'[e] = 1 /\ index'[e] = index[e] + 1
  BY <1>0, <1>1, <1>2, <1>3 DEF TypeOK
<1>7. /\ \A d \in Ends \ {e} : Still(d)
      /\ Climbs(out[Base(e)], Sid(e)) => Climbs(out[Base(e)], Sid(e))'
      /\ \A k, i, n : Listed(e, k, i, n) => Listed(e, k, i, n)'
      /\ \A k, i, n : Listed(e, k, i, n)' => \/ Listed(e, k, i, n) \/ (k = "ack" /\ i \in Acked(e))
                                             \/ (k = "free" /\ i \in {index[e] + 1})
      /\ \A i, n : ~Listed(e, "reset", i, n)'
      /\ Side(e) = "daemon" => \A s, k, i, n : Has(out'[Base(e)], s, k, i, n) => s = Sid(e)
  BY <1>0, <1>3, <1>4, <1>5, AddsStill
<1>8. StepOf(e)
  BY <1>1, <1>3, <1>7 DEF StepOf
<1>9. Own(e)' /\ Own(Peer(e))'
  BY <1>0, <1>1, <1>2, <1>6, <1>7, <1>8, OwnSends, OwnTakes
<1>10. Direction(e)'
  BY <1>0, <1>1, <1>6, <1>7, <1>8, SendsEnd
<1> DEFINE p == Peer(e)
<1>11. Still(p) /\ D(p) = 0 /\ N(p) = 0 /\ D(p)' = 1 /\ N(p)' = 0 /\ Over(p)' /\ line' = line
       /\ p \in Ends /\ Peer(p) = e /\ e \in broken' /\ Sid(p) = Sid(e)
  BY <1>0, <1>1, <1>2, <1>3, <1>6, <1>8, EndFacts DEF StepOf, D, N, Over
<1>12. \A i, n : Listed(e, "ack", i, n)' => Listed(e, "ack", i, n)
  BY <1>2, <1>7
<1> HIDE DEF p
<1>13. Direction(p)'
  <2>1. Direction(p) /\ head[p] \in Nat /\ index[p] \in Nat /\ sent[p] \in Nat
    BY <1>0, <1>11, NumberTypes DEF p
  <2>2. /\ Busy(p)' = Busy(p) /\ head'[p] = head[p] /\ index'[p] = index[p] /\ sent'[p] = sent[p]
        /\ \A k, i, n : Listed(p, k, i, n)' <=> Listed(p, k, i, n)
    BY <1>11 DEF Still, Busy
  <2>3. Sorted(p)' /\ \A k, i, n : Coming(p, k, i, n)' => Coming(p, k, i, n)
    <3>1. Sorted(p) /\ Climbs(out[Base(p)], Sid(p))'
      BY <1>11, <2>1 DEF Direction, Sorted, Still
    <3> QED
      BY <1>0, <1>1, <1>6, <1>11, <2>2, <3>1, SortedLess
  <2>4. \A i, n : Sent(e, "ack", i, n)' => Sent(e, "ack", i, n)
    BY <1>11, <1>12, <1>0 DEF Sent, Coming, Still, p
  <2>5. \A k, i, n : Sent(p, k, i, n)' => Sent(p, k, i, n)
    BY <2>2, <2>3 DEF Sent
  <2>6. Fresh(p)'
    BY <1>11, <2>1, <2>2, <2>4, <2>5 DEF Direction, Fresh
  <2>7. Once(p)'
    <3>1. Fresh(p)
      BY <2>1 DEF Direction
    <3>2. ASSUME NEW i \in Nat, NEW n \in Nat, Sent(p, "data", i, n)'
          PROVE  1 <= i /\ (1 < i => 0 < n) /\ (1 = i => n <= 0 \/ e \in broken')
      BY <1>11, <2>5, <3>1, <3>2 DEF Fresh
    <3>3. Busy(p) => head[p] \in 1..index[p]
      BY <3>1 DEF Fresh
    <3> QED
      BY <1>11, <2>1, <2>2, <3>2, <3>3 DEF Once
  <2> QED
    BY <1>11, <2>3, <2>6, <2>7 DEF Direction
<1> QED
  BY <1>0, <1>8, <1>9, <1>10, <1>13, Together DEF p

LEMMA DamagedKeeps ==
    ASSUME UInv, NEW e \in Ends, Damaged(e)
    PROVE  UInv'
<1>0. /\ TypeOK /\ TypeOK' /\ Own(e) /\ Own(Peer(e)) /\ Direction(e) /\ Direction(Peer(e))
  BY LinkTypes, EndFacts DEF UInv
<1>1. /\ buf[e] # <<>> /\ buf' = [buf EXCEPT ![e] = <<>>]
      /\ UNCHANGED <<out, alive, open, pc, head, index, dispatched, line, history, resetIO>>
  BY DEF Damaged, worker
<1>2. \A d \in Ends \ {e} : Variables(d)
  BY <1>0, <1>1 DEF Variables, TypeOK, history
<1>3. buf'[e] = <<>>
  BY <1>0, <1>1 DEF TypeOK
<1>4. StepOf(e)
  BY <1>0, <1>1, <1>2, SameLists DEF StepOf, history
<1>5. \A k, i, n : Listed(e, k, i, n)' <=> Listed(e, k, i, n)
  BY <1>1 DEF Listed
<1>6. Own(e)' /\ Own(Peer(e))'
  <2>1. \A i, n : ~Listed(e, "reset", i, n)'
    BY <1>0, <1>5 DEF Own
  <2>2. Side(e) = "daemon" => \A s, k, i, n : Has(out'[Base(e)], s, k, i, n) => s = Sid(e)
    BY <1>0, <1>1 DEF Own
  <2> QED
    BY <1>0, <1>1, <1>3, <1>4, <2>1, <2>2, OwnSends, OwnTakes
<1>7. Direction(e)'
  BY <1>0, <1>1, <1>3, <1>4, <1>5, SendsNoMore DEF history
<1>8. Direction(Peer(e))'
  BY <1>0, <1>1, <1>3, <1>4, <1>5, TakesStranger DEF history
<1> QED
  BY <1>0, <1>4, <1>6, <1>7, <1>8, Together

LEMMA NotUnderstoodKeeps ==
    ASSUME UInv, NEW e \in Ends, NotUnderstood(e)
    PROVE  UInv'
<1>0. /\ TypeOK /\ TypeOK' /\ Own(e) /\ Own(Peer(e)) /\ Direction(e) /\ Direction(Peer(e))
  BY EndTypes, EndFacts DEF UInv
<1> DEFINE o == AddFree(e, out[Base(e)])
<1>1. /\ alive' = [alive EXCEPT ![e] = "dead"] /\ alive[e] = "live"
      /\ index' = [index EXCEPT ![e] = @ + 1] /\ out' = [out EXCEPT ![Base(e)] = o]
      /\ UNCHANGED <<buf, open, pc, head, dispatched, line, history, resetIO>>
  BY DEF NotUnderstood, worker
<1>2. \A d \in Ends \ {e} : Variables(d)
  BY <1>0, <1>1 DEF Variables, TypeOK, history
<1>3. index'[e] = index[e] + 1 /\ alive'[e] = "dead"
  BY <1>0, <1>1 DEF TypeOK
<1>4. Adds(e, o, {}, {index[e] + 1})
  <2> DEFINE q == Package("free", Sid(e), index[e] + 1, 0)
  <2>1. q \in Pkg /\ out[Base(e)] \in Seq(QPkg) /\ chances \in Nat
    BY <1>0, FreeTypes, EndFacts DEF TypeOK
  <2>2. q.kind = "free" /\ q.s = Sid(e) /\ q.idx = index[e] + 1 /\ o = Add(out[Base(e)], q)
    BY DEF Package, AddFree
  <2> HIDE DEF q, o
  <2> QED
    BY <2>1, <2>2, AddOther DEF Adds, Is
<1> HIDE DEF o
<1>5. /\ \A d \in Ends \ {e} : Still(d)
      /\ Climbs(out[Base(e)], Sid(e)) => Climbs(out[Base(e)], Sid(e))'
      /\ \A k, i, n : Listed(e, k, i, n) => Listed(e, k, i, n)'
      /\ \A k, i, n : Listed(e, k, i, n)' => \/ Listed(e, k, i, n) \/ (k = "ack" /\ i \in {})
                                             \/ (k = "free" /\ i \in {index[e] + 1})
      /\ \A i, n : ~Listed(e, "reset", i, n)'
      /\ Side(e) = "daemon" => \A s, k, i, n : Has(out'[Base(e)], s, k, i, n) => s = Sid(e)
  BY <1>0, <1>1, <1>2, <1>4, AddsStill
<1>6. StepOf(e)
  BY <1>1, <1>3, <1>5 DEF StepOf, history
<1>7. Own(e)' /\ Own(Peer(e))'
  BY <1>0, <1>1, <1>5, <1>6, OwnSends, OwnKeeps DEF history
<1>8. Direction(e)'
  BY <1>0, <1>1, <1>3, <1>5, <1>6, SendsEnd DEF history
<1>9. Direction(Peer(e))'
  BY <1>0, <1>1, <1>5, <1>6, OtherWay DEF history
<1> QED
  BY <1>0, <1>6, <1>7, <1>8, <1>9, Together

LEMMA DisconnectKeeps ==
    ASSUME UInv, NEW s \in Sessions, Disconnect(s)
    PROVE  UInv'
<1> DEFINE e == <<"host", s>>
<1>e. e \in Ends
  BY DEF Ends
<1> HIDE DEF e
<1>0. /\ TypeOK /\ Own(e) /\ Own(Peer(e)) /\ Direction(e) /\ Direction(Peer(e)) /\ TypeOK'
  <2>1. TypeOK'
    BY NextTypes DEF UInv, Next
  <2> QED
    BY <1>e, <2>1, EndFacts DEF UInv
<1>1. /\ alive' = [alive EXCEPT ![e] = "dead"] /\ alive[e] = "live"
      /\ UNCHANGED <<out, buf, open, pc, head, index, dispatched, line, history, resetIO>>
  BY DEF Disconnect, worker, e
<1>2. \A d \in Ends \ {e} : Variables(d)
  BY <1>0, <1>1 DEF Variables, TypeOK, history
<1>3. StepOf(e)
  BY <1>e, <1>0, <1>1, <1>2, SameLists DEF StepOf, history, TypeOK
<1>4. \A k, i, n : Listed(e, k, i, n)' <=> Listed(e, k, i, n)
  BY <1>1 DEF Listed
<1>5. Own(e)' /\ Own(Peer(e))'
  <2>1. \A i, n : ~Listed(e, "reset", i, n)'
    BY <1>0, <1>4 DEF Own
  <2>2. Side(e) = "daemon" => \A x, k, i, n : Has(out'[Base(e)], x, k, i, n) => x = Sid(e)
    BY <1>0, <1>1 DEF Own
  <2> QED
    BY <1>e, <1>0, <1>1, <1>3, <2>1, <2>2, OwnSends, OwnKeeps DEF history
<1>6. Direction(e)' /\ Direction(Peer(e))'
  BY <1>e, <1>0, <1>1, <1>3, <1>4, SendsNoMore, OtherWay DEF history
<1> QED
  BY <1>e, <1>0, <1>3, <1>5, <1>6, Together

\* The direction of a step's own end, when packages leave its list: what was
\* not passed on yet only when the session ends.
LEMMA SendsFewer ==
    ASSUME TypeOK, TypeOK', NEW a \in Ends, StepOf(a), Direction(a),
           Climbs(out[Base(a)], Sid(a)) => Climbs(out[Base(a)], Sid(a))',
           \A k, i, n : k # "ack" /\ Listed(a, k, i, n)' => Listed(a, k, i, n),
           \/ Over(a)' \/ Silent(a)'
           \/ ~Over(a) => \A i, n \in Nat : N(a) < n /\ Listed(a, "data", i, n) => Listed(a, "data", i, n)',
           pc' = pc, head' = head, index'[a] = index[a], sent' = sent,
           buf'[a] = buf[a] \/ (buf[a] # <<>> /\ buf'[a] = Tail(buf[a])) \/ buf'[a] = <<>>
    PROVE  Direction(a)'
<1>1. Climbs(out[Base(a)], Sid(a))'
  BY DEF Direction, Sorted
<1>2. /\ Sorted(a)' /\ OverStays(a) /\ N(a)' = N(a) /\ D(a)' = D(a)
      /\ \A k, i, n : Coming(a, k, i, n)' => Coming(a, k, i, n)
      /\ \A i, n : Sent(Peer(a), "ack", i, n)' => Sent(Peer(a), "ack", i, n)
  BY <1>1, SendsLess, AnswersLess
<1>3. SameNumbers(a)
  BY <1>2 DEF SameNumbers, Busy
<1>4. Fewer(a)
  BY <1>2 DEF Fewer, Sent
<1>5. Stays(a)
  BY <1>2 DEF Stays, Direction, Unbroken, OverStays
<1> QED
  BY <1>2, <1>3, <1>4, <1>5, Frame

\* A list of a from which packages of its session have gone.
Drops(a, o) ==
  /\ o \in Seq(QPkg)
  /\ \A sid, k, i, n : Has(o, sid, k, i, n) => Has(out[Base(a)], sid, k, i, n)
  /\ \A sid, k, i, n : sid # Sid(a) /\ Has(out[Base(a)], sid, k, i, n) => Has(o, sid, k, i, n)
  /\ \A sid : Climbs(out[Base(a)], sid) => Climbs(o, sid)

LEMMA DropsStill ==
    ASSUME TypeOK, NEW a \in Ends, NEW o, Drops(a, o), Own(a),
           out' = [out EXCEPT ![Base(a)] = o], \A d \in Ends \ {a} : Variables(d)
    PROVE  /\ \A d \in Ends \ {a} : Still(d)
           /\ Climbs(out[Base(a)], Sid(a)) => Climbs(out[Base(a)], Sid(a))'
           /\ \A k, i, n : Listed(a, k, i, n)' => Listed(a, k, i, n)
           /\ \A i, n : ~Listed(a, "reset", i, n)'
           /\ Side(a) = "daemon" => \A s, k, i, n : Has(out'[Base(a)], s, k, i, n) => s = Sid(a)
           /\ out'[Base(a)] = o
<1>1. Others(out[Base(a)], o, Sid(a))
  BY DEF Others, Drops
<1>2. (\A d \in Ends \ {a} : Still(d)) /\ out'[Base(a)] = o
  BY <1>1, AllStill DEF Drops
<1>3. \A k, i, n : Listed(a, k, i, n)' => Listed(a, k, i, n)
  BY <1>2 DEF Listed, Drops
<1> QED
  BY <1>2, <1>3 DEF Own, Drops

LEMMA ClearDrops ==
    ASSUME TypeOK, NEW e \in Ends
    PROVE  /\ Drops(e, Clear(out[Base(e)], Sid(e)))
           /\ \A k, i, n : ~Has(Clear(out[Base(e)], Sid(e)), Sid(e), k, i, n)
<1>1. out[Base(e)] \in Seq(QPkg)
  BY EndFacts DEF TypeOK
<1> QED
  BY <1>1, ClearFacts DEF Drops

LEMMA AcknowledgedKeeps ==
    ASSUME UInv, NEW e \in Ends, Acknowledged(e)
    PROVE  UInv'
<1>0. /\ TypeOK /\ TypeOK' /\ Own(e) /\ Own(Peer(e)) /\ Direction(e) /\ Direction(Peer(e))
      /\ Peer(Peer(e)) = e /\ Peer(e) \in Ends \ {e} /\ out[Base(e)] \in Seq(QPkg)
      /\ Sid(Peer(e)) = Sid(e)
  BY AnswerTypes, EndFacts DEF UInv, TypeOK
<1> DEFINE h == Head(buf[e])
           K == {i \in DOMAIN out[Base(e)] : ~(/\ ~Response(out[Base(e)][i])
                                               /\ out[Base(e)][i].s = h.s /\ out[Base(e)][i].idx = h.idx)}
           o == Kept(out[Base(e)], K)
<1>1. /\ buf[e] # <<>> /\ h.kind = "ack" /\ buf' = [buf EXCEPT ![e] = Tail(@)]
      /\ out' = [out EXCEPT ![Base(e)] = o]
      /\ UNCHANGED <<alive, open, pc, head, index, dispatched, line, history, resetIO>>
  BY DEF Acknowledged, Comes, worker
<1>2. h.s = Sid(e)
  BY <1>0, <1>1, Stranger
<1>3. \A d \in Ends \ {e} : Variables(d)
  BY <1>0, <1>1 DEF Variables, TypeOK, history
<1>4. buf'[e] = Tail(buf[e])
  BY <1>0, <1>1 DEF TypeOK
<1>5. /\ o \in Seq(QPkg)
      /\ \A sid, k, i, n : Has(o, sid, k, i, n) <=> \E j \in K : Is(out[Base(e)][j], sid, k, i, n)
      /\ \A sid : Climbs(out[Base(e)], sid) => Climbs(o, sid)
  <2>1. K \in SUBSET (DOMAIN out[Base(e)])
    OBVIOUS
  <2> HIDE DEF K
  <2> QED
    BY <1>0, <2>1, KeptFacts
<1>6. ASSUME NEW sid, NEW k, NEW i, NEW n, Has(out[Base(e)], sid, k, i, n)
      PROVE  Has(o, sid, k, i, n) \/ (sid = h.s /\ i = h.idx)
  <2>1. PICK j \in DOMAIN out[Base(e)] : Is(out[Base(e)][j], sid, k, i, n)
    BY <1>6 DEF Has
  <2>2. CASE j \in K
    <3> HIDE DEF o, K
    <3> QED
      BY <1>5, <2>1, <2>2
  <2>3. CASE j \notin K
    BY <2>1, <2>3 DEF Is
  <2> QED
    BY <2>2, <2>3
<1>7. Drops(e, o)
  BY <1>2, <1>5, <1>6 DEF Drops, Has
<1> HIDE DEF o, K
<1>8. /\ \A d \in Ends \ {e} : Still(d)
      /\ Climbs(out[Base(e)], Sid(e)) => Climbs(out[Base(e)], Sid(e))'
      /\ \A k, i, n : Listed(e, k, i, n)' => Listed(e, k, i, n)
      /\ \A i, n : ~Listed(e, "reset", i, n)'
      /\ Side(e) = "daemon" => \A s, k, i, n : Has(out'[Base(e)], s, k, i, n) => s = Sid(e)
      /\ out'[Base(e)] = o
  BY <1>0, <1>1, <1>3, <1>7, DropsStill
<1>9. StepOf(e)
  BY <1>1, <1>8 DEF StepOf, history
<1>10. Own(e)' /\ Own(Peer(e))'
  BY <1>0, <1>1, <1>4, <1>8, <1>9, OwnSends, OwnTakes
<1>11. ASSUME ~Over(e), NEW i \in Nat, NEW n \in Nat, N(e) < n, Listed(e, "data", i, n)
       PROVE  Listed(e, "data", i, n)'
  <2>1. h \in WPkg /\ h = buf[e][1] /\ 1 \in DOMAIN buf[e]
    <3>1. buf[e] \in Seq(WPkg)
      BY <1>0 DEF TypeOK
    <3> QED
      BY <1>1, <3>1
  <2>2. Has(buf[e], Sid(e), "ack", h.idx, h.n) /\ h.idx \in Nat /\ h.n \in Nat
    BY <1>1, <1>2, <2>1 DEF Has, Is, WPkg
  <2>3. Sent(Peer(e), "ack", h.idx, h.n)
    BY <1>0, <2>2 DEF Sent, Coming
  <2>4. i # h.idx
    <3>1. Unbroken(e) /\ N(e) \in Nat
      BY <1>0, <1>11, NumberTypes DEF Direction
    <3>2. i = h.idx => n <= N(e)
      BY <1>11, <2>2, <2>3, <3>1 DEF Unbroken
    <3> QED
      BY <1>11, <3>1, <3>2
  <2> QED
    BY <1>6, <1>8, <1>11, <2>4 DEF Listed
<1> HIDE DEF h
<1>12. Direction(e)'
  BY <1>0, <1>1, <1>4, <1>8, <1>9, <1>11, SendsFewer DEF history
<1>13. Direction(Peer(e))'
  BY <1>0, <1>1, <1>4, <1>8, <1>9, TakesStranger DEF history
<1> QED
  BY <1>0, <1>9, <1>10, <1>12, <1>13, Together

\* A session that ends keeps nothing in its list.
LEMMA EndsDirection ==
    ASSUME TypeOK, TypeOK', NEW a \in Ends, Side(a) = "host" => Sid(a) \notin open' \/ alive'[a] = "gone",
           Side(a) = "daemon" => alive'[a] # "live"
    PROVE  Over(a)' \/ Silent(a)'
  BY EndFacts DEF Over, Silent

LEMMA ContinueKeeps ==
    ASSUME UInv, NEW e \in Ends, FreeSessionContinue(e)
    PROVE  UInv'
<1>0. /\ TypeOK /\ TypeOK' /\ Own(e) /\ Own(Peer(e)) /\ Direction(e) /\ Direction(Peer(e))
  BY EndTypes, EndFacts DEF UInv
<1> DEFINE o == Clear(out[Base(e)], Sid(e))
<1>1. /\ alive' = [alive EXCEPT ![e] = "gone"] /\ alive[e] = "dead"
      /\ out' = [out EXCEPT ![Base(e)] = o]
      /\ UNCHANGED <<buf, open, pc, head, index, dispatched, line, history, resetIO>>
  BY DEF FreeSessionContinue, worker
<1>2. \A d \in Ends \ {e} : Variables(d)
  BY <1>0, <1>1 DEF Variables, TypeOK, history
<1>3. Drops(e, o)
  BY <1>0, ClearDrops
<1> HIDE DEF o
<1>4. /\ \A d \in Ends \ {e} : Still(d)
      /\ Climbs(out[Base(e)], Sid(e)) => Climbs(out[Base(e)], Sid(e))'
      /\ \A k, i, n : Listed(e, k, i, n)' => Listed(e, k, i, n)
      /\ \A i, n : ~Listed(e, "reset", i, n)'
      /\ Side(e) = "daemon" => \A s, k, i, n : Has(out'[Base(e)], s, k, i, n) => s = Sid(e)
  BY <1>0, <1>1, <1>2, <1>3, DropsStill
<1>5. alive'[e] = "gone"
  BY <1>0, <1>1 DEF TypeOK
<1>6. StepOf(e)
  BY <1>1, <1>4, <1>5 DEF StepOf, history
<1>7. Own(e)' /\ Own(Peer(e))'
  BY <1>0, <1>1, <1>4, <1>6, OwnSends, OwnKeeps DEF history
<1>8. Over(e)' \/ Silent(e)'
  BY <1>0, <1>5, EndsDirection
<1>9. Direction(e)' /\ Direction(Peer(e))'
  BY <1>0, <1>1, <1>4, <1>6, <1>8, SendsFewer, OtherWay DEF history
<1> QED
  BY <1>0, <1>6, <1>7, <1>9, Together

LEMMA ReadFailsKeeps ==
    ASSUME UInv, NEW e \in Ends, ReadFails(e)
    PROVE  UInv'
<1>0. /\ TypeOK /\ TypeOK' /\ Own(e) /\ Own(Peer(e)) /\ Direction(e) /\ Direction(Peer(e))
      /\ EndOf("host", Sid(e)) = e /\ Base(e) = "host" /\ Side(e) = "host"
  BY EndTypes, EndFacts DEF UInv, ReadFails
<1> DEFINE o == Clear(out[Base(e)], Sid(e))
<1>1. /\ alive' = [alive EXCEPT ![e] = IF @ = "live" THEN "dead" ELSE @]
      /\ out' = [out EXCEPT ![Base(e)] = o] /\ open' = open \ {Sid(e)}
      /\ UNCHANGED <<buf, pc, head, index, dispatched, line, history, resetIO>>
  <2>1. TransferError("host", out["host"], {Sid(e)}) /\ (CHOOSE x \in {Sid(e)} : TRUE) = Sid(e)
    BY DEF ReadFails
  <2>2. UNCHANGED <<buf, pc, head, index, dispatched, line, history, resetIO>>
    BY DEF ReadFails, worker
  <2> QED
    BY <1>0, <2>1, <2>2 DEF TransferError
<1>2. \A d \in Ends \ {e} : Variables(d)
  BY <1>0, <1>1 DEF Variables, TypeOK, history
<1>3. Drops(e, o)
  BY <1>0, ClearDrops
<1> HIDE DEF o
<1>4. /\ \A d \in Ends \ {e} : Still(d)
      /\ Climbs(out[Base(e)], Sid(e)) => Climbs(out[Base(e)], Sid(e))'
      /\ \A k, i, n : Listed(e, k, i, n)' => Listed(e, k, i, n)
      /\ \A i, n : ~Listed(e, "reset", i, n)'
      /\ Side(e) = "daemon" => \A s, k, i, n : Has(out'[Base(e)], s, k, i, n) => s = Sid(e)
  BY <1>0, <1>1, <1>2, <1>3, DropsStill
<1>5. alive'[e] = IF alive[e] = "live" THEN "dead" ELSE alive[e]
  BY <1>0, <1>1 DEF TypeOK
<1>6. StepOf(e)
  BY <1>1, <1>4, <1>5 DEF StepOf, history
<1>7. Own(e)' /\ Own(Peer(e))'
  BY <1>0, <1>1, <1>4, <1>6, OwnSends, OwnKeeps DEF history
<1>8. Silent(e)'
  BY <1>0, <1>1 DEF Silent
<1>9. Direction(e)' /\ Direction(Peer(e))'
  BY <1>0, <1>1, <1>4, <1>6, <1>8, SendsFewer, OtherWay DEF history
<1> QED
  BY <1>0, <1>6, <1>7, <1>9, Together

\* The other side ends the session: its request is answered, and the index
\* of the answer is that of the request and of no package.
LEMMA FreedComes ==
    ASSUME TypeOK, TypeOK', NEW a \in Ends, StepOf(a), Direction(Peer(a)), buf[a] # <<>>,
           buf'[a] = Tail(buf[a]), Head(buf[a]).kind = "free", Head(buf[a]).s = Sid(a),
           delivered'[a] = delivered[a], dispatched'[a] = dispatched[a],
           \A i, n : Listed(a, "ack", i, n)' => Listed(a, "ack", i, n) \/ i = Head(buf[a]).idx
    PROVE  Direction(Peer(a))'
<1> DEFINE p == Peer(a)
           x == Head(buf[a]).idx
<1>1. p \in Ends \ {a} /\ Still(p) /\ Peer(p) = a /\ line' = line /\ Sid(p) = Sid(a)
  BY EndFacts DEF StepOf
<1>2. SameNumbers(p) /\ OverStays(p)
  BY <1>1, StepKeepsOver DEF Still, SameNumbers, Busy, N, D
<1>3. Sorted(p)' /\ \A k, i, n : Coming(p, k, i, n)' => Coming(p, k, i, n)
  <2>1. Sorted(p) /\ Climbs(out[Base(p)], Sid(p))'
    BY <1>1 DEF Direction, Sorted, Still
  <2> QED
    BY <1>1, <2>1, SortedLess DEF Still
<1>4. \A i, n : Sent(a, "ack", i, n)' => Sent(a, "ack", i, n) \/ i = x
  BY <1>1 DEF Sent, Coming, Still
<1>5. \A k, i, n : Listed(p, k, i, n)' <=> Listed(p, k, i, n)
  BY <1>1 DEF Still
<1>6. \A k, i, n : Sent(p, k, i, n)' => Sent(p, k, i, n)
  BY <1>3, <1>5 DEF Sent
<1>7. x \in Nat /\ Head(buf[a]).n \in Nat /\ Sent(p, "free", x, Head(buf[a]).n)
  <2>1. buf[a] \in Seq(WPkg)
    BY DEF TypeOK
  <2>2. Head(buf[a]) \in WPkg /\ Head(buf[a]) = buf[a][1] /\ 1 \in DOMAIN buf[a]
    BY <2>1
  <2> QED
    BY <1>1, <2>2 DEF Sent, Coming, Has, Is, WPkg
<1> HIDE DEF x
<1>8. Fresh(p) /\ Once(p)
  BY DEF Direction
<1>9. x > 0 /\ x <= index[p] /\ (Busy(p) => x # head[p])
  BY <1>7, <1>8 DEF Fresh
<1>10. \A i, n \in Nat : Listed(p, "data", i, n) => i # x
  BY <1>7, <1>8 DEF Fresh
<1> HIDE DEF p
<1>11. Fresh(p)'
  <2>1. ASSUME NEW i \in Nat, NEW n \in Nat, Sent(Peer(p), "ack", i, n)'
        PROVE  i <= index'[p] /\ (Busy(p)' => i # head'[p])
    BY <1>1, <1>2, <1>4, <1>8, <1>9, <2>1 DEF Fresh, SameNumbers
  <2>2. /\ Busy(p)' => head'[p] \in 1..index'[p]
        /\ \A k \in {"data", "free"}, i, n \in Nat : Sent(p, k, i, n)' =>
              i > 0 /\ i <= index'[p] /\ (Busy(p)' => i # head'[p])
        /\ \A i, n \in Nat : Sent(p, "data", i, n)' =>
              n > 0 /\ n <= sent'[p] /\ (Busy(p)' => i < head'[p])
        /\ \A i, n, j, m \in Nat : Sent(p, "free", i, n)' /\ Listed(p, "data", j, m)' => i # j
    BY <1>2, <1>5, <1>6, <1>8 DEF Fresh, SameNumbers
  <2> QED
    BY <2>1, <2>2 DEF Fresh
<1>12. Once(p)'
  BY <1>2, <1>6, <1>8 DEF Once, SameNumbers, OverStays
<1>13. ASSUME ~Over(p)'
       PROVE  Unbroken(p)'
  <2>1. ~Over(p) /\ Unbroken(p)
    BY <1>2, <1>13 DEF OverStays, Direction, p
  <2> QED
    BY <1>1, <1>2, <1>3, <1>4, <1>5, <1>10, <2>1 DEF Unbroken, SameNumbers, OverStays
<1> QED
  BY <1>3, <1>11, <1>12, <1>13 DEF Direction, p

LEMMA FreedKeeps ==
    ASSUME UInv, NEW e \in Ends, Freed(e)
    PROVE  UInv'
<1>0. /\ TypeOK /\ TypeOK' /\ Own(e) /\ Own(Peer(e)) /\ Direction(e) /\ Direction(Peer(e))
      /\ EndOf(Base(e), Sid(e)) = e /\ out[Base(e)] \in Seq(QPkg) /\ chances \in Nat
      /\ Side(e) = "host" <=> Base(e) = "host"
  BY AnswerTypes, EndFacts DEF UInv, TypeOK
<1> DEFINE h == Head(buf[e])
           q == IF Found(Base(e), Sid(e)) THEN Clear(out[Base(e)], Sid(e)) ELSE out[Base(e)]
           x == Package("ack", h.s, h.idx, 0)
           o == Add(q, x)
<1>1. /\ buf[e] # <<>> /\ h.kind = "free" /\ buf' = [buf EXCEPT ![e] = Tail(@)]
      /\ out' = [out EXCEPT ![Base(e)] = o]
      /\ alive' = [alive EXCEPT ![e] = IF @ = "live" THEN "dead" ELSE @]
      /\ open' = IF Base(e) = "host" THEN open \ {Sid(e)} ELSE open
      /\ UNCHANGED <<pc, head, index, dispatched, line, history, resetIO>>
  BY DEF Freed, Comes, worker, AddAck
<1>2. h.s = Sid(e)
  BY <1>0, <1>1, Stranger
<1>3. \A d \in Ends \ {e} : Variables(d)
  BY <1>0, <1>1 DEF Variables, TypeOK, history
<1>4. buf'[e] = Tail(buf[e]) /\ alive'[e] = IF alive[e] = "live" THEN "dead" ELSE alive[e]
  BY <1>0, <1>1 DEF TypeOK
<1>5. Drops(e, q)
  <2>1. Drops(e, out[Base(e)])
    BY <1>0 DEF Drops
  <2> QED
    BY <1>0, <2>1, ClearDrops
<1>6. x \in Pkg /\ x.kind = "ack" /\ x.s = Sid(e) /\ x.idx = h.idx
  BY <1>0, <1>1, <1>2, AckTypes DEF Package
<1> HIDE DEF q, x
<1>7. /\ o \in Seq(QPkg)
      /\ \A sid, k, i, n : Has(q, sid, k, i, n) => Has(o, sid, k, i, n)
      /\ \A sid, k, i, n : Has(o, sid, k, i, n) => Has(q, sid, k, i, n) \/ Is(x, sid, k, i, n)
      /\ \A sid : Climbs(q, sid) => Climbs(o, sid)
  BY <1>0, <1>5, <1>6, AddOther DEF Drops
<1>8. Others(out[Base(e)], o, Sid(e))
  BY <1>5, <1>6, <1>7 DEF Drops, Others, Is
<1> HIDE DEF o
<1>9. (\A d \in Ends \ {e} : Still(d)) /\ out'[Base(e)] = o
  BY <1>0, <1>1, <1>3, <1>7, <1>8, AllStill
<1>10. /\ Climbs(out[Base(e)], Sid(e)) => Climbs(out[Base(e)], Sid(e))'
       /\ \A k, i, n : Listed(e, k, i, n)' => Listed(e, k, i, n) \/ (k = "ack" /\ i = h.idx)
       /\ Side(e) = "daemon" => \A s, k, i, n : Has(out'[Base(e)], s, k, i, n) => s = Sid(e)
  BY <1>0, <1>5, <1>6, <1>7, <1>9 DEF Listed, Drops, Is, Own
<1>11. StepOf(e)
  BY <1>0, <1>1, <1>4, <1>9 DEF StepOf, history
<1>12. Own(e)' /\ Own(Peer(e))'
  <2>1. \A i, n : ~Listed(e, "reset", i, n)'
    BY <1>0, <1>10 DEF Own
  <2> QED
    BY <1>0, <1>1, <1>4, <1>10, <1>11, <2>1, OwnSends, OwnTakes
<1>13. Over(e)' \/ Silent(e)'
  <2>1. Side(e) = "host" => Sid(e) \notin open'
    BY <1>0, <1>1
  <2>2. alive'[e] # "live"
    BY <1>4
  <2> QED
    BY <1>0, <2>1, <2>2, EndsDirection
<1>14. Direction(e)'
  BY <1>0, <1>1, <1>4, <1>10, <1>11, <1>13, SendsFewer DEF history
<1>15. Direction(Peer(e))'
  BY <1>0, <1>1, <1>2, <1>4, <1>10, <1>11, FreedComes DEF history
<1> QED
  BY <1>0, <1>11, <1>12, <1>14, <1>15, Together

(***************************************************************************)
(* The lines and the send threads.                                         *)
(***************************************************************************)
\* A step that only moves or loses what is on its way to the other end.
LEMMA LinkKeeps ==
    ASSUME TypeOK, TypeOK', UNCHANGED <<out, alive, open, pc, head, index, dispatched, history, resetIO>>,
           \A f \in Ends : \A k, i, n : Coming(f, k, i, n)' => Coming(f, k, i, n),
           NEW d \in Ends, Direction(d),
           Rises(buf'[Peer(d)], Sid(d)), Rises(line'[d], Sid(d)),
           \A i, n, j, m \in Nat :
              Has(buf'[Peer(d)], Sid(d), "data", i, n) /\ Has(line'[d], Sid(d), "data", j, m) => LE(i, n, j, m)
    PROVE  Direction(d)'
<1>1. SameNumbers(d)
  BY DEF SameNumbers, Busy, N, D, history
<1>2. OverStays(d)
  BY DEF OverStays, Over, Silent, history
<1>3. \A f \in Ends : \A k, i, n : Listed(f, k, i, n)' <=> Listed(f, k, i, n)
  BY DEF Listed
<1>4. \A i, n : Sent(Peer(d), "ack", i, n)' => Sent(Peer(d), "ack", i, n)
  BY <1>3, EndFacts DEF Sent
<1>5. Sorted(d)'
  BY <1>3 DEF Direction, Sorted
<1> QED
  BY <1>1, <1>2, <1>3, <1>4, <1>5, SameFrame

LEMMA ReadKeeps ==
    ASSUME UInv, NEW e \in Ends, ReadUartDev(e)
    PROVE  UInv'
<1> DEFINE p == Peer(e)
<1>0. TypeOK /\ TypeOK' /\ p \in Ends /\ Peer(p) = e /\ Sid(p) = Sid(e)
  BY LinkTypes, EndFacts DEF UInv
<1>1. PICK m \in DOMAIN line[p] :
        /\ buf' = [buf EXCEPT ![e] = SubSeq(line[p], 1, m)]
        /\ line' = [line EXCEPT ![p] = SubSeq(line[p], m + 1, Len(line[p]))]
  BY DEF ReadUartDev
<1>2. /\ UNCHANGED <<out, alive, open, pc, head, index, dispatched, history, resetIO>>
      /\ buf[e] = <<>>
  BY DEF ReadUartDev, worker
<1> HIDE DEF p
<1> DEFINE l == line[p]
<1>3. l \in Seq(WPkg) /\ m \in DOMAIN l
  BY <1>0 DEF TypeOK
<1>4. /\ buf'[e] = SubSeq(l, 1, m) /\ line'[p] = SubSeq(l, m + 1, Len(l))
      /\ \A d \in Ends : (d # e => buf'[d] = buf[d]) /\ (d # p => line'[d] = line[d])
  BY <1>0, <1>1 DEF TypeOK
<1> HIDE DEF l
<1>5. /\ DOMAIN buf'[e] = 1..m /\ \A i \in 1..m : buf'[e][i] = l[i] /\ i \in DOMAIN l
      /\ DOMAIN line'[p] = 1..(Len(l) - m)
      /\ \A i \in 1..(Len(l) - m) : line'[p][i] = l[m + i] /\ m + i \in DOMAIN l
      /\ m \in Nat /\ m >= 1 /\ Len(l) \in Nat
  <2>1. DOMAIN l = 1..Len(l) /\ Len(l) \in Nat
    BY <1>3
  <2>2. /\ DOMAIN SubSeq(l, 1, m) = 1..m /\ \A i \in 1..m : SubSeq(l, 1, m)[i] = l[i]
        /\ DOMAIN SubSeq(l, m + 1, Len(l)) = 1..(Len(l) - m)
        /\ \A i \in 1..(Len(l) - m) : SubSeq(l, m + 1, Len(l))[i] = l[m + i]
        /\ 1..m \subseteq DOMAIN l /\ \A i \in 1..(Len(l) - m) : m + i \in DOMAIN l
    BY <1>3, ReadFacts
  <2> QED
    BY <1>3, <1>4, <2>1, <2>2
<1>6. \A f \in Ends : \A k, i, n : Coming(f, k, i, n)' => Coming(f, k, i, n)
  <2> SUFFICES ASSUME NEW f \in Ends, NEW k, NEW i, NEW n, Coming(f, k, i, n)'
               PROVE  Coming(f, k, i, n)
    OBVIOUS
  <2>1. CASE f = p
    <3>1. Has(buf'[e], Sid(f), k, i, n) \/ Has(line'[p], Sid(f), k, i, n)
      BY <1>0, <2>1 DEF Coming
    <3>2. Has(l, Sid(f), k, i, n)
      BY <1>5, <3>1 DEF Has
    <3> QED
      BY <2>1, <3>2 DEF Coming, l
  <2>2. CASE f # p
    <3>1. Peer(f) # e
      BY <1>0, <2>2, EndFacts DEF p
    <3> QED
      BY <1>4, <2>2, <3>1, EndFacts DEF Coming
  <2> QED
    BY <2>1, <2>2
<1>7. ASSUME NEW d \in Ends
      PROVE  Direction(d)'
  <2>1. Direction(d) /\ Sorted(d)
    BY DEF UInv, Direction
  <2>2. /\ Rises(buf'[Peer(d)], Sid(d)) /\ Rises(line'[d], Sid(d))
        /\ \A i, n, j, c \in Nat :
              Has(buf'[Peer(d)], Sid(d), "data", i, n) /\ Has(line'[d], Sid(d), "data", j, c) => LE(i, n, j, c)
    <3>1. CASE d = p
      <4>1. Rises(l, Sid(d))
        BY <2>1, <3>1 DEF Sorted, l
      <4>2. Rises(buf'[e], Sid(d))
        BY <1>5, <4>1 DEF Rises
      <4>3. Rises(line'[p], Sid(d))
        <5> SUFFICES ASSUME NEW i \in 1..(Len(l) - m), NEW j \in 1..(Len(l) - m), i < j,
                            Data(l[m + i], Sid(d)), Data(l[m + j], Sid(d))
                     PROVE  LE(l[m + i].idx, l[m + i].n, l[m + j].idx, l[m + j].n)
          BY <1>5 DEF Rises
        <5>1. m + i < m + j /\ m + i \in DOMAIN l /\ m + j \in DOMAIN l
          BY <1>5
        <5> QED
          BY <4>1, <5>1 DEF Rises
      <4>4. ASSUME NEW i \in Nat, NEW n \in Nat, NEW j \in Nat, NEW c \in Nat,
                   Has(buf'[e], Sid(d), "data", i, n), Has(line'[p], Sid(d), "data", j, c)
            PROVE  LE(i, n, j, c)
        <5>1. PICK u \in 1..m : Is(l[u], Sid(d), "data", i, n)
          BY <1>5, <4>4 DEF Has
        <5>2. PICK v \in 1..(Len(l) - m) : Is(l[m + v], Sid(d), "data", j, c)
          BY <1>5, <4>4 DEF Has
        <5>3. u < m + v /\ u \in DOMAIN l /\ m + v \in DOMAIN l
          BY <1>5
        <5> QED
          BY <4>1, <5>1, <5>2, <5>3 DEF Rises, Data, Is
      <4> QED
        BY <1>0, <3>1, <4>2, <4>3, <4>4
    <3>2. CASE d # p
      <4>1. Peer(d) # e /\ Peer(d) \in Ends
        BY <1>0, <3>2, EndFacts DEF p
      <4> QED
        BY <1>4, <2>1, <3>2, <4>1 DEF Sorted
    <3> QED
      BY <3>1, <3>2
  <2> QED
    BY <1>0, <1>2, <1>6, <2>1, <2>2, LinkKeeps
<1>8. ASSUME NEW d \in Ends
      PROVE  Own(d)'
  <2>1. Own(d) /\ N(d)' = N(d) /\ D(d)' = D(d)
    BY <1>2 DEF UInv, N, D, history
  <2>2. Unseen(d) => Unseen(d)'
    BY <1>2, <2>1 DEF Unseen
  <2>3. /\ \A i, n : ~Listed(d, "reset", i, n)'
        /\ Side(d) = "daemon" => \A s, k, i, n : Has(out'[Base(d)], s, k, i, n) => s = Sid(d)
    BY <1>2, <2>1 DEF Own, Listed
  <2>4. CASE d = p
    <3>1. \A j \in DOMAIN l : l[j].s = Sid(d) \/ (j = 1 /\ OldOne(d, l[1]))
      BY <2>1, <2>4 DEF Own, l
    <3>2. \A j \in DOMAIN buf'[e] : buf'[e][j].s = Sid(d) \/ (j = 1 /\ IsOld(buf'[e][1]) /\ Unseen(d)')
      BY <1>5, <2>2, <3>1 DEF OldOne
    <3>3. \A j \in DOMAIN line'[p] : line'[p][j].s = Sid(d)
      BY <1>5, <3>1
    <3> QED
      BY <1>0, <2>3, <2>4, <3>2, <3>3 DEF Own, OldOne
  <2>5. CASE d # p
    <3>1. Peer(d) # e /\ Peer(d) \in Ends
      BY <1>0, <2>5, EndFacts DEF p
    <3>2. buf'[Peer(d)] = buf[Peer(d)] /\ line'[d] = line[d]
      BY <1>4, <2>5, <3>1
    <3> QED
      BY <2>1, <2>2, <2>3, <3>2 DEF Own, OldOne, IsOld
  <2> QED
    BY <2>4, <2>5
<1> QED
  BY <1>0, <1>7, <1>8 DEF UInv

\* What Noise makes of a line: no package appears or changes its place.
SameAs(x, y) == x.s = y.s /\ x.kind = y.kind /\ x.idx = y.idx /\ x.n = y.n

Disturbed(w, l, i) ==
  \/ w = Kept(l, DOMAIN l \ {i})
  \/ DOMAIN w = DOMAIN l /\ \A j \in DOMAIN l : SameAs(w[j], l[j])
PartOf(w, l) ==
  /\ \A sid, k, x, n : Has(w, sid, k, x, n) => Has(l, sid, k, x, n)
  /\ \A sid : Rises(l, sid) => Rises(w, sid)
  /\ \A j \in DOMAIN w : \E c \in DOMAIN l :
        /\ (j # 1 => c # 1) /\ w[j].s = l[c].s /\ w[j].kind = l[c].kind /\ w[j].idx = l[c].idx

LEMMA NoiseFacts ==
    ASSUME NEW l \in Seq(WPkg), NEW i \in DOMAIN l, NEW w, Disturbed(w, l, i)
    PROVE  PartOf(w, l)
<1> USE DEF PartOf
<1>1. CASE w = Kept(l, DOMAIN l \ {i})
  <2> DEFINE K == DOMAIN l \ {i}
  <2>1. K \in SUBSET (DOMAIN l) /\ w = Kept(l, K)
    BY <1>1
  <2> HIDE DEF K
  <2>2. /\ w \in Seq(WPkg)
        /\ \A sid, k, x, n : Has(w, sid, k, x, n) <=> \E j \in K : Is(l[j], sid, k, x, n)
        /\ \A sid : Rises(l, sid) => Rises(w, sid)
        /\ \A x \in DOMAIN w, y \in DOMAIN w : x < y =>
              \E a, c \in K : a < c /\ w[x] = l[a] /\ w[y] = l[c]
        /\ \A x \in DOMAIN w : \E a \in K : w[x] = l[a]
    BY <2>1, KeptFacts
  <2>3. \A sid, k, x, n : Has(w, sid, k, x, n) => Has(l, sid, k, x, n)
    BY <2>1, <2>2 DEF Has
  <2>4. ASSUME NEW j \in DOMAIN w
        PROVE  \E c \in DOMAIN l : (j # 1 => c # 1) /\ w[j] = l[c]
    <3>1. CASE j = 1
      BY <2>1, <2>2, <3>1
    <3>2. CASE j # 1
      <4>1. 1 \in DOMAIN w /\ 1 < j
        BY <2>2, <3>2
      <4>2. PICK a \in K, c \in K : a < c /\ w[j] = l[c]
        BY <2>2, <4>1
      <4>3. c # 1 /\ c \in DOMAIN l
        BY <2>1, <4>2
      <4> QED
        BY <4>2, <4>3
    <3> QED
      BY <3>1, <3>2
  <2> QED
    BY <2>2, <2>3, <2>4
<1>2. CASE DOMAIN w = DOMAIN l /\ \A j \in DOMAIN l : SameAs(w[j], l[j])
  <2>1. DOMAIN w = DOMAIN l
    BY <1>2
  <2>2. \A j \in DOMAIN l : w[j].s = l[j].s /\ w[j].kind = l[j].kind /\ w[j].idx = l[j].idx /\ w[j].n = l[j].n
    BY <1>2 DEF SameAs
  <2>3. \A sid, k, x, n : Has(w, sid, k, x, n) => Has(l, sid, k, x, n)
    BY <2>1, <2>2 DEF Has, Is
  <2>4. \A sid : Rises(l, sid) => Rises(w, sid)
    BY <2>1, <2>2 DEF Rises, Data
  <2> QED
    BY <2>1, <2>2, <2>3, <2>4
<1> QED
  BY <1>1, <1>2 DEF Disturbed

LEMMA NoiseKeeps ==
    ASSUME UInv, NEW e \in Ends, Noise(e)
    PROVE  UInv'
<1>0. TypeOK /\ TypeOK' /\ line[e] \in Seq(WPkg)
  BY LinkTypes DEF UInv, TypeOK
<1>1. PICK c \in DOMAIN line[e] :
        \/ line' = [line EXCEPT ![e] = Kept(line[e], DOMAIN line[e] \ {c})]
        \/ line' = [line EXCEPT ![e] = [line[e] EXCEPT ![c] = [line[e][c] EXCEPT !.bad = TRUE]]]
  BY DEF Noise
<1>2. UNCHANGED <<out, alive, open, pc, head, index, dispatched, buf, history, resetIO>>
  BY DEF Noise, worker
<1>3. /\ line'[e] = Kept(line[e], DOMAIN line[e] \ {c}) \/ line'[e] = [line[e] EXCEPT ![c] = [line[e][c] EXCEPT !.bad = TRUE]]
      /\ \A d \in Ends : d # e => line'[d] = line[d]
  <2>1. DOMAIN line = Ends
    BY <1>0 DEF TypeOK
  <2> QED
    BY <1>1, <2>1
<1>4. /\ \A sid, k, x, n : Has(line'[e], sid, k, x, n) => Has(line[e], sid, k, x, n)
      /\ \A sid : Rises(line[e], sid) => Rises(line'[e], sid)
      /\ \A j \in DOMAIN line'[e] : \E a \in DOMAIN line[e] :
            /\ (j # 1 => a # 1) /\ line'[e][j].s = line[e][a].s
            /\ line'[e][j].kind = line[e][a].kind /\ line'[e][j].idx = line[e][a].idx
  <2> DEFINE l == line[e]
             w == line'[e]
  <2>1. l \in Seq(WPkg) /\ c \in DOMAIN l
    BY <1>0
  <2>2. Disturbed(w, l, c)
    <3> DEFINE r == [l[c] EXCEPT !.bad = TRUE]
    <3>1. SameAs(r, l[c])
      <4>1. l[c] \in WPkg
        BY <2>1
      <4> QED
        BY <4>1 DEF WPkg, SameAs
    <3>2. CASE w = [l EXCEPT ![c] = r]
      <4>1. DOMAIN w = DOMAIN l /\ \A j \in DOMAIN l : w[j] = IF j = c THEN r ELSE l[j]
        BY <3>2
      <4> HIDE DEF r, w, l
      <4>2. DOMAIN w = DOMAIN l /\ \A j \in DOMAIN l : SameAs(w[j], l[j])
        BY <3>1, <4>1 DEF SameAs
      <4> QED
        BY <4>2 DEF Disturbed
    <3> QED
      BY <1>3, <3>2 DEF Disturbed
  <2> HIDE DEF l, w
  <2>3. PartOf(w, l)
    BY <2>1, <2>2, NoiseFacts
  <2> QED
    BY <2>3 DEF l, w, PartOf
<1>5. \A d \in Ends : \A sid, k, x, n : Has(line'[d], sid, k, x, n) => Has(line[d], sid, k, x, n)
  BY <1>3, <1>4
<1>6. \A f \in Ends : \A k, i, n : Coming(f, k, i, n)' => Coming(f, k, i, n)
  BY <1>2, <1>5 DEF Coming
<1>7. ASSUME NEW d \in Ends
      PROVE  Direction(d)'
  <2>1. Direction(d) /\ Sorted(d)
    BY DEF UInv, Direction
  <2>2. Rises(buf'[Peer(d)], Sid(d)) /\ Rises(line'[d], Sid(d))
    BY <1>2, <1>3, <1>4, <2>1 DEF Sorted
  <2>3. \A i, n, j, m \in Nat :
              Has(buf'[Peer(d)], Sid(d), "data", i, n) /\ Has(line'[d], Sid(d), "data", j, m) => LE(i, n, j, m)
    BY <1>2, <1>5, <2>1 DEF Sorted
  <2> QED
    BY <1>0, <1>2, <1>6, <2>1, <2>2, <2>3, LinkKeeps
<1>8. ASSUME NEW d \in Ends
      PROVE  Own(d)'
  <2>1. Own(d) /\ N(d)' = N(d) /\ D(d)' = D(d)
    BY <1>2 DEF UInv, N, D, history
  <2>2. Unseen(d) => Unseen(d)'
    BY <1>2, <2>1 DEF Unseen
  <2>3. /\ \A i, n : ~Listed(d, "reset", i, n)'
        /\ Side(d) = "daemon" => \A s, k, i, n : Has(out'[Base(d)], s, k, i, n) => s = Sid(d)
    BY <1>2, <2>1 DEF Own, Listed
  <2>4. ASSUME NEW j \in DOMAIN line'[d]
        PROVE  line'[d][j].s = Sid(d) \/ (j = 1 /\ buf'[Peer(d)] = <<>> /\ IsOld(line'[d][1]) /\ Unseen(d)')
    <3>1. CASE d = e
      <4>1. PICK a \in DOMAIN line[e] :
            /\ (j # 1 => a # 1) /\ line'[e][j].s = line[e][a].s
            /\ line'[e][j].kind = line[e][a].kind /\ line'[e][j].idx = line[e][a].idx
        BY <1>4, <3>1
      <4> QED
        BY <1>2, <2>1, <2>2, <3>1, <4>1 DEF Own, OldOne, IsOld
    <3>2. CASE d # e
      BY <1>2, <1>3, <2>1, <2>2, <3>2 DEF Own, OldOne
    <3> QED
      BY <3>1, <3>2
  <2>5. \A j \in DOMAIN buf'[Peer(d)] :
           buf'[Peer(d)][j].s = Sid(d) \/ (j = 1 /\ IsOld(buf'[Peer(d)][1]) /\ Unseen(d)')
    BY <1>2, <2>1, <2>2 DEF Own, OldOne
  <2> QED
    BY <2>3, <2>4, <2>5 DEF Own, OldOne
<1> QED
  BY <1>0, <1>7, <1>8 DEF UInv

\* What a pass leaves in the list of its base.
LEMMA PassList ==
    ASSUME TypeOK, NEW b \in Bases, SendPass(b)
    PROVE  /\ \A c \in Bases : c # b => out'[c] = out[c]
           /\ \A s, k, i, n : Has(out'[b], s, k, i, n) => Has(out[b], s, k, i, n)
           /\ \A s : Climbs(out[b], s) => Climbs(out'[b], s)
           /\ open' \subseteq open
           /\ \A f \in Ends : /\ alive[f] = "gone" => alive'[f] = "gone"
                              /\ alive[f] # "live" => alive'[f] # "live"
           /\ \A s \in Sessions : b = "host" \/ b = s =>
                 \/ \A k, i, n : k # "ack" /\ Has(out[b], s, k, i, n) => Has(out'[b], s, k, i, n)
                 \/ alive'[EndOf(b, s)] # "live" /\ (b = "host" => s \notin open')
<1>1. PICK X : SendPkgInUARTOutMap(b, X)
  BY PassFacts
<1> DEFINE o == out[b]
           K == BreaksAt(b, o, X)
           goes == Goes(b, o, X)
           stay == {i \in DOMAIN o : i \in goes => ~Response(o[i])}
           m == Marked(o, goes, Again(o, K), X)
           q == Kept(m, stay)
           failed == Failed(b, o, K)
           t == CHOOSE x \in failed : TRUE
<1>2. TransferError(b, q, failed)
  BY <1>1 DEF SendPkgInUARTOutMap
<1>3. o \in Seq(QPkg)
  BY DEF TypeOK
<1>4. /\ m \in Seq(QPkg) /\ DOMAIN m = DOMAIN o
      /\ \A sid, k, i, n : \A j \in DOMAIN o : Is(m[j], sid, k, i, n) <=> Is(o[j], sid, k, i, n)
      /\ \A sid : Climbs(o, sid) => Climbs(m, sid)
  BY <1>3, MarkedFacts
<1> HIDE DEF m, goes
<1>5. /\ q \in Seq(QPkg)
      /\ \A sid, k, i, n : Has(q, sid, k, i, n) <=> \E j \in stay : Is(m[j], sid, k, i, n)
      /\ \A sid : Climbs(m, sid) => Climbs(q, sid)
  <2>1. stay \in SUBSET (DOMAIN m)
    BY <1>4
  <2> HIDE DEF stay
  <2> QED
    BY <1>4, <2>1, KeptFacts
<1>6. \A sid, k, i, n : Has(q, sid, k, i, n) => Has(o, sid, k, i, n)
  BY <1>4, <1>5 DEF Has
<1>7. ASSUME NEW sid, NEW k, NEW i, NEW n, k # "ack", Has(o, sid, k, i, n)
      PROVE  Has(q, sid, k, i, n)
  <2>1. PICK j \in DOMAIN o : Is(o[j], sid, k, i, n)
    BY <1>7 DEF Has
  <2>2. j \in stay
    BY <1>7, <2>1 DEF Is, Response
  <2> QED
    BY <1>4, <1>5, <2>1, <2>2
<1>8. \A sid : Climbs(o, sid) => Climbs(q, sid)
  BY <1>4, <1>5
<1> HIDE DEF q, K, failed, o
<1>9. CASE failed = {}
  <2>1. out' = [out EXCEPT ![b] = q] /\ UNCHANGED <<alive, open>>
    BY <1>2, <1>9 DEF TransferError
  <2>2. out'[b] = q /\ \A c \in Bases : c # b => out'[c] = out[c]
    BY <2>1 DEF TypeOK
  <2> QED
    BY <1>6, <1>7, <1>8, <2>1, <2>2 DEF o
<1>10. CASE failed # {}
  <2>1. /\ out' = [out EXCEPT ![b] = Clear(q, t)]
        /\ alive' = [alive EXCEPT ![EndOf(b, t)] = IF @ = "live" THEN "dead" ELSE @]
        /\ open' = IF b = "host" THEN open \ {t} ELSE open
    BY <1>2, <1>10 DEF TransferError
  <2> HIDE DEF t
  <2>2. out'[b] = Clear(q, t) /\ \A c \in Bases : c # b => out'[c] = out[c]
    BY <2>1 DEF TypeOK
  <2>3. /\ \A sid, k, i, n : Has(Clear(q, t), sid, k, i, n) <=> Has(q, sid, k, i, n) /\ sid # t
        /\ \A sid : Climbs(q, sid) => Climbs(Clear(q, t), sid)
    BY <1>5, ClearFacts
  <2>4. \A f \in Ends : alive'[f] = alive[f] \/ (alive[f] = "live" /\ alive'[f] = "dead")
    BY <2>1 DEF TypeOK
  <2>5. ASSUME NEW s \in Sessions, b = "host" \/ b = s
        PROVE  \/ \A k, i, n : k # "ack" /\ Has(out[b], s, k, i, n) => Has(out'[b], s, k, i, n)
               \/ alive'[EndOf(b, s)] # "live" /\ (b = "host" => s \notin open')
    <3>1. CASE s = t
      <4>1. EndOf(b, s) \in Ends
        BY <2>5, EndOfFacts
      <4> QED
        BY <2>1, <3>1, <4>1 DEF TypeOK
    <3>2. CASE s # t
      BY <1>7, <2>2, <2>3, <3>2 DEF o
    <3> QED
      BY <3>1, <3>2
  <2> QED
    BY <1>6, <1>8, <2>1, <2>2, <2>3, <2>4, <2>5 DEF o
<1> QED
  BY <1>9, <1>10

\* What a pass writes to a line: packages of its session that may go.
LEMMA PassLine ==
    ASSUME TypeOK, NEW b \in Bases, SendPass(b)
    PROVE  /\ \A d \in Ends : Base(d) # b => line'[d] = line[d]
           /\ \A d \in Ends : Base(d) = b =>
                \E G \in SUBSET (DOMAIN out[b]) :
                  /\ line'[d] = Wrote(line[d], Kept(out[b], G))
                  /\ \A i \in G : out[b][i].s = Sid(d) /\ Sendable(out[b], i) /\ CanWrite(b, out[b][i])
<1>1. PICK X : SendPkgInUARTOutMap(b, X)
  BY PassFacts
<1> DEFINE o == out[b]
           goes == Goes(b, o, X)
           G(d) == {i \in goes : o[i].s = Sid(d)}
<1>2. line' = [d \in Ends |-> IF Base(d) = b THEN WriteUartDev(d, Kept(o, G(d))) ELSE line[d]]
  BY <1>1 DEF SendPkgInUARTOutMap
<1>3. goes \subseteq DOMAIN o
  BY DEF Goes
<1>4. \A i \in goes : Sendable(o, i) /\ CanWrite(b, o[i])
  <2> SUFFICES ASSUME NEW i \in goes
               PROVE  Sendable(o, i) /\ CanWrite(b, o[i])
    OBVIOUS
  <2>1. Sendable(o, i) /\ \A j \in 1 .. i : ~Breaks(b, o, X, j)
    BY DEF Goes
  <2>2. i \in 1 .. i
    <3>1. o \in Seq(QPkg)
      BY DEF TypeOK
    <3> QED
      BY <1>3, <3>1
  <2> QED
    BY <2>1, <2>2 DEF Breaks
<1> HIDE DEF goes
<1>5. ASSUME NEW d \in Ends, Base(d) = b
      PROVE  \E H \in SUBSET (DOMAIN out[b]) :
                  /\ line'[d] = Wrote(line[d], Kept(out[b], H))
                  /\ \A i \in H : out[b][i].s = Sid(d) /\ Sendable(out[b], i) /\ CanWrite(b, out[b][i])
  <2>1. G(d) \in SUBSET (DOMAIN out[b])
    BY <1>3
  <2>2. \A i \in G(d) : out[b][i].s = Sid(d) /\ Sendable(out[b], i) /\ CanWrite(b, out[b][i])
    BY <1>4
  <2>3. line'[d] = WriteUartDev(d, Kept(o, G(d)))
    BY <1>2, <1>5
  <2> HIDE DEF G
  <2>4. line'[d] = Wrote(line[d], Kept(out[b], G(d)))
    BY <2>3 DEF WriteUartDev, Wrote
  <2> QED
    BY <2>1, <2>2, <2>4
<1> QED
  BY <1>2, <1>5

\* A package that goes, and what is still listed: it is the earliest of its
\* session that waits for an answer.
LEMMA GoesFirst ==
    ASSUME NEW o \in Seq(QPkg), NEW sid, Climbs(o, sid), NEW a \in DOMAIN o, NEW c \in DOMAIN o,
           Data(o[a], sid), Data(o[c], sid), Sendable(o, a)
    PROVE  c >= a /\ (c = a \/ LT(o[a].idx, o[a].n, o[c].idx, o[c].n))
<1>1. a \in 1..Len(o) /\ c \in 1..Len(o) /\ Len(o) \in Nat
  OBVIOUS
<1>2. ~Response(o[a]) /\ ~Response(o[c]) /\ o[a].s = o[c].s
  BY DEF Data, Response
<1>3. c >= a
  BY <1>1, <1>2 DEF Sendable
<1>4. c = a \/ a < c
  BY <1>1, <1>3
<1> QED
  BY <1>3, <1>4 DEF Climbs

\* A pass moves packages from the list to the line, and at most one with data.
LEMMA PassSorted ==
    ASSUME TypeOK, NEW b \in Bases, SendPass(b), NEW d \in Ends, Base(d) = b, Direction(d)
    PROVE  /\ Sorted(d)'
           /\ \A k, i, n : Coming(d, k, i, n)' => Sent(d, k, i, n)
           /\ ~Over(d) => \A i, n \in Nat : Coming(d, "data", i, n)' => n <= N(d) + 1
<1> DEFINE o == out[b]
           l == line[d]
           w == line'[d]
<1>1. o \in Seq(QPkg) /\ l \in Seq(WPkg) /\ buf' = buf /\ Sid(d) \in Sessions
  BY EndFacts DEF TypeOK, SendPass
<1>2. PICK G \in SUBSET (DOMAIN o) :
        /\ w = Wrote(l, Kept(o, G))
        /\ \A i \in G : o[i].s = Sid(d) /\ Sendable(o, i) /\ CanWrite(b, o[i])
  BY PassLine
<1>3. /\ \A s, k, i, n : Has(out'[b], s, k, i, n) => Has(o, s, k, i, n)
      /\ Climbs(out'[b], Sid(d))
  BY PassList DEF Direction, Sorted
<1> HIDE DEF o, l, w
<1> DEFINE ps == Kept(o, G)
<1>4. /\ ps \in Seq(QPkg)
      /\ \A sid, k, i, n : Has(ps, sid, k, i, n) <=> \E j \in G : Is(o[j], sid, k, i, n)
      /\ \A x \in DOMAIN ps, y \in DOMAIN ps : x < y =>
                 \E i, j \in G : i < j /\ ps[x] = o[i] /\ ps[y] = o[j]
      /\ \A x \in DOMAIN ps : \E i \in G : ps[x] = o[i]
  BY <1>1, KeptFacts
<1> HIDE DEF ps
<1>5. /\ DOMAIN w = 1..(Len(l) + Len(ps)) /\ w \in Seq(WPkg)
      /\ \A j \in DOMAIN l : w[j] = l[j]
      /\ \A j \in DOMAIN w :
            (j \in DOMAIN l /\ w[j] = l[j]) \/ (j - Len(l) \in 1..Len(ps) /\ w[j] = OnWire(ps[j - Len(l)], FALSE))
      /\ \A sid, k, i, n : Has(w, sid, k, i, n) <=> Has(l, sid, k, i, n) \/ Has(ps, sid, k, i, n)
  <2>1. w = Wrote(l, ps)
    BY <1>2 DEF ps
  <2>2. Follows(w, l, ps)
    BY <1>1, <1>4, <2>1, WriteFacts
  <2> QED
    BY <2>2 DEF Follows
<1>6. \A k, i, n : Has(ps, Sid(d), k, i, n) => Listed(d, k, i, n)
  BY <1>4 DEF Has, Listed, o
<1>7. \A k, i, n : Coming(d, k, i, n)' => Coming(d, k, i, n) \/ Has(ps, Sid(d), k, i, n)
  BY <1>1, <1>5 DEF Coming, l, w
<1>8. Sorted(d) /\ Climbs(o, Sid(d))
  BY DEF Direction, Sorted, o
<1>9. ASSUME NEW i \in Nat, NEW n \in Nat, Has(ps, Sid(d), "data", i, n),
             NEW j \in Nat, NEW m \in Nat, Listed(d, "data", j, m)
      PROVE  LE(i, n, j, m)
  <2>1. PICK a \in G : Is(o[a], Sid(d), "data", i, n)
    BY <1>4, <1>9
  <2>2. PICK c \in DOMAIN o : Is(o[c], Sid(d), "data", j, m)
    BY <1>9 DEF Listed, Has, o
  <2>3. c = a \/ LT(o[a].idx, o[a].n, o[c].idx, o[c].n)
    BY <1>1, <1>2, <1>8, <2>1, <2>2, GoesFirst DEF Data, Is
  <2> QED
    BY <2>1, <2>2, <2>3 DEF LE, Is
<1>10. Rises(w, Sid(d))
  <2> SUFFICES ASSUME NEW x \in DOMAIN w, NEW y \in DOMAIN w, x < y,
                      Data(w[x], Sid(d)), Data(w[y], Sid(d))
               PROVE  LE(w[x].idx, w[x].n, w[y].idx, w[y].n)
    BY DEF Rises
  <2>0. /\ DOMAIN l = 1..Len(l) /\ Len(l) \in Nat /\ DOMAIN ps = 1..Len(ps) /\ Len(ps) \in Nat
        /\ x \in Nat /\ y \in Nat /\ w[x] \in WPkg /\ w[y] \in WPkg
    BY <1>1, <1>4, <1>5
  <2>1. CASE y \in DOMAIN l
    <3>1. x \in DOMAIN l
      BY <1>5, <2>0, <2>1
    <3> QED
      BY <1>5, <1>8, <2>1, <3>1 DEF Sorted, Rises, l
  <2>2. CASE y \notin DOMAIN l
    <3>1. y - Len(l) \in DOMAIN ps /\ w[y] = OnWire(ps[y - Len(l)], FALSE)
      BY <1>5, <2>0, <2>2
    <3> DEFINE v == y - Len(l)
    <3>2. PICK c \in G : ps[v] = o[c]
      BY <1>4, <3>1
    <3>3. Is(o[c], Sid(d), "data", w[y].idx, w[y].n)
      BY <3>1, <3>2 DEF OnWire, Is, Data
    <3>4. Has(ps, Sid(d), "data", w[y].idx, w[y].n) /\ w[y].idx \in Nat /\ w[y].n \in Nat
          /\ w[x].idx \in Nat /\ w[x].n \in Nat
      BY <1>4, <2>0, <3>3 DEF WPkg
    <3>5. CASE x \in DOMAIN l
      <4>1. Has(l, Sid(d), "data", w[x].idx, w[x].n)
        BY <1>5, <3>5 DEF Has, Is, Data
      <4> QED
        BY <1>6, <1>8, <3>4, <4>1 DEF Sorted, Coming, l
    <3>6. CASE x \notin DOMAIN l
      <4>1. x - Len(l) \in DOMAIN ps /\ w[x] = OnWire(ps[x - Len(l)], FALSE)
        BY <1>5, <2>0, <3>6
      <4> DEFINE u == x - Len(l)
      <4>2. u < v
        BY <2>0
      <4>3. PICK i \in G, j \in G : i < j /\ ps[u] = o[i] /\ ps[v] = o[j]
        BY <1>4, <3>1, <4>1, <4>2
      <4>4. Data(o[i], Sid(d)) /\ Data(o[j], Sid(d))
        BY <3>1, <4>1, <4>3 DEF OnWire, Data
      <4>5. i >= j
        BY <1>1, <1>2, <1>8, <4>4, GoesFirst
      <4>6. i \in Nat /\ j \in Nat
        BY <1>1
      <4> QED
        BY <4>3, <4>5, <4>6
    <3> QED
      BY <3>5, <3>6
  <2> QED
    BY <2>1, <2>2
<1>11. \A i, n, j, m \in Nat :
        Has(buf'[Peer(d)], Sid(d), "data", i, n) /\ Has(w, Sid(d), "data", j, m) => LE(i, n, j, m)
  <2> SUFFICES ASSUME NEW i \in Nat, NEW n \in Nat, NEW j \in Nat, NEW m \in Nat,
                      Has(buf[Peer(d)], Sid(d), "data", i, n), Has(w, Sid(d), "data", j, m)
               PROVE  LE(i, n, j, m)
    BY <1>1
  <2>1. CASE Has(l, Sid(d), "data", j, m)
    BY <1>8, <2>1 DEF Sorted, l
  <2>2. CASE Has(ps, Sid(d), "data", j, m)
    BY <1>6, <1>8, <2>2 DEF Sorted, Coming
  <2> QED
    BY <1>5, <2>1, <2>2
<1>12. \A i, n, j, m \in Nat : Coming(d, "data", i, n)' /\ Listed(d, "data", j, m)' => LE(i, n, j, m)
  <2> SUFFICES ASSUME NEW i \in Nat, NEW n \in Nat, NEW j \in Nat, NEW m \in Nat,
                      Coming(d, "data", i, n)', Listed(d, "data", j, m)'
               PROVE  LE(i, n, j, m)
    OBVIOUS
  <2>1. Listed(d, "data", j, m)
    BY <1>3 DEF Listed, o
  <2> QED
    BY <1>7, <1>8, <1>9, <2>1 DEF Sorted
<1>13. Sorted(d)'
  BY <1>1, <1>3, <1>8, <1>10, <1>11, <1>12 DEF Sorted, w
<1>14. ASSUME ~Over(d), NEW i \in Nat, NEW n \in Nat, Coming(d, "data", i, n)'
       PROVE  n <= N(d) + 1
  <2>1. Unbroken(d) /\ Fresh(d) /\ N(d) \in Nat /\ sent[d] \in Nat
    BY <1>14, NumberTypes DEF Direction
  <2>2. CASE Coming(d, "data", i, n)
    BY <2>1, <2>2 DEF Unbroken
  <2>3. CASE Has(ps, Sid(d), "data", i, n)
    <3>1. Listed(d, "data", i, n)
      BY <1>6, <2>3
    <3>2. ~Silent(d)
      <4>1. PICK a \in G : Is(o[a], Sid(d), "data", i, n)
        BY <1>4, <2>3
      <4>2. CanWrite(b, o[a]) /\ o[a].s = Sid(d)
        BY <1>2
      <4>3. EndOf(b, Sid(d)) = d /\ (Side(d) = "host" <=> b = "host")
        BY EndFacts
      <4> QED
        BY <4>2, <4>3 DEF CanWrite, Found, Silent
    <3>3. n <= sent[d]
      BY <2>1, <3>1 DEF Fresh, Sent
    <3>4. CASE N(d) + 1 < n
      <4>1. PICK j \in Nat : Listed(d, "data", j, N(d) + 1)
        BY <2>1, <3>2, <3>3, <3>4 DEF Unbroken
      <4>2. LE(i, n, j, N(d) + 1)
        BY <1>9, <2>1, <2>3, <4>1
      <4> QED
        BY <2>1, <3>4, <4>2 DEF LE, LT
    <3> QED
      BY <2>1, <3>4
  <2> QED
    BY <1>7, <1>14, <2>2, <2>3
<1> QED
  BY <1>6, <1>7, <1>13, <1>14 DEF Sent

LEMMA PassKeeps ==
    ASSUME UInv, NEW b \in Bases, SendPass(b)
    PROVE  UInv'
<1>0. TypeOK /\ TypeOK' /\ UNCHANGED <<pc, head, index, dispatched, buf, history, resetIO>>
  BY PassTypes DEF UInv, SendPass, worker
<1>1. /\ \A c \in Bases : c # b => out'[c] = out[c]
      /\ \A s, k, i, n : Has(out'[b], s, k, i, n) => Has(out[b], s, k, i, n)
      /\ \A s : Climbs(out[b], s) => Climbs(out'[b], s)
      /\ open' \subseteq open
      /\ \A f \in Ends : /\ alive[f] = "gone" => alive'[f] = "gone"
                         /\ alive[f] # "live" => alive'[f] # "live"
      /\ \A s \in Sessions : b = "host" \/ b = s =>
            \/ \A k, i, n : k # "ack" /\ Has(out[b], s, k, i, n) => Has(out'[b], s, k, i, n)
            \/ alive'[EndOf(b, s)] # "live" /\ (b = "host" => s \notin open')
  BY <1>0, PassList
<1>2. \A d \in Ends : Base(d) # b => line'[d] = line[d] /\ out'[Base(d)] = out[Base(d)]
  BY <1>0, <1>1, PassLine, EndFacts
<1>3. \A d \in Ends : \A k, i, n : Listed(d, k, i, n)' => Listed(d, k, i, n)
  <2> SUFFICES ASSUME NEW d \in Ends, NEW k, NEW i, NEW n, Listed(d, k, i, n)'
               PROVE  Listed(d, k, i, n)
    OBVIOUS
  <2>1. CASE Base(d) = b
    BY <1>1, <2>1 DEF Listed
  <2>2. CASE Base(d) # b
    BY <1>2, <2>2 DEF Listed
  <2> QED
    BY <2>1, <2>2
<1>4. \A d \in Ends : \A k, i, n : Sent(d, k, i, n)' => Sent(d, k, i, n)
  <2> SUFFICES ASSUME NEW d \in Ends, NEW k, NEW i, NEW n, Sent(d, k, i, n)'
               PROVE  Sent(d, k, i, n)
    OBVIOUS
  <2>1. CASE Base(d) = b
    BY <1>0, <1>3, <2>1, PassSorted DEF UInv, Sent
  <2>2. CASE Base(d) # b
    BY <1>0, <1>2, <1>3, <2>2 DEF Sent, Coming
  <2> QED
    BY <2>1, <2>2
<1>5. ASSUME NEW d \in Ends
      PROVE  /\ Direction(d) /\ SameNumbers(d) /\ OverStays(d) /\ Climbs(out[Base(d)], Sid(d))'
             /\ \A i, n : Sent(Peer(d), "ack", i, n)' => Sent(Peer(d), "ack", i, n)
  <2>1. Direction(d) /\ SameNumbers(d)
    BY <1>0 DEF UInv, SameNumbers, Busy, N, D, history
  <2>2. Peer(d) \in Ends
    BY EndFacts
  <2>3. OverStays(d)
    BY <1>0, <1>1, <2>2 DEF OverStays, Over, Silent, history
  <2>4. Climbs(out[Base(d)], Sid(d))'
    BY <1>1, <1>2, <2>1 DEF Direction, Sorted
  <2> QED
    BY <1>4, <2>1, <2>2, <2>3, <2>4
<1>6. ASSUME NEW d \in Ends
      PROVE  Direction(d)'
  <2>1. CASE Base(d) = b
    <3>1. /\ Sorted(d)'
          /\ \A k, i, n : Coming(d, k, i, n)' => Sent(d, k, i, n)
          /\ ~Over(d) => \A i, n \in Nat : Coming(d, "data", i, n)' => n <= N(d) + 1
      BY <1>0, <1>5, <2>1, PassSorted
    <3>2. Fewer(d)
      BY <1>3, <1>5, <3>1 DEF Fewer
    <3>3. Stays(d)
      <4>1. EndOf(b, Sid(d)) = d /\ Sid(d) \in Sessions /\ (b = "host" \/ b = Sid(d))
        BY <2>1, EndFacts
      <4>2. CASE \A k, i, n : k # "ack" /\ Has(out[b], Sid(d), k, i, n) => Has(out'[b], Sid(d), k, i, n)
        BY <1>5, <2>1, <3>1, <4>2 DEF Stays, OverStays, Listed
      <4>3. CASE alive'[d] # "live" /\ (b = "host" => Sid(d) \notin open')
        <5>1. Side(d) = "host" => b = "host"
          BY <2>1, EndFacts
        <5>2. Over(d)' \/ Silent(d)'
          BY <1>0, <4>3, <5>1, EndsDirection
        <5> QED
          BY <1>5, <3>1, <5>2 DEF Stays, OverStays
      <4> QED
        BY <1>1, <4>1, <4>2, <4>3
    <3> QED
      BY <1>0, <1>5, <3>1, <3>2, <3>3, Frame
  <2>2. CASE Base(d) # b
    <3>1. Sorted(d)' /\ \A k, i, n : Coming(d, k, i, n)' => Coming(d, k, i, n)
      <4>1. Sorted(d)
        BY <1>5 DEF Direction
      <4> QED
        BY <1>0, <1>2, <1>3, <1>5, <2>2, <4>1, SortedLess
    <3>2. \A k, i, n : Listed(d, k, i, n)' <=> Listed(d, k, i, n)
      BY <1>2, <2>2 DEF Listed
    <3> QED
      BY <1>0, <1>5, <3>1, <3>2, SameFrame
  <2> QED
    BY <2>1, <2>2
<1>7. ASSUME NEW d \in Ends
      PROVE  Own(d)'
  <2>1. Own(d) /\ N(d)' = N(d) /\ D(d)' = D(d) /\ Peer(d) \in Ends
    BY <1>0, EndFacts DEF UInv, N, D, history
  <2>2. Unseen(d) => Unseen(d)'
    BY <1>0, <2>1 DEF Unseen
  <2>3. /\ \A i, n : ~Listed(d, "reset", i, n)'
        /\ Side(d) = "daemon" => \A s, k, i, n : Has(out'[Base(d)], s, k, i, n) => s = Sid(d)
    BY <1>1, <1>2, <1>3, <2>1 DEF Own
  <2>4. \A j \in DOMAIN buf'[Peer(d)] :
           buf'[Peer(d)][j].s = Sid(d) \/ (j = 1 /\ IsOld(buf'[Peer(d)][1]) /\ Unseen(d)')
    BY <1>0, <2>1, <2>2 DEF Own, OldOne
  <2>5. ASSUME NEW j \in DOMAIN line'[d]
        PROVE  line'[d][j].s = Sid(d) \/ (j = 1 /\ buf'[Peer(d)] = <<>> /\ IsOld(line'[d][1]) /\ Unseen(d)')
    <3>1. CASE Base(d) = b
      <4>1. PICK G \in SUBSET (DOMAIN out[b]) :
                  /\ line'[d] = Wrote(line[d], Kept(out[b], G))
                  /\ \A i \in G : out[b][i].s = Sid(d) /\ Sendable(out[b], i) /\ CanWrite(b, out[b][i])
        BY <1>0, <3>1, PassLine
      <4> DEFINE o == out[b]
                 l == line[d]
                 w == line'[d]
      <4>2. o \in Seq(QPkg) /\ l \in Seq(WPkg)
        BY <1>0 DEF TypeOK
      <4>3. w = Wrote(l, Kept(o, G)) /\ \A i \in G : o[i].s = Sid(d)
        BY <4>1
      <4> HIDE DEF o
      <4> DEFINE ps == Kept(o, G)
      <4>4. ps \in Seq(QPkg) /\ \A x \in DOMAIN ps : \E i \in G : ps[x] = o[i]
        <5>1. G \in SUBSET (DOMAIN o)
          BY DEF o
        <5> QED
          BY <4>2, <5>1, KeptFacts
      <4> HIDE DEF ps
      <4>5. Follows(w, l, ps)
        <5> HIDE DEF w, l
        <5>1. w = Wrote(l, ps)
          BY <4>3 DEF ps
        <5> QED
          BY <4>2, <4>4, <5>1, WriteFacts
      <4>6. CASE j \in DOMAIN l
        <5>1. w[j] = l[j]
          BY <4>5, <4>6 DEF Follows
        <5>2. j = 1 => w[1] = l[1]
          BY <5>1
        <5> QED
          BY <1>0, <2>1, <2>2, <4>6, <5>1, <5>2 DEF Own, OldOne
      <4>7. CASE j \notin DOMAIN l
        <5>0. j \in DOMAIN w
          OBVIOUS
        <5>1. j - Len(l) \in DOMAIN ps /\ w[j] = OnWire(ps[j - Len(l)], FALSE)
          <6> HIDE DEF w, l
          <6>1. DOMAIN ps = 1 .. Len(ps) /\ Len(ps) \in Nat /\ DOMAIN l = 1 .. Len(l) /\ Len(l) \in Nat
            BY <4>2, <4>4
          <6>2. j \in 1 .. Len(l) + Len(ps)
            BY <4>5, <5>0, <6>1 DEF Follows
          <6>3. j - Len(l) \in 1 .. Len(ps) /\ Len(l) + (j - Len(l)) = j
            BY <4>7, <6>1, <6>2
          <6> QED
            BY <4>5, <6>1, <6>3 DEF Follows
        <5>2. PICK i \in G : ps[j - Len(l)] = o[i]
          BY <4>4, <5>1
        <5> QED
          BY <4>3, <5>1, <5>2 DEF OnWire
      <4> QED
        BY <4>6, <4>7
    <3>2. CASE Base(d) # b
      BY <1>0, <1>2, <2>1, <2>2, <3>2 DEF Own, OldOne
    <3> QED
      BY <3>1, <3>2
  <2> QED
    BY <2>3, <2>4, <2>5 DEF Own, OldOne
<1> QED
  BY <1>0, <1>6, <1>7 DEF UInv

(***************************************************************************)
(* The invariant and the stream.                                           *)
(***************************************************************************)
LEMMA InitHolds == Init => UInv
<1> SUFFICES ASSUME Init
             PROVE  UInv
  OBVIOUS
<1>1. TypeOK
  BY InitTypes
<1> SUFFICES ASSUME NEW e \in Ends
             PROVE  Own(e) /\ Direction(e)
  BY <1>1 DEF UInv
<1>2. /\ out[Base(e)] = <<>> /\ out[Base(Peer(e))] = <<>> /\ buf[Peer(e)] = <<>> /\ buf[e] = <<>>
      /\ pc[e] = "idle" /\ index[e] = 0 /\ sent[e] = 0 /\ resetIO = {} /\ Sid(e) # Old
      /\ dispatched[Peer(e)] = 0 /\ delivered[Peer(e)] = <<>> /\ Peer(e) \in Ends
      /\ Sid(Peer(e)) = Sid(e) /\ Peer(Peer(e)) = e
  BY EndFacts, UartAssumption DEF Init
<1>3. \A d \in Ends : \/ line[d] = <<>>
                      \/ line[d] = <<OnWire(Package("data", Old, 1, 0), FALSE)>> /\ Side(d) = "daemon"
  BY DEF Init
<1> DEFINE x == OnWire(Package("data", Old, 1, 0), FALSE)
<1>4. IsOld(x)
  BY DEF OnWire, Package, IsOld
<1> HIDE DEF x
<1>5. \A d \in Ends : \A j \in DOMAIN line[d] : j = 1 /\ IsOld(line[d][j]) /\ Side(d) = "daemon"
  <2> TAKE d \in Ends
  <2>1. CASE line[d] = <<>>
    BY <2>1
  <2>2. CASE line[d] = <<x>> /\ Side(d) = "daemon"
    <3>1. DOMAIN line[d] = {1} /\ line[d][1] = x
      BY <2>2
    <3> QED
      BY <1>4, <2>2, <3>1
  <2> QED
    BY <1>3, <2>1, <2>2 DEF x
<1>6. N(e) = 0 /\ D(e) = 0
  BY <1>2 DEF N, D, Newest, Stream!Newest
<1>7. \A k, i, n : ~Listed(e, k, i, n) /\ ~Listed(Peer(e), k, i, n)
  BY <1>2 DEF Listed, Has
<1>8. \A k, i, n : ~Coming(e, k, i, n) /\ ~Coming(Peer(e), k, i, n)
  BY <1>2, <1>5 DEF Coming, Has, Is, IsOld
<1>9. \A k, i, n : ~Sent(e, k, i, n) /\ ~Sent(Peer(e), k, i, n)
  BY <1>7, <1>8 DEF Sent
<1>10. Fresh(e)
  BY <1>2, <1>9 DEF Fresh, Busy
<1>11. Sorted(e)
  <2>1. Rises(line[e], Sid(e)) /\ Rises(buf[Peer(e)], Sid(e)) /\ Climbs(out[Base(e)], Sid(e))
    BY <1>2, <1>5 DEF Rises, Climbs, Data, IsOld
  <2> QED
    BY <1>2, <1>7, <2>1 DEF Sorted, Has
<1>12. Once(e)
  BY <1>2, <1>6, <1>9 DEF Once, Busy
<1>13. Unbroken(e)
  BY <1>2, <1>6, <1>7, <1>8 DEF Unbroken
<1>14. Own(e)
  <2>1. Side(e) = "daemon" => Unseen(e)
    BY <1>2, <1>6 DEF Unseen
  <2>2. \A j \in DOMAIN line[e] : j = 1 /\ OldOne(e, line[e][1])
    BY <1>5, <2>1 DEF OldOne
  <2>3. \A s, k, i, n : ~Has(out[Base(e)], s, k, i, n)
    BY <1>2 DEF Has
  <2> QED
    BY <1>2, <1>7, <2>2, <2>3 DEF Own
<1> QED
  BY <1>10, <1>11, <1>12, <1>13, <1>14 DEF Direction

LEMMA NextKeeps == UInv /\ [Next]_vars => UInv'
<1> SUFFICES ASSUME UInv, [Next]_vars
             PROVE  UInv'
  OBVIOUS
<1>1. CASE \E b \in Bases : SendPass(b)
  BY <1>1, PassKeeps
<1>2. CASE \E e \in Ends : Work(e)
  BY <1>2, StartKeeps, SlotKeeps, SleepKeeps, AddKeeps DEF Work
<1>3. CASE \E e \in Ends : Process(e)
  BY <1>3, DamagedKeeps, AcknowledgedKeeps, FreedKeeps, DuplicateKeeps, DispatchedKeeps,
     DispatchFailsKeeps, ForeignKeeps DEF Process
<1>4. CASE \E e \in Ends : \/ ReadUartDev(e) \/ ReadFails(e) \/ NotUnderstood(e)
                           \/ FreeSessionContinue(e) \/ Noise(e)
  BY <1>4, ReadKeeps, ReadFailsKeeps, NotUnderstoodKeeps, ContinueKeeps, NoiseKeeps
<1>5. CASE \E s \in Sessions : Disconnect(s)
  BY <1>5, DisconnectKeeps
<1>6. CASE UNCHANGED vars
  <2>1. TypeOK'
    BY NextTypes DEF UInv
  <2> QED
    BY <1>6, <2>1, StillKeeps DEF vars, worker, history
<1> QED
  BY <1>1, <1>2, <1>3, <1>4, <1>5, <1>6 DEF Next

(***************************************************************************)
(* The refinement: each step is one of the stream, or changes nothing the  *)
(* stream speaks of.                                                       *)
(***************************************************************************)
LEMMA InitMaps == Init => Stream!Init
<1> SUFFICES ASSUME Init
             PROVE  Stream!Init
  OBVIOUS
<1> QED
  BY DEF Init, Stream!Init

\* Sessions end, and stay so; nothing else that the stream speaks of changes.
LEMMA EndsMap ==
    ASSUME \A d \in Ends : alive[d] # "live" => alive'[d] # "live", UNCHANGED history
    PROVE  Stream!Next
<1> DEFINE old == {d \in Ends : alive[d] # "live"}
           new == {d \in Ends : alive'[d] # "live"}
<1>1. new \in SUBSET Ends /\ new = old \cup new
  OBVIOUS
<1> HIDE DEF old, new
<1>2. \E E \in SUBSET Ends : new = old \cup E
  BY <1>1
<1>3. \E E \in SUBSET Ends : Stream!End(E)
  BY <1>2 DEF Stream!End, history, old, new
<1> QED
  BY <1>3 DEF Stream!Next

LEMMA DispatchedMaps ==
    ASSUME UInv, NEW e \in Ends, Dispatched(e)
    PROVE  Stream!Next
<1> DEFINE n == Head(buf[e]).n
<1>1. /\ Newest(delivered[e]) < n /\ n <= sent[Peer(e)]
      /\ Over(Peer(e)) \/ n = Newest(delivered[e]) + 1
  BY DispatchedKeeps
<1>2. /\ alive[e] # "gone" /\ buf[e] # <<>>
      /\ delivered' = [delivered EXCEPT ![e] = Append(@, n)]
      /\ UNCHANGED <<sent, broken, alive>>
  BY DEF Dispatched, New, Comes
<1>3. n \in Nat /\ sent[Peer(e)] \in Nat /\ Newest(delivered[e]) \in Nat /\ Peer(e) \in Ends /\ Peer(Peer(e)) = e
  <2>1. TypeOK /\ Peer(e) \in Ends /\ Peer(Peer(e)) = e
    BY EndFacts DEF UInv
  <2>2. N(Peer(e)) \in Nat /\ sent[Peer(e)] \in Nat
    BY <2>1, NumberTypes
  <2>3. buf[e] \in Seq(WPkg)
    BY <2>1 DEF TypeOK
  <2>4. Head(buf[e]) \in WPkg
    BY <1>2, <2>3
  <2>5. n \in Nat
    BY <2>4 DEF WPkg
  <2> QED
    BY <2>1, <2>2, <2>5 DEF N
<1>4. n \in Stream!Newest(delivered[e]) + 1 .. sent[Peer(e)]
  <2> HIDE DEF n
  <2> QED
    BY <1>1, <1>3 DEF Newest
<1>5. \/ e \in broken
      \/ Peer(e) \in {d \in Ends : alive[d] # "live"} \cap {d \in Ends : Side(d) = "daemon"}
      \/ n = Stream!Newest(delivered[e]) + 1
  <2> HIDE DEF n
  <2> QED
    BY <1>1, <1>2, <1>3 DEF Over, Newest
<1>6. Stream!Deliver(e)
  <2> HIDE DEF n
  <2> QED
    BY <1>2, <1>4, <1>5 DEF Stream!Deliver
<1> QED
  BY <1>6 DEF Stream!Next

LEMMA PassMaps ==
    ASSUME UInv, NEW b \in Bases, SendPass(b)
    PROVE  Stream!Next
<1>1. \A d \in Ends : alive[d] # "live" => alive'[d] # "live"
  BY PassList DEF UInv
<1>2. UNCHANGED history
  BY DEF SendPass
<1> QED
  BY <1>1, <1>2, EndsMap

LEMMA WorkMaps ==
    ASSUME NEW e \in Ends, Work(e)
    PROVE  Stream!Next \/ UNCHANGED Stream!vars
<1>1. CASE StartMessage(e) \/ TakeSlot(e) \/ Sleep(e)
  BY <1>1 DEF StartMessage, TakeSlot, Sleep, history, Stream!vars
<1>2. CASE AddPackage(e)
  <2>1. Stream!Send(e)
    BY <1>2 DEF AddPackage, Stream!Send
  <2> QED
    BY <2>1 DEF Stream!Next
<1> QED
  BY <1>1, <1>2 DEF Work

LEMMA ProcessMaps ==
    ASSUME UInv, NEW e \in Ends, Process(e)
    PROVE  Stream!Next \/ UNCHANGED Stream!vars
<1>0. TypeOK /\ Own(Peer(e))
  BY EndFacts DEF UInv
<1>1. CASE Damaged(e) \/ Acknowledged(e) \/ Duplicate(e)
  BY <1>1 DEF Damaged, Acknowledged, Duplicate, history, Stream!vars
<1>2. CASE Freed(e)
  <2>1. alive' = [alive EXCEPT ![e] = IF @ = "live" THEN "dead" ELSE @] /\ UNCHANGED history
    BY <1>2 DEF Freed
  <2>2. \A d \in Ends : alive[d] # "live" => alive'[d] # "live"
    BY <1>0, <2>1 DEF TypeOK
  <2> QED
    BY <2>1, <2>2, EndsMap
<1>3. CASE Dispatched(e)
  BY <1>3, DispatchedMaps
<1>4. CASE DispatchFails(e)
  <2>1. Stream!Break(e)
    BY <1>4 DEF DispatchFails, Stream!Break
  <2> QED
    BY <2>1 DEF Stream!Next
<1>5. CASE Foreign(e)
  <2>1. buf[e] # <<>> /\ Head(buf[e]).s # Sid(e)
    BY <1>5 DEF Foreign, New, Comes
  <2>2. Sid(e) \notin resetIO
    BY <1>0, <2>1, Stranger
  <2>3. Stream!Break(e)
    BY <1>5, <2>2 DEF Foreign, Stream!Break
  <2> QED
    BY <2>3 DEF Stream!Next
<1> QED
  BY <1>1, <1>2, <1>3, <1>4, <1>5 DEF Process

LEMMA EndMaps ==
    ASSUME TypeOK, NEW e \in Ends,
           \/ ReadUartDev(e) \/ ReadFails(e) \/ NotUnderstood(e) \/ FreeSessionContinue(e)
           \/ Noise(e) \/ Disconnect(Sid(e))
    PROVE  Stream!Next \/ UNCHANGED Stream!vars
<1>1. CASE ReadUartDev(e) \/ Noise(e)
  BY <1>1 DEF ReadUartDev, Noise, history, Stream!vars
<1>2. CASE NotUnderstood(e) \/ FreeSessionContinue(e) \/ Disconnect(Sid(e))
  <2>1. \E d \in Ends, v \in {"dead", "gone"} : alive' = [alive EXCEPT ![d] = v]
    <3>1. <<"host", Sid(e)>> \in Ends
      BY DEF Ends, Sid
    <3> QED
      BY <1>2, <3>1 DEF NotUnderstood, FreeSessionContinue, Disconnect
  <2>2. \A d \in Ends : alive[d] # "live" => alive'[d] # "live"
    BY <2>1 DEF TypeOK
  <2>3. UNCHANGED history
    BY <1>2 DEF NotUnderstood, FreeSessionContinue, Disconnect
  <2> QED
    BY <2>2, <2>3, EndsMap
<1>3. CASE ReadFails(e)
  <2>1. TransferError("host", out["host"], {Sid(e)}) /\ UNCHANGED history
    BY <1>3 DEF ReadFails
  <2>2. \/ alive' = alive
        \/ \E d : alive' = [alive EXCEPT ![d] = IF @ = "live" THEN "dead" ELSE @]
    BY <2>1 DEF TransferError
  <2>3. \A d \in Ends : alive[d] # "live" => alive'[d] # "live"
    BY <2>2 DEF TypeOK
  <2> QED
    BY <2>1, <2>3, EndsMap
<1> QED
  BY <1>1, <1>2, <1>3

LEMMA NextMaps == UInv /\ [Next]_vars => [Stream!Next]_(Stream!vars)
<1> SUFFICES ASSUME UInv, [Next]_vars
             PROVE  Stream!Next \/ UNCHANGED Stream!vars
  OBVIOUS
<1>1. TypeOK
  BY DEF UInv
<1>2. CASE \E b \in Bases : SendPass(b)
  BY <1>2, PassMaps
<1>3. CASE \E e \in Ends : Work(e)
  BY <1>3, WorkMaps
<1>4. CASE \E e \in Ends : Process(e)
  BY <1>4, ProcessMaps
<1>5. CASE \E e \in Ends : \/ ReadUartDev(e) \/ ReadFails(e) \/ NotUnderstood(e)
                           \/ FreeSessionContinue(e) \/ Noise(e)
  BY <1>1, <1>5, EndMaps
<1>6. CASE \E s \in Sessions : Disconnect(s)
  <2>1. PICK s \in Sessions : Disconnect(s)
    BY <1>6
  <2>2. <<"host", s>> \in Ends /\ Sid(<<"host", s>>) = s
    BY DEF Ends, Sid
  <2> QED
    BY <1>1, <2>1, <2>2, EndMaps
<1>7. CASE UNCHANGED vars
  BY <1>7 DEF vars, history, Stream!vars
<1> QED
  BY <1>2, <1>3, <1>4, <1>5, <1>6, <1>7 DEF Next

\* What the two ends and the line between them always agree on: which indices
\* are used, in which order packages come, which were passed on, and where
\* those are that were not (uart.cpp:616-658, 1019-1060).
THEOREM Invariant == Spec => []UInv
<1>1. Init => UInv
  BY InitHolds
<1>2. UInv /\ [Next]_vars => UInv'
  BY NextKeeps
<1> QED
  BY <1>1, <1>2, PTL DEF Spec

\* The link keeps its promise, for any sessions, any messages and any noise:
\* packages are passed on in order, at most once and without gaps.
THEOREM Implements == Spec => StreamSafe
<1>1. Init => Stream!Init
  BY InitMaps
<1>2. UInv /\ [Next]_vars => [Stream!Next]_(Stream!vars)
  BY NextMaps
<1> QED
  BY <1>1, <1>2, Invariant, PTL DEF Spec, StreamSafe, Stream!Safe
=============================================================================
