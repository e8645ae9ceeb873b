---------------------------- MODULE ScenesProofs ----------------------------
(***************************************************************************)
(* What switching promises of the scenes it parks, brings back and frees,  *)
(* proved for any files of any size, any budget, any fades and any number  *)
(* of switches and edits.                                                  *)
(***************************************************************************)
EXTENDS Scenes, Stepwise

Trees == [file : Files \union {NoFile}, from : Nat, number : Nat, nodes : Nat,
          alpha : 0 .. 100]

-----------------------------------------------------------------------------
(* The nodes of a list of scenes, added up one by one.                     *)
Sums(h, scenes) ==
    /\ h \in [0 .. Len(scenes) -> Nat] /\ h[0] = 0
    /\ \A i \in 1 .. Len(scenes) : h[i] = h[i - 1] + scenes[i].nodes

Counts == Nat

LEMMA CountSteps ==
    ASSUME NEW x \in Counts, NEW n \in Nat, NEW G \in [1 .. n -> [Counts -> Counts]]
    PROVE  \E f \in [0 .. n -> Counts] : f[0] = x /\ \A i \in 1 .. n : f[i] = G[i][f[i - 1]]
BY StepsExist

(* There are such sums.                                                    *)
LEMMA SumsExist ==
    ASSUME NEW scenes \in Seq(Trees)
    PROVE  \E h : Sums(h, scenes)
<1> DEFINE n == Len(scenes)
           G == [i \in 1 .. n |-> [m \in Nat |-> m + scenes[i].nodes]]
<1>1. n \in Nat /\ \A i \in 1 .. n : scenes[i] \in Trees
    OBVIOUS
<1>2. \A i \in 1 .. n : scenes[i].nodes \in Nat
    BY <1>1 DEF Trees
<1>3. G \in [1 .. n -> [Nat -> Nat]]
    <2> HIDE DEF n
    <2> QED
        BY <1>2
<1>4. \A i \in 1 .. n : \A m \in Nat : G[i][m] = m + scenes[i].nodes
    OBVIOUS
<1> HIDE DEF G
<1>5. PICK f \in [0 .. n -> Nat] : f[0] = 0 /\ \A i \in 1 .. n : f[i] = G[i][f[i - 1]]
    <2> DEFINE x == 0
    <2>1. x \in Counts /\ n \in Nat /\ G \in [1 .. n -> [Counts -> Counts]]
        BY <1>1, <1>3 DEF Counts
    <2> HIDE DEF x, n
    <2>2. \E f \in [0 .. n -> Counts] : f[0] = x /\ \A i \in 1 .. n : f[i] = G[i][f[i - 1]]
        BY <2>1, CountSteps
    <2> QED
        BY <2>2 DEF Counts, x
<1>6. \A i \in 1 .. n : i - 1 \in 0 .. n
    BY <1>1
<1>7. \A i \in 1 .. n : f[i] = f[i - 1] + scenes[i].nodes
    BY <1>4, <1>5, <1>6
<1> QED
    BY <1>5, <1>7 DEF Sums

(* They are what the list holds.                                           *)
LEMMA SumsAreNodes ==
    ASSUME NEW scenes \in Seq(Trees), NEW h, Sums(h, scenes)
    PROVE  NodesOf(scenes) = h[Len(scenes)]
<1> DEFINE n == Len(scenes)
           F(f) == f = [i \in 0 .. n |-> IF i = 0 THEN 0 ELSE f[i - 1] + scenes[i].nodes]
           held == CHOOSE f : F(f)
<1>1. n \in Nat /\ h \in [0 .. n -> Nat] /\ h[0] = 0
      /\ \A i \in 1 .. n : h[i] = h[i - 1] + scenes[i].nodes
    BY DEF Sums
<1>2. NodesOf(scenes) = held[n]
    BY DEF NodesOf
<1> HIDE DEF n
<1>3. \A i \in 0 .. n : i = 0 \/ i \in 1 .. n
    BY <1>1
<1>4. \A i \in 0 .. n : h[i] = IF i = 0 THEN 0 ELSE h[i - 1] + scenes[i].nodes
    BY <1>1, <1>3
<1>5. F(h)
    BY <1>1, <1>4
<1> HIDE DEF F
<1>6. F(held)
    BY <1>5
<1>7. held = [i \in 0 .. n |-> IF i = 0 THEN 0 ELSE held[i - 1] + scenes[i].nodes]
    BY <1>6 DEF F
<1> HIDE DEF held
<1>8. held[0] = 0 /\ \A i \in 1 .. n : held[i] = held[i - 1] + scenes[i].nodes
    BY <1>1, <1>7
<1> DEFINE P == {i \in 0 .. n : held[i] = h[i]}
<1>9. 0 .. n \subseteq P
    <2>1. 0 \in P
        BY <1>1, <1>8
    <2>2. ASSUME NEW i \in 0 .. n - 1, i \in P PROVE i + 1 \in P
        <3>1. i + 1 \in 1 .. n /\ i + 1 \in 0 .. n /\ i + 1 - 1 = i
            BY <1>1
        <3> QED
            BY <1>1, <1>8, <2>2, <3>1
    <2> HIDE DEF P
    <2> QED
        BY <1>1, <2>1, <2>2, StepByStep
<1>10. n \in P
    BY <1>1, <1>9
<1> QED
    BY <1>2, <1>10 DEF n

LEMMA NodesAreANumber ==
    ASSUME NEW scenes \in Seq(Trees)
    PROVE  NodesOf(scenes) \in Nat
<1>1. PICK h : Sums(h, scenes)
    BY SumsExist
<1>2. Len(scenes) \in 0 .. Len(scenes)
    OBVIOUS
<1> QED
    BY <1>1, <1>2, SumsAreNodes DEF Sums

LEMMA SumsGrow ==
    ASSUME NEW scenes \in Seq(Trees), NEW h, Sums(h, scenes),
           NEW i \in 0 .. Len(scenes), NEW k \in 0 .. Len(scenes), i <= k
    PROVE  h[i] <= h[k]
<1> DEFINE n == Len(scenes)
           P == {j \in 0 .. n : i <= j => h[i] <= h[j]}
<1>1. n \in Nat /\ \A j \in 1 .. n : scenes[j] \in Trees
    OBVIOUS
<1>2. \A j \in 1 .. n : scenes[j].nodes \in Nat
    BY <1>1 DEF Trees
<1>3. h \in [0 .. n -> Nat] /\ \A j \in 1 .. n : h[j] = h[j - 1] + scenes[j].nodes
    BY DEF Sums
<1>4. i \in 0 .. n /\ k \in 0 .. n
    OBVIOUS
<1> HIDE DEF n
<1>5. 0 \in P
    <2>1. i <= 0 => i = 0
        BY <1>1, <1>4
    <2> QED
        BY <1>1, <1>3, <1>4, <2>1
<1>6. ASSUME NEW j \in 0 .. n - 1, j \in P PROVE j + 1 \in P
    <2>1. j + 1 \in 1 .. n /\ j + 1 \in 0 .. n /\ j + 1 - 1 = j /\ j \in 0 .. n
        BY <1>1
    <2>2. h[j + 1] = h[j] + scenes[j + 1].nodes /\ scenes[j + 1].nodes \in Nat
        BY <1>2, <1>3, <2>1
    <2>3. h[i] \in Nat /\ h[j] \in Nat
        BY <1>3, <1>4, <2>1
    <2>4. CASE i <= j
        BY <1>6, <2>1, <2>2, <2>3, <2>4
    <2>5. CASE ~(i <= j)
        <3>1. i <= j + 1 => i = j + 1
            BY <1>1, <1>4, <2>5
        <3> QED
            BY <2>1, <2>2, <2>3, <3>1
    <2> QED
        BY <2>4, <2>5
<1>7. 0 .. n \subseteq P
    <2> HIDE DEF P
    <2> QED
        BY <1>1, <1>5, <1>6, StepByStep
<1> QED
    BY <1>4, <1>7

(* The scenes from one on.                                                 *)
LEMMA NodesFrom ==
    ASSUME NEW scenes \in Seq(Trees), NEW h, Sums(h, scenes), NEW i \in 1 .. Len(scenes) + 1
    PROVE  /\ SubSeq(scenes, i, Len(scenes)) \in Seq(Trees)
           /\ NodesOf(SubSeq(scenes, i, Len(scenes))) = h[Len(scenes)] - h[i - 1]
<1> DEFINE n == Len(scenes)
           rest == SubSeq(scenes, i, n)
           g == [j \in 0 .. n - i + 1 |-> h[i - 1 + j] - h[i - 1]]
<1>1. n \in Nat /\ i \in Nat /\ i >= 1 /\ i <= n + 1
    OBVIOUS
<1>2. rest \in Seq(Trees) /\ Len(rest) = n - i + 1
      /\ \A j \in 1 .. n - i + 1 : rest[j] = scenes[i - 1 + j]
    OBVIOUS
<1>3. h \in [0 .. n -> Nat] /\ \A j \in 1 .. n : h[j] = h[j - 1] + scenes[j].nodes
    BY DEF Sums
<1>4. \A j \in 0 .. n : j >= i - 1 => h[i - 1] <= h[j]
    <2>1. i - 1 \in 0 .. n
        BY <1>1
    <2> QED
        BY <2>1, SumsGrow
<1> HIDE DEF n, rest
<1>5. \A j \in 0 .. n - i + 1 : i - 1 + j \in 0 .. n /\ i - 1 \in 0 .. n /\ i - 1 + j >= i - 1
    BY <1>1
<1>6. g \in [0 .. n - i + 1 -> Nat]
    <2>1. ASSUME NEW j \in 0 .. n - i + 1 PROVE h[i - 1 + j] - h[i - 1] \in Nat
        <3>1. h[i - 1 + j] \in Nat /\ h[i - 1] \in Nat /\ h[i - 1] <= h[i - 1 + j]
            BY <1>3, <1>4, <1>5
        <3> QED
            BY <3>1
    <2> QED
        BY <2>1
<1>7. g[0] = 0
    <2>1. 0 \in 0 .. n - i + 1 /\ i - 1 + 0 = i - 1 /\ h[i - 1] \in Nat
        BY <1>1, <1>3, <1>5
    <2> QED
        BY <2>1
<1>8. ASSUME NEW j \in 1 .. n - i + 1
      PROVE  g[j] = g[j - 1] + rest[j].nodes
    <2>1. j \in 0 .. n - i + 1 /\ j - 1 \in 0 .. n - i + 1 /\ i - 1 + j \in 1 .. n
          /\ i - 1 + (j - 1) = i - 1 + j - 1
        BY <1>1
    <2>2. h[i - 1 + j] = h[i - 1 + j - 1] + scenes[i - 1 + j].nodes
        BY <1>3, <2>1
    <2>3. scenes[i - 1 + j].nodes = rest[j].nodes /\ rest[j] \in Trees
        BY <1>2
    <2>4. rest[j].nodes \in Nat
        BY <2>3 DEF Trees
    <2>5. h[i - 1 + j - 1] \in Nat /\ h[i - 1] \in Nat
        BY <1>3, <1>5, <2>1
    <2>6. g[j] = h[i - 1 + j] - h[i - 1] /\ g[j - 1] = h[i - 1 + j - 1] - h[i - 1]
        BY <2>1
    <2> HIDE DEF g
    <2> DEFINE now == h[i - 1 + j]
               before == h[i - 1 + j - 1]
               start == h[i - 1]
               more == rest[j].nodes
    <2>7. /\ now = before + more /\ more \in Nat /\ before \in Nat /\ start \in Nat
          /\ g[j] = now - start /\ g[j - 1] = before - start
        BY <2>2, <2>3, <2>4, <2>5, <2>6
    <2> HIDE DEF now, before, start
    <2> QED
        BY <2>7
<1>9. g[n - i + 1] = h[n] - h[i - 1]
    BY <1>1
<1> HIDE DEF g
<1>10. Sums(g, rest)
    BY <1>2, <1>6, <1>7, <1>8 DEF Sums
<1>11. NodesOf(rest) = g[Len(rest)]
    BY <1>2, <1>10, SumsAreNodes
<1> QED
    BY <1>2, <1>9, <1>11 DEF n, rest

(* One scene more.                                                         *)
LEMMA SumsWithOneMore ==
    ASSUME NEW scenes \in Seq(Trees), NEW h, Sums(h, scenes), NEW x \in Trees
    PROVE  \E g : /\ Sums(g, Append(scenes, x))
                  /\ \A i \in 0 .. Len(scenes) : g[i] = h[i]
                  /\ g[Len(scenes) + 1] = h[Len(scenes)] + x.nodes
<1> DEFINE n == Len(scenes)
           more == Append(scenes, x)
           g == [i \in 0 .. n + 1 |-> IF i = n + 1 THEN h[n] + x.nodes ELSE h[i]]
<1>1. n \in Nat /\ more \in Seq(Trees) /\ Len(more) = n + 1 /\ more[n + 1] = x
      /\ \A i \in 1 .. n : more[i] = scenes[i]
    OBVIOUS
<1>2. h \in [0 .. n -> Nat] /\ h[0] = 0 /\ \A i \in 1 .. n : h[i] = h[i - 1] + scenes[i].nodes
    BY DEF Sums
<1>3. x.nodes \in Nat
    BY DEF Trees
<1> HIDE DEF n, more
<1>4. \A i \in 0 .. n + 1 : i = n + 1 \/ i \in 0 .. n
    BY <1>1
<1>5. n \in 0 .. n /\ n + 1 \in 0 .. n + 1 /\ \A i \in 0 .. n : i \in 0 .. n + 1 /\ i # n + 1
    BY <1>1
<1>6. g \in [0 .. n + 1 -> Nat]
    BY <1>2, <1>3, <1>4, <1>5
<1>7. g[n + 1] = h[n] + x.nodes /\ \A i \in 0 .. n : g[i] = h[i]
    BY <1>5
<1> HIDE DEF g
<1>8. ASSUME NEW i \in 1 .. n + 1
      PROVE  g[i] = g[i - 1] + more[i].nodes
    <2>1. CASE i = n + 1
        <3>1. i - 1 = n
            BY <1>1, <2>1
        <3> QED
            BY <1>1, <1>5, <1>7, <2>1, <3>1
    <2>2. CASE i # n + 1
        <3>1. i \in 1 .. n /\ i \in 0 .. n /\ i - 1 \in 0 .. n
            BY <1>1, <2>2
        <3> QED
            BY <1>1, <1>2, <1>7, <3>1
    <2> QED
        BY <2>1, <2>2
<1>9. g[0] = 0
    BY <1>1, <1>2, <1>7
<1>10. Sums(g, more)
    BY <1>1, <1>6, <1>8, <1>9 DEF Sums
<1> QED
    BY <1>7, <1>10 DEF n, more

LEMMA NodesWithOneMore ==
    ASSUME NEW scenes \in Seq(Trees), NEW x \in Trees, NEW i \in 1 .. Len(scenes) + 1
    PROVE  LET more == Append(scenes, x)
           IN  NodesOf(SubSeq(more, i, Len(more)))
                 = NodesOf(SubSeq(scenes, i, Len(scenes))) + x.nodes
<1> DEFINE more == Append(scenes, x)
           n == Len(scenes)
<1>1. PICK h : Sums(h, scenes)
    BY SumsExist
<1>2. PICK g : /\ Sums(g, more) /\ \A k \in 0 .. n : g[k] = h[k]
               /\ g[n + 1] = h[n] + x.nodes
    BY <1>1, SumsWithOneMore
<1>3. more \in Seq(Trees) /\ Len(more) = n + 1 /\ n \in Nat /\ i \in 1 .. Len(more) + 1
      /\ i - 1 \in 0 .. n /\ n \in 0 .. n
    OBVIOUS
<1>4. x.nodes \in Nat /\ h[n] \in Nat /\ h[i - 1] \in Nat
    BY <1>1, <1>3 DEF Trees, Sums
<1> HIDE DEF more
<1>5. NodesOf(SubSeq(more, i, Len(more))) = g[Len(more)] - g[i - 1]
    BY <1>2, <1>3, NodesFrom
<1>6. NodesOf(SubSeq(scenes, i, n)) = h[n] - h[i - 1]
    BY <1>1, NodesFrom
<1> HIDE DEF n
<1>7. g[Len(more)] - g[i - 1] = h[n] - h[i - 1] + x.nodes
    BY <1>2, <1>3, <1>4
<1> QED
    BY <1>5, <1>6, <1>7 DEF n, more

(* One scene less.                                                         *)
LEMMA OneLess ==
    ASSUME NEW scenes \in Seq(Trees), NEW k \in 1 .. Len(scenes)
    PROVE  LET rest == RemoveAt(scenes, k)
           IN  /\ rest \in Seq(Trees) /\ Len(rest) = Len(scenes) - 1
               /\ \A i \in 1 .. Len(rest) : rest[i] = IF i < k THEN scenes[i] ELSE scenes[i + 1]
<1> DEFINE n == Len(scenes)
           before == SubSeq(scenes, 1, k - 1)
           after == SubSeq(scenes, k + 1, n)
<1>1. before \in Seq(Trees) /\ Len(before) = k - 1 /\ \A i \in 1 .. k - 1 : before[i] = scenes[i]
    OBVIOUS
<1>2. after \in Seq(Trees) /\ Len(after) = n - k /\ \A i \in 1 .. n - k : after[i] = scenes[k + i]
    OBVIOUS
<1>3. RemoveAt(scenes, k) = before \o after
    BY DEF RemoveAt
<1>4. n \in Nat /\ k \in 1 .. n
    OBVIOUS
<1> HIDE DEF before, after, n
<1> DEFINE rest == before \o after
<1>5. rest \in Seq(Trees) /\ Len(rest) = n - 1
    BY <1>1, <1>2, <1>4
<1>6. ASSUME NEW i \in 1 .. n - 1
      PROVE  rest[i] = IF i < k THEN scenes[i] ELSE scenes[i + 1]
    <2>1. CASE i < k
        <3>1. i \in 1 .. k - 1
            BY <1>4, <2>1
        <3> QED
            BY <1>1, <1>2, <2>1, <3>1
    <2>2. CASE ~(i < k)
        <3>1. i - (k - 1) \in 1 .. n - k /\ k + (i - (k - 1)) = i + 1
            BY <1>4, <2>2
        <3>2. rest[i] = after[i - (k - 1)]
            BY <1>1, <1>2, <1>4, <2>2, <3>1
        <3>3. after[i - (k - 1)] = scenes[i + 1]
            BY <1>2, <3>1
        <3> QED
            BY <2>2, <3>2, <3>3
    <2> QED
        BY <2>1, <2>2
<1> HIDE DEF rest
<1> QED
    BY <1>3, <1>5, <1>6 DEF n, rest

LEMMA NodesOfOneLess ==
    ASSUME NEW scenes \in Seq(Trees), NEW k \in 1 .. Len(scenes)
    PROVE  NodesOf(RemoveAt(scenes, k)) <= NodesOf(scenes)
<1> DEFINE rest == RemoveAt(scenes, k)
           n == Len(scenes)
<1>1. /\ rest \in Seq(Trees) /\ Len(rest) = n - 1
      /\ \A i \in 1 .. n - 1 : rest[i] = IF i < k THEN scenes[i] ELSE scenes[i + 1]
    BY OneLess
<1>2. PICK h : Sums(h, scenes)
    BY SumsExist
<1>3. PICK g : Sums(g, rest)
    BY <1>1, SumsExist
<1>4. NodesOf(scenes) = h[n] /\ NodesOf(rest) = g[n - 1]
    BY <1>1, <1>2, <1>3, SumsAreNodes
<1>5. n \in Nat /\ k \in 1 .. n /\ \A i \in 1 .. n : scenes[i].nodes \in Nat
    <2>1. n \in Nat /\ k \in 1 .. n /\ \A i \in 1 .. n : scenes[i] \in Trees
        OBVIOUS
    <2> QED
        BY <2>1 DEF Trees
<1>6. h \in [0 .. n -> Nat] /\ h[0] = 0 /\ \A i \in 1 .. n : h[i] = h[i - 1] + scenes[i].nodes
    BY <1>2 DEF Sums
<1>7. g \in [0 .. n - 1 -> Nat] /\ g[0] = 0 /\ \A i \in 1 .. n - 1 : g[i] = g[i - 1] + rest[i].nodes
    BY <1>1, <1>3 DEF Sums
<1> HIDE DEF n, rest
<1> DEFINE P == {i \in 0 .. n - 1 : g[i] <= IF i < k THEN h[i] ELSE h[i + 1]}
<1>8. 0 \in P
    BY <1>5, <1>6, <1>7
<1>9. ASSUME NEW i \in 0 .. n - 2, i \in P
      PROVE  i + 1 \in P
    <2>1. i + 1 \in 1 .. n - 1 /\ i + 1 \in 0 .. n - 1 /\ i + 1 - 1 = i /\ i \in 0 .. n
          /\ i + 1 \in 1 .. n /\ i + 1 \in 0 .. n /\ i + 2 \in 1 .. n /\ i + 2 \in 0 .. n
          /\ i + 2 - 1 = i + 1 /\ i \in 0 .. n - 1 /\ i + 1 + 1 = i + 2
        BY <1>5
    <2>2. g[i + 1] = g[i] + rest[i + 1].nodes /\ g[i] \in Nat /\ g[i + 1] \in Nat
        BY <1>7, <2>1
    <2>3. h[i + 1] = h[i] + scenes[i + 1].nodes /\ h[i + 2] = h[i + 1] + scenes[i + 2].nodes
          /\ h[i] \in Nat /\ h[i + 1] \in Nat /\ h[i + 2] \in Nat
          /\ scenes[i + 1].nodes \in Nat /\ scenes[i + 2].nodes \in Nat
        <3>1. h[i] \in Nat /\ h[i + 1] \in Nat /\ h[i + 2] \in Nat
            BY <1>6, <2>1
        <3>2. scenes[i + 1].nodes \in Nat /\ scenes[i + 2].nodes \in Nat
            BY <1>5, <2>1
        <3>3. h[i + 1] = h[i + 1 - 1] + scenes[i + 1].nodes
            BY <1>6, <2>1
        <3>4. h[i + 2] = h[i + 2 - 1] + scenes[i + 2].nodes
            BY <1>6, <2>1
        <3> QED
            BY <2>1, <3>1, <3>2, <3>3, <3>4
    <2>4. CASE i + 1 < k
        <3>1. i < k
            BY <1>5, <2>1, <2>4
        <3>2. rest[i + 1] = scenes[i + 1] /\ g[i] <= h[i]
            BY <1>1, <1>9, <2>1, <2>4, <3>1
        <3> DEFINE g0 == g[i]
                   h0 == h[i]
                   more == scenes[i + 1].nodes
        <3>4. g0 <= h0 /\ g0 \in Nat /\ h0 \in Nat /\ more \in Nat
            BY <2>2, <2>3, <3>2
        <3>5. g[i + 1] = g0 + more /\ h[i + 1] = h0 + more
            BY <2>2, <2>3, <3>2
        <3> HIDE DEF g0, h0, more
        <3>3. g[i + 1] <= h[i + 1]
            <4>1. g0 + more <= h0 + more
                BY <3>4
            <4> QED
                BY <3>5, <4>1
        <3> QED
            BY <2>1, <2>4, <3>3
    <2>5. CASE ~(i + 1 < k)
        <3>1. rest[i + 1] = scenes[i + 2]
            BY <1>1, <1>5, <2>1, <2>5
        <3>2. g[i] <= h[i] \/ g[i] <= h[i + 1]
            BY <1>9
        <3> DEFINE g0 == g[i]
                   h0 == h[i]
                   h1 == h[i + 1]
                   here == scenes[i + 1].nodes
                   more == scenes[i + 2].nodes
        <3>3. /\ g0 \in Nat /\ h0 \in Nat /\ h1 \in Nat /\ here \in Nat /\ more \in Nat
              /\ h1 = h0 + here
            BY <2>2, <2>3
        <3>4. g[i + 1] = g0 + more /\ h[i + 2] = h1 + more /\ (g0 <= h0 \/ g0 <= h1)
            BY <2>2, <2>3, <3>1, <3>2
        <3> HIDE DEF g0, h0, h1, here, more
        <3>5. g[i + 1] <= h[i + 2]
            <4>1. g0 <= h1
                BY <3>3, <3>4
            <4>2. g0 + more <= h1 + more
                BY <3>3, <4>1
            <4> QED
                BY <3>4, <4>2
        <3> QED
            BY <2>1, <2>5, <3>5
    <2> QED
        BY <2>4, <2>5
<1>10. n - 1 \in P
    <2>1. n - 1 \in Nat /\ n - 1 - 1 = n - 2 /\ n - 1 \in 0 .. n - 1
        BY <1>5
    <2> DEFINE m == n - 1
    <2>2. \A i \in 0 .. m - 1 : i \in P => i + 1 \in P
        BY <1>9, <2>1
    <2>3. m \in Nat /\ m \in 0 .. m
        BY <2>1
    <2> HIDE DEF P, m
    <2>4. 0 .. m \subseteq P
        BY <1>8, <2>2, <2>3, StepByStep
    <2> QED
        BY <2>3, <2>4 DEF m
<1>11. g[n - 1] <= h[n]
    <2>1. n \in 1 .. n /\ n - 1 \in 0 .. n /\ n - 1 \in 0 .. n - 1 /\ n \in 0 .. n /\ n - 1 + 1 = n
        BY <1>5
    <2>2. h[n] = h[n - 1] + scenes[n].nodes /\ h[n] \in Nat /\ h[n - 1] \in Nat
          /\ scenes[n].nodes \in Nat /\ g[n - 1] \in Nat
        BY <1>5, <1>6, <1>7, <2>1
    <2> QED
        BY <1>10, <2>1, <2>2
<1> QED
    BY <1>4, <1>11 DEF rest
-----------------------------------------------------------------------------
(* The least of some numbers.                                              *)
LEMMA LeastIs ==
    ASSUME NEW S \in SUBSET Nat, S # {}
    PROVE  Min(S) \in S /\ \A y \in S : Min(S) <= y
<1>1. PICK m \in S : \A y \in S : <<y, m>> \notin OpToRel(<, Nat)
    BY NatLessThanWellFounded, WFMin
<1>2. \A y \in S : m <= y
    <2> SUFFICES ASSUME NEW y \in S, ~(m <= y) PROVE FALSE
        OBVIOUS
    <2>1. y < m /\ y \in Nat /\ m \in Nat /\ <<y, m>> \in Nat \X Nat
        OBVIOUS
    <2>2. <<y, m>> \in OpToRel(<, Nat)
        BY <2>1 DEF OpToRel
    <2> QED
        BY <1>1, <2>2
<1> QED
    BY <1>2 DEF Min

(* What is freed for the budget: the fewest, from the oldest on.           *)
LEMMA FittingIs ==
    ASSUME NEW scenes \in Seq(Trees)
    PROVE  \E m \in 1 .. Len(scenes) + 1 :
              /\ Fitting(scenes) = SubSeq(scenes, m, Len(scenes))
              /\ NodesOf(Fitting(scenes)) <= Budget
              /\ \A i \in 1 .. Len(scenes) + 1 :
                    NodesOf(SubSeq(scenes, i, Len(scenes))) <= Budget => m <= i
<1> DEFINE n == Len(scenes)
           fits == {i \in 1 .. n + 1 : NodesOf(SubSeq(scenes, i, n)) <= Budget}
<1>1. PICK h : Sums(h, scenes)
    BY SumsExist
<1>2. n \in Nat /\ n + 1 \in 1 .. n + 1 /\ n + 1 - 1 = n /\ n \in 0 .. n
    OBVIOUS
<1>3. NodesOf(SubSeq(scenes, n + 1, n)) = h[n] - h[n]
    BY <1>1, <1>2, NodesFrom
<1>4. h[n] - h[n] = 0
    BY <1>1, <1>2 DEF Sums
<1>5. n + 1 \in fits
    BY <1>2, <1>3, <1>4, SceneConstants
<1>6. fits \in SUBSET Nat /\ fits # {}
    BY <1>2, <1>5
<1> HIDE DEF fits
<1>7. Min(fits) \in fits /\ \A i \in fits : Min(fits) <= i
    BY <1>6, LeastIs
<1>8. Fitting(scenes) = SubSeq(scenes, Min(fits), n)
    BY DEF Fitting, fits
<1>9. Min(fits) \in 1 .. n + 1 /\ NodesOf(SubSeq(scenes, Min(fits), n)) <= Budget
    BY <1>7 DEF fits
<1>10. \A i \in 1 .. n + 1 : NodesOf(SubSeq(scenes, i, n)) <= Budget => Min(fits) <= i
    BY <1>7 DEF fits
<1> HIDE DEF n
<1> QED
    BY <1>8, <1>9, <1>10 DEF n

-----------------------------------------------------------------------------
(* A list of scenes that is sound while the one under the root is of the   *)
(* file current.                                                           *)
Listed(scenes, current) ==
    /\ scenes \in Seq(Trees)
    /\ \A i \in 1 .. Len(scenes) :
          /\ scenes[i].file \in Files \ {current} /\ scenes[i].nodes \in 1 .. Budget
          /\ \A k \in 1 .. Len(scenes) : scenes[i].file = scenes[k].file => i = k

Sound(scenes, current) == Listed(scenes, current) /\ NodesOf(scenes) <= Budget

(* Each is seen whole, but for those left in the middle of a fade.         *)
Whole(scene, dimmed) == scene.number \in dimmed \/ scene.alpha = 100
AllWhole(scenes, dimmed) == \A i \in 1 .. Len(scenes) : Whole(scenes[i], dimmed)

(* later has the scenes of some from m on.                                 *)
LEMMA ListedFrom ==
    ASSUME NEW scenes, NEW current, Listed(scenes, current), NEW m \in 1 .. Len(scenes) + 1
    PROVE  LET rest == SubSeq(scenes, m, Len(scenes))
           IN  /\ Listed(rest, current)
               /\ \A i \in m .. Len(scenes) : \E k \in 1 .. Len(rest) : rest[k] = scenes[i]
               /\ \A k \in 1 .. Len(rest) : \E i \in 1 .. Len(scenes) : rest[k] = scenes[i]
<1> DEFINE n == Len(scenes)
           rest == SubSeq(scenes, m, n)
<1>1. scenes \in Seq(Trees) /\ n \in Nat /\ m \in 1 .. n + 1
    BY DEF Listed
<1>2. rest \in Seq(Trees) /\ Len(rest) = n - m + 1
      /\ \A j \in 1 .. n - m + 1 : rest[j] = scenes[m - 1 + j]
    BY <1>1
<1> HIDE DEF rest, n
<1>3. \A j \in 1 .. n - m + 1 : m - 1 + j \in 1 .. n
    BY <1>1
<1>4. \A i \in m .. n : i - (m - 1) \in 1 .. n - m + 1 /\ m - 1 + (i - (m - 1)) = i
    BY <1>1
<1>5. \A i \in m .. n : rest[i - (m - 1)] = scenes[i]
    BY <1>2, <1>4
<1>6. ASSUME NEW j \in 1 .. n - m + 1
      PROVE  /\ rest[j].file \in Files \ {current} /\ rest[j].nodes \in 1 .. Budget
             /\ \A k \in 1 .. n - m + 1 : rest[j].file = rest[k].file => j = k
    <2>1. rest[j] = scenes[m - 1 + j] /\ m - 1 + j \in 1 .. n
        BY <1>2, <1>3
    <2>2. rest[j].file \in Files \ {current} /\ rest[j].nodes \in 1 .. Budget
        BY <2>1 DEF Listed, n
    <2>3. ASSUME NEW k \in 1 .. n - m + 1, rest[j].file = rest[k].file PROVE j = k
        <3>1. rest[k] = scenes[m - 1 + k] /\ m - 1 + k \in 1 .. n
            BY <1>2, <1>3
        <3>2. m - 1 + j = m - 1 + k
            BY <2>1, <2>3, <3>1 DEF Listed, n
        <3> QED
            BY <1>1, <3>2
    <2> QED
        BY <2>2, <2>3
<1>7. Listed(rest, current)
    BY <1>2, <1>6 DEF Listed
<1> QED
    BY <1>2, <1>3, <1>4, <1>5, <1>7 DEF rest, n

(* A scene of a file not listed joins the others.                          *)
LEMMA ListedWithOneMore ==
    ASSUME NEW scenes, NEW x \in Trees, Listed(scenes, x.file), x.file \in Files,
           x.nodes \in 1 .. Budget
    PROVE  Listed(Append(scenes, x), NoFile)
<1> DEFINE n == Len(scenes)
           more == Append(scenes, x)
<1>1. scenes \in Seq(Trees) /\ n \in Nat
    BY DEF Listed
<1>2. more \in Seq(Trees) /\ Len(more) = n + 1 /\ more[n + 1] = x
      /\ \A i \in 1 .. n : more[i] = scenes[i]
    BY <1>1
<1>3. \A i \in 1 .. n : /\ scenes[i].file \in Files /\ scenes[i].file # x.file
                        /\ scenes[i].nodes \in 1 .. Budget
                        /\ \A k \in 1 .. n : scenes[i].file = scenes[k].file => i = k
    BY DEF Listed
<1> HIDE DEF n, more
<1>4. \A i \in 1 .. n + 1 : i = n + 1 \/ i \in 1 .. n
    BY <1>1
<1>5. ASSUME NEW i \in 1 .. n + 1
      PROVE  /\ more[i].file \in Files \ {NoFile} /\ more[i].nodes \in 1 .. Budget
             /\ \A k \in 1 .. n + 1 : more[i].file = more[k].file => i = k
    <2>1. CASE i = n + 1
        BY <1>2, <1>3, <1>4, <2>1, SceneConstants
    <2>2. CASE i \in 1 .. n
        BY <1>2, <1>3, <1>4, <2>2, SceneConstants
    <2> QED
        BY <1>4, <2>1, <2>2
<1>6. Len(more) = n + 1 /\ more \in Seq(Trees)
    BY <1>2
<1> QED
    BY <1>5, <1>6 DEF Listed, more

(* The scene of a file taken off, and no other.                            *)
LEMMA WithoutIs ==
    ASSUME NEW scenes, Sound(scenes, NoFile), NEW file \in Files
    PROVE  LET rest == Without(scenes, file)
           IN  /\ Sound(rest, file)
               /\ \A i \in 1 .. Len(scenes) : scenes[i].file # file =>
                     \E k \in 1 .. Len(rest) : rest[k] = scenes[i]
               /\ \A k \in 1 .. Len(rest) : \E i \in 1 .. Len(scenes) : rest[k] = scenes[i]
<1> DEFINE n == Len(scenes)
           at == {i \in DOMAIN scenes : scenes[i].file = file}
           rest == Without(scenes, file)
<1>1. scenes \in Seq(Trees) /\ n \in Nat /\ DOMAIN scenes = 1 .. n
      /\ NodesOf(scenes) <= Budget
    BY DEF Sound, Listed
<1>2. \A i \in 1 .. n : /\ scenes[i].file \in Files \ {NoFile} /\ scenes[i].nodes \in 1 .. Budget
                        /\ \A k \in 1 .. n : scenes[i].file = scenes[k].file => i = k
    BY DEF Sound, Listed
<1>3. CASE at = {}
    <2>1. rest = scenes
        BY <1>3 DEF Without
    <2>2. \A i \in 1 .. n : scenes[i].file # file
        BY <1>1, <1>3
    <2> HIDE DEF rest
    <2>3. Listed(rest, file)
        BY <1>1, <1>2, <2>1, <2>2 DEF Listed
    <2> QED
        BY <1>1, <2>1, <2>3 DEF Sound, rest
<1>4. CASE at # {}
    <2> DEFINE k == Min(at)
    <2>1. at \in SUBSET Nat
        BY <1>1
    <2> HIDE DEF at
    <2>2. k \in at
        BY <1>4, <2>1, LeastIs
    <2>3. rest = RemoveAt(scenes, k)
        BY <1>4 DEF Without, at
    <2>4. k \in 1 .. n /\ scenes[k].file = file
        BY <1>1, <2>2 DEF at
    <2> HIDE DEF k, rest
    <2>5. /\ rest \in Seq(Trees) /\ Len(rest) = n - 1
          /\ \A i \in 1 .. n - 1 : rest[i] = IF i < k THEN scenes[i] ELSE scenes[i + 1]
        BY <1>1, <2>3, <2>4, OneLess
    <2>6. NodesOf(rest) <= NodesOf(scenes) /\ NodesOf(rest) \in Nat /\ NodesOf(scenes) \in Nat
        BY <1>1, <2>3, <2>4, <2>5, NodesOfOneLess, NodesAreANumber
    <2> HIDE DEF n
    <2>7. ASSUME NEW i \in 1 .. n - 1
          PROVE  \E j \in 1 .. n : rest[i] = scenes[j] /\ j # k /\ j = IF i < k THEN i ELSE i + 1
        <3>1. i \in 1 .. n /\ i + 1 \in 1 .. n
            BY <1>1
        <3>2. CASE i < k
            BY <2>4, <2>5, <3>1, <3>2
        <3>3. CASE ~(i < k)
            <4>1. i + 1 # k
                BY <1>1, <2>4, <3>3
            <4> QED
                BY <2>5, <3>1, <3>3, <4>1
        <3> QED
            BY <3>2, <3>3
    <2>8. ASSUME NEW i \in 1 .. n - 1
          PROVE  /\ rest[i].file \in Files \ {file} /\ rest[i].nodes \in 1 .. Budget
                 /\ \A l \in 1 .. n - 1 : rest[i].file = rest[l].file => i = l
        <3>1. PICK j \in 1 .. n : rest[i] = scenes[j] /\ j # k /\ j = IF i < k THEN i ELSE i + 1
            BY <2>7
        <3>2. rest[i].file \in Files \ {file} /\ rest[i].nodes \in 1 .. Budget
            BY <1>2, <2>4, <3>1
        <3>3. ASSUME NEW l \in 1 .. n - 1, rest[i].file = rest[l].file PROVE i = l
            <4>1. PICK o \in 1 .. n : rest[l] = scenes[o] /\ o # k /\ o = IF l < k THEN l ELSE l + 1
                BY <2>7
            <4>2. j = o
                BY <1>2, <3>1, <3>3, <4>1
            <4>3. i \in Nat /\ l \in Nat /\ k \in Nat
                BY <1>1, <2>4
            <4> QED
                BY <3>1, <4>1, <4>2, <4>3
        <3> QED
            BY <3>2, <3>3
    <2>9. Sound(rest, file)
        BY <1>1, <2>5, <2>6, <2>8, SceneConstants DEF Sound, Listed
    <2>10. ASSUME NEW i \in 1 .. n, scenes[i].file # file
           PROVE  \E j \in 1 .. n - 1 : rest[j] = scenes[i]
        <3>1. i # k
            BY <2>4, <2>10
        <3>2. CASE i < k
            <4>1. i \in 1 .. n - 1
                BY <1>1, <2>4, <3>2
            <4> QED
                BY <2>5, <3>2, <4>1
        <3>3. CASE ~(i < k)
            <4>1. i - 1 \in 1 .. n - 1 /\ ~(i - 1 < k) /\ i - 1 + 1 = i
                BY <1>1, <2>4, <3>1, <3>3
            <4>2. rest[i - 1] = scenes[i]
                BY <2>5, <4>1
            <4> QED
                BY <4>1, <4>2
        <3> QED
            BY <3>2, <3>3
    <2> QED
        BY <2>5, <2>7, <2>9, <2>10 DEF rest, n
<1> QED
    BY <1>3, <1>4

-----------------------------------------------------------------------------
(* What a switch works on, and what it leaves.                             *)
Crossings == [scene : Files \union {NoFile}, half : Nat, left : Nat]

States == [tree : Trees, parked : Seq(Trees), built : Nat, crossing : Crossings,
           failed : BOOLEAN, cut : SUBSET Nat]

InOrder(w) ==
    /\ w \in States /\ Sound(w.parked, w.tree.file) /\ AllWhole(w.parked, w.cut)
    /\ w.tree.nodes = 0 => w.tree.alpha = 100

(* The room the scenes from the i-th on take, with the one left.           *)
Room(w, i) == NodesOf(SubSeq(w.parked, i, Len(w.parked))) + w.tree.nodes

Returning(w, u) ==
    u.tree.file # NoFile =>
        /\ u.tree.from = stamp[u.tree.file]
        /\ \A i \in 1 .. Len(w.parked) :
              /\ u.tree.file = w.parked[i].file /\ w.parked[i].from = stamp[u.tree.file]
              /\ Room(w, i) <= Budget
              => u.tree.number = w.parked[i].number /\ u.tree.nodes = w.parked[i].nodes

Sparing(w, u, file) ==
    /\ \A i \in 1 .. Len(w.parked) : w.parked[i].file # file /\ Room(w, i) <= Budget =>
          \E k \in 1 .. Len(u.parked) : u.parked[k].number = w.parked[i].number
    /\ w.tree.file \notin {NoFile, file} /\ w.tree.nodes \in 1 .. Budget =>
          \E k \in 1 .. Len(u.parked) : u.parked[k].number = w.tree.number

Switching(w, u, file) ==
    /\ InOrder(u) /\ Whole(u.tree, u.cut)
    /\ u.crossing = w.crossing /\ u.cut = w.cut /\ u.tree.file \in {file, NoFile}
    /\ Returning(w, u) /\ Sparing(w, u, file)

LEMMA TreeIs ==
    ASSUME NEW file \in Files, NEW number \in Nat, stamp \in [Files -> Nat]
    PROVE  /\ Bare \in Trees /\ Bare.file = NoFile /\ Bare.alpha = 100 /\ Bare.nodes = 0
           /\ Tree(file, number, stamp[file]) \in Trees
           /\ Tree(file, number, stamp[file]).file = file
           /\ Tree(file, number, stamp[file]).from = stamp[file]
           /\ Tree(file, number, stamp[file]).alpha = 100
           /\ Tree(file, number, stamp[file]).nodes # 0
<1>1. SizeOf[file] \in Nat \ {0} /\ stamp[file] \in Nat /\ 100 \in 0 .. 100
    BY SceneConstants
<1> QED
    BY <1>1 DEF Trees, Tree, Bare

(* Parking: p is w with its tree parked, or freed.                         *)
Parking(w, p) ==
    /\ p \in States /\ p.tree = Bare /\ p.built = w.built /\ p.crossing = w.crossing
    /\ p.failed = w.failed /\ p.cut = w.cut
    /\ Sound(p.parked, NoFile) /\ AllWhole(p.parked, p.cut)
    /\ \A i \in 1 .. Len(w.parked) : Room(w, i) <= Budget =>
          \E k \in 1 .. Len(p.parked) : p.parked[k] = w.parked[i]
    /\ w.tree.file # NoFile /\ w.tree.nodes \in 1 .. Budget =>
          \E k \in 1 .. Len(p.parked) : p.parked[k] = w.tree

LEMMA SoundWithNoFile ==
    ASSUME NEW scenes, NEW current, Sound(scenes, current)
    PROVE  Sound(scenes, NoFile)
BY SceneConstants DEF Sound, Listed

LEMMA ParkCurrentIs ==
    ASSUME NEW w, InOrder(w), w.tree.nodes = 0 \/ Whole(w.tree, w.cut)
    PROVE  Parking(w, ParkCurrent(w))
<1> DEFINE p == ParkCurrent(w)
           freed == w.tree.nodes = 0 \/ w.tree.file = NoFile \/ w.tree.nodes > Budget
           all == Append(w.parked, w.tree)
           n == Len(w.parked)
<1>1. /\ w \in States /\ w.tree \in Trees /\ w.parked \in Seq(Trees)
      /\ Sound(w.parked, w.tree.file) /\ AllWhole(w.parked, w.cut)
    BY DEF InOrder, States
<1>2. w.tree.nodes \in Nat /\ w.tree.file \in Files \union {NoFile} /\ n \in Nat
      /\ Bare \in Trees
    BY <1>1, SceneConstants DEF Trees, Bare
<1>3. CASE freed
    <2>1. p = [w EXCEPT !.tree = Bare]
        BY <1>3 DEF ParkCurrent
    <2> HIDE DEF p
    <2>2. /\ p \in States /\ p.tree = Bare /\ p.built = w.built /\ p.crossing = w.crossing
          /\ p.failed = w.failed /\ p.cut = w.cut /\ p.parked = w.parked
        BY <1>1, <1>2, <2>1 DEF States
    <2>3. ~(w.tree.file # NoFile /\ w.tree.nodes \in 1 .. Budget)
        BY <1>2, <1>3, SceneConstants
    <2> QED
        BY <1>1, <2>2, <2>3, SoundWithNoFile DEF Parking, p
<1>4. CASE ~freed
    <2>1. p = [w EXCEPT !.tree = Bare, !.parked = Fitting(all)]
        BY <1>4 DEF ParkCurrent
    <2>2. w.tree.file \in Files /\ w.tree.nodes \in 1 .. Budget
        BY <1>2, <1>4, SceneConstants
    <2>3. Listed(all, NoFile)
        BY <1>1, <2>2, ListedWithOneMore DEF Sound
    <2>4. all \in Seq(Trees) /\ Len(all) = n + 1 /\ all[n + 1] = w.tree
          /\ \A i \in 1 .. n : all[i] = w.parked[i]
        BY <1>1
    <2>5. PICK m \in 1 .. n + 2 :
              /\ Fitting(all) = SubSeq(all, m, Len(all))
              /\ NodesOf(Fitting(all)) <= Budget
              /\ \A i \in 1 .. n + 2 : NodesOf(SubSeq(all, i, Len(all))) <= Budget => m <= i
        <3>1. Len(all) + 1 = n + 2
            BY <1>2, <2>4
        <3> QED
            BY <2>4, <3>1, FittingIs
    <2>6. \A i \in 1 .. n + 1 : NodesOf(SubSeq(all, i, Len(all))) = Room(w, i)
        BY <1>1, NodesWithOneMore DEF Room
    <2> DEFINE rest == Fitting(all)
    <2> HIDE DEF all, p, n
    <2>7. m \in 1 .. Len(all) + 1
        BY <1>2, <2>4, <2>5
    <2>8. /\ Listed(rest, NoFile)
          /\ \A i \in m .. n + 1 : \E k \in 1 .. Len(rest) : rest[k] = all[i]
          /\ \A k \in 1 .. Len(rest) : \E i \in 1 .. n + 1 : rest[k] = all[i]
        <3> DEFINE from == SubSeq(all, m, Len(all))
        <3>1. /\ Listed(from, NoFile)
              /\ \A i \in m .. Len(all) : \E k \in 1 .. Len(from) : from[k] = all[i]
              /\ \A k \in 1 .. Len(from) : \E i \in 1 .. Len(all) : from[k] = all[i]
            BY <2>3, <2>7, ListedFrom, Zenon
        <3>2. rest = from /\ Len(all) = n + 1
            BY <2>4, <2>5
        <3> HIDE DEF from, rest
        <3> QED
            BY <3>1, <3>2
    <2>9. Sound(rest, NoFile) /\ rest \in Seq(Trees)
        BY <2>5, <2>8 DEF Sound, Listed
    <2>10. NodesOf(SubSeq(w.parked, n + 1, n)) = 0
        <3>1. PICK h : Sums(h, w.parked)
            BY <1>1, SumsExist
        <3>2. n + 1 \in 1 .. n + 1 /\ n + 1 - 1 = n /\ n \in 0 .. n
            BY <1>2
        <3>3. NodesOf(SubSeq(w.parked, n + 1, n)) = h[n] - h[n + 1 - 1]
            BY <1>1, <3>1, <3>2, NodesFrom DEF n
        <3>4. h[n] \in Nat
            BY <3>1, <3>2 DEF n, Sums
        <3> QED
            BY <3>2, <3>3, <3>4
    <2>11. Room(w, n + 1) <= Budget
        BY <1>2, <2>2, <2>10, SceneConstants DEF Room, n
    <2> HIDE DEF rest
    <2>12. ASSUME NEW i \in 1 .. n + 1, Room(w, i) <= Budget
           PROVE  \E k \in 1 .. Len(rest) : rest[k] = all[i]
        <3>1. i \in 1 .. n + 2
            BY <1>2
        <3>2. m <= i
            BY <2>5, <2>6, <2>12, <3>1
        <3>3. i \in m .. n + 1
            BY <1>2, <2>5, <3>2
        <3> QED
            BY <2>8, <3>3
    <2>13. /\ p \in States /\ p.tree = Bare /\ p.built = w.built /\ p.crossing = w.crossing
           /\ p.failed = w.failed /\ p.cut = w.cut /\ p.parked = rest
        BY <1>1, <1>2, <2>1, <2>9 DEF States, rest
    <2>14. AllWhole(rest, w.cut)
        <3>1. ASSUME NEW i \in 1 .. n + 1 PROVE Whole(all[i], w.cut)
            <4>1. CASE i = n + 1
                BY <1>4, <2>4, <4>1
            <4>2. CASE i \in 1 .. n
                BY <1>1, <2>4, <4>2 DEF AllWhole, n
            <4> QED
                BY <1>2, <4>1, <4>2
        <3> QED
            BY <2>8, <3>1 DEF AllWhole, rest
    <2>15. \A i \in 1 .. n : i \in 1 .. n + 1
        BY <1>2
    <2>16. \A i \in 1 .. n : Room(w, i) <= Budget =>
              \E k \in 1 .. Len(rest) : rest[k] = w.parked[i]
        BY <2>4, <2>12, <2>15
    <2>17. \E k \in 1 .. Len(rest) : rest[k] = w.tree
        <3>1. n + 1 \in 1 .. n + 1
            BY <1>2
        <3> QED
            BY <2>4, <2>11, <2>12, <3>1
    <2> QED
        BY <2>9, <2>13, <2>14, <2>16, <2>17 DEF Parking, n, p
<1> QED
    BY <1>3, <1>4

(* A scene built under the bare root.                                      *)
LEMMA BuildIs ==
    ASSUME NEW w, w \in States, NEW file \in Files, stamp \in [Files -> Nat],
           Sound(w.parked, file), AllWhole(w.parked, w.cut)
    PROVE  LET u == Build(w, file)
           IN  /\ InOrder(u) /\ u.tree.alpha = 100 /\ u.parked = w.parked
               /\ u.crossing = w.crossing /\ u.cut = w.cut /\ u.tree.file \in {file, NoFile}
               /\ u.tree.file # NoFile => u.tree.from = stamp[u.tree.file]
<1> DEFINE u == Build(w, file)
           tr == Tree(file, w.built + 1, stamp[file])
<1>1. w.built \in Nat /\ w.built + 1 \in Nat
    BY DEF States
<1>2. /\ Bare \in Trees /\ Bare.file = NoFile /\ Bare.alpha = 100
      /\ tr \in Trees /\ tr.file = file /\ tr.from = stamp[file] /\ tr.alpha = 100
    BY <1>1, TreeIs
<1> HIDE DEF tr
<1>3. CASE file \in broken
    <2>1. u = [w EXCEPT !.tree = Bare, !.failed = TRUE]
        BY <1>3 DEF Build
    <2> HIDE DEF u
    <2>2. /\ u \in States /\ u.tree = Bare /\ u.parked = w.parked
          /\ u.crossing = w.crossing /\ u.cut = w.cut
        BY <1>2, <2>1 DEF States
    <2> QED
        BY <1>2, <2>2, SoundWithNoFile DEF InOrder, u
<1>4. CASE file \notin broken
    <2>1. u = [w EXCEPT !.tree = tr, !.built = @ + 1]
        BY <1>4 DEF Build, tr
    <2> HIDE DEF u
    <2>2. /\ u \in States /\ u.tree = tr /\ u.parked = w.parked
          /\ u.crossing = w.crossing /\ u.cut = w.cut
        BY <1>1, <1>2, <2>1 DEF States
    <2> QED
        BY <1>2, <2>2 DEF InOrder, u
<1> QED
    BY <1>3, <1>4

(* The scene of a file comes back, or is built again.                      *)
LEMMA ReturnIs ==
    ASSUME NEW w, NEW p, w \in States, Parking(w, p), NEW file \in Files,
           stamp \in [Files -> Nat]
    PROVE  Switching(w, Return(p, file), file)
<1> DEFINE u == Return(p, file)
           q == Unlist(p, file)
           rest == Without(p.parked, file)
           back == {s \in Range(p.parked) : s.file = file /\ s.from = stamp[file]}
<1>1. p \in States /\ Sound(p.parked, NoFile) /\ AllWhole(p.parked, p.cut)
      /\ p.crossing = w.crossing /\ p.cut = w.cut
    BY DEF Parking
<1>2. /\ Sound(rest, file)
      /\ \A i \in 1 .. Len(p.parked) : p.parked[i].file # file =>
            \E k \in 1 .. Len(rest) : rest[k] = p.parked[i]
      /\ \A k \in 1 .. Len(rest) : \E i \in 1 .. Len(p.parked) : rest[k] = p.parked[i]
    BY <1>1, WithoutIs
<1>3. q = [p EXCEPT !.parked = rest]
    BY DEF Unlist
<1>4. p.parked \in Seq(Trees) /\ DOMAIN p.parked = 1 .. Len(p.parked)
    BY <1>1 DEF States
<1>5. Range(p.parked) = {p.parked[i] : i \in 1 .. Len(p.parked)}
    BY <1>4 DEF Range
<1>6. u = IF back = {} THEN Build(q, file) ELSE [q EXCEPT !.tree = CHOOSE s \in back : TRUE]
    BY DEF Return
<1> HIDE DEF q, rest, u
<1>7. /\ q \in States /\ q.parked = rest /\ q.tree = p.tree /\ q.crossing = p.crossing
      /\ q.cut = p.cut
    BY <1>1, <1>2, <1>3 DEF States, Sound, Listed
<1>8. AllWhole(rest, q.cut)
    BY <1>1, <1>2, <1>7 DEF AllWhole
<1>9. ASSUME NEW v, v.parked = rest
      PROVE  Sparing(w, v, file)
    <2>1. ASSUME NEW i \in 1 .. Len(w.parked), w.parked[i].file # file, Room(w, i) <= Budget
          PROVE  \E k \in 1 .. Len(v.parked) : v.parked[k].number = w.parked[i].number
        <3>1. PICK k \in 1 .. Len(p.parked) : p.parked[k] = w.parked[i]
            BY <2>1 DEF Parking
        <3>2. PICK l \in 1 .. Len(rest) : rest[l] = p.parked[k]
            BY <1>2, <2>1, <3>1
        <3> QED
            BY <1>9, <3>1, <3>2
    <2>2. ASSUME w.tree.file \notin {NoFile, file}, w.tree.nodes \in 1 .. Budget
          PROVE  \E k \in 1 .. Len(v.parked) : v.parked[k].number = w.tree.number
        <3>1. PICK k \in 1 .. Len(p.parked) : p.parked[k] = w.tree
            BY <2>2 DEF Parking
        <3>2. PICK l \in 1 .. Len(rest) : rest[l] = p.parked[k]
            BY <1>2, <2>2, <3>1
        <3> QED
            BY <1>9, <3>1, <3>2
    <2> QED
        BY <2>1, <2>2 DEF Sparing
<1>10. CASE back = {}
    <2>1. u = Build(q, file)
        BY <1>6, <1>10
    <2>2. /\ InOrder(u) /\ u.tree.alpha = 100 /\ u.parked = rest
          /\ u.crossing = q.crossing /\ u.cut = q.cut /\ u.tree.file \in {file, NoFile}
          /\ u.tree.file # NoFile => u.tree.from = stamp[u.tree.file]
        BY <1>2, <1>7, <1>8, <2>1, BuildIs
    <2>3. \A i \in 1 .. Len(p.parked) : ~(p.parked[i].file = file /\ p.parked[i].from = stamp[file])
        BY <1>5, <1>10
    <2>4. ASSUME NEW i \in 1 .. Len(w.parked), w.parked[i].file = file,
                 w.parked[i].from = stamp[file], Room(w, i) <= Budget
          PROVE  FALSE
        <3>1. \E k \in 1 .. Len(p.parked) : p.parked[k] = w.parked[i]
            BY <2>4 DEF Parking
        <3> QED
            BY <2>3, <2>4, <3>1
    <2>5. Returning(w, u)
        BY <2>2, <2>4 DEF Returning
    <2>6. Sparing(w, u, file)
        BY <1>9, <2>2
    <2> QED
        BY <1>1, <1>7, <2>2, <2>5, <2>6 DEF Switching, Whole, u
<1>11. CASE back # {}
    <2> DEFINE s == CHOOSE x \in back : TRUE
    <2>1. s \in back
        BY <1>11
    <2>2. u = [q EXCEPT !.tree = s]
        BY <1>6, <1>11
    <2>3. PICK k \in 1 .. Len(p.parked) : s = p.parked[k] /\ s.file = file /\ s.from = stamp[file]
        BY <1>5, <2>1
    <2> HIDE DEF s, back
    <2>4. s \in Trees
        BY <1>4, <2>3
    <2>5. s.nodes \in 1 .. Budget /\ s.nodes # 0 /\ Whole(s, p.cut)
        BY <1>1, <2>3, SceneConstants DEF Sound, Listed, AllWhole
    <2>6. /\ u \in States /\ u.tree = s /\ u.parked = rest /\ u.crossing = q.crossing
          /\ u.cut = q.cut
        BY <1>7, <2>2, <2>4 DEF States
    <2>7. InOrder(u)
        BY <1>2, <1>8, <2>3, <2>5, <2>6 DEF InOrder
    <2>8. ASSUME NEW i \in 1 .. Len(w.parked), w.parked[i].file = file,
                 Room(w, i) <= Budget
          PROVE  w.parked[i] = s
        <3>1. PICK l \in 1 .. Len(p.parked) : p.parked[l] = w.parked[i]
            BY <2>8 DEF Parking
        <3>2. l = k
            BY <1>1, <2>3, <2>8, <3>1 DEF Sound, Listed
        <3> QED
            BY <2>3, <3>1, <3>2
    <2>9. Returning(w, u)
        BY <2>3, <2>6, <2>8 DEF Returning
    <2>10. Sparing(w, u, file)
        BY <1>9, <2>6
    <2>11. Whole(u.tree, u.cut) /\ u.tree.file = file
        BY <1>7, <2>3, <2>5, <2>6
    <2> QED
        BY <1>1, <1>7, <2>6, <2>7, <2>9, <2>10, <2>11 DEF Switching, u
<1> QED
    BY <1>10, <1>11 DEF u

(* A switch keeps what is parked in order, shows the scene asked for as it *)
(* was left or as its file is, and frees what it must.                     *)
LEMMA SwitchToIs ==
    ASSUME NEW w, InOrder(w), w.tree.nodes = 0 \/ Whole(w.tree, w.cut), NEW file \in Files,
           stamp \in [Files -> Nat]
    PROVE  Switching(w, SwitchTo(w, file), file)
<1> DEFINE u == SwitchTo(w, file)
<1>1. w \in States /\ Sound(w.parked, w.tree.file) /\ AllWhole(w.parked, w.cut)
    BY DEF InOrder
<1>2. CASE w.tree.file = file
    <2>1. u = Build(w, file)
        BY <1>2 DEF SwitchTo
    <2>2. /\ InOrder(u) /\ u.tree.alpha = 100 /\ u.parked = w.parked
          /\ u.crossing = w.crossing /\ u.cut = w.cut /\ u.tree.file \in {file, NoFile}
          /\ u.tree.file # NoFile => u.tree.from = stamp[u.tree.file]
        BY <1>1, <1>2, <2>1, BuildIs
    <2> HIDE DEF u
    <2>3. \A i \in 1 .. Len(w.parked) : w.parked[i].file # file
        BY <1>1, <1>2 DEF Sound, Listed
    <2>4. Returning(w, u) /\ Sparing(w, u, file)
        BY <1>2, <2>2, <2>3 DEF Returning, Sparing
    <2> QED
        BY <2>2, <2>4 DEF Switching, Whole, u
<1>3. CASE w.tree.file # file
    <2>1. u = Return(ParkCurrent(w), file)
        BY <1>3 DEF SwitchTo
    <2>2. Parking(w, ParkCurrent(w))
        BY ParkCurrentIs
    <2> QED
        BY <1>1, <2>1, <2>2, ReturnIs
<1> QED
    BY <1>2, <1>3

-----------------------------------------------------------------------------
(* The end of a tick.                                                      *)
LEMMA ShareIs ==
    ASSUME NEW half \in Nat \ {0}, NEW left \in 0 .. half
    PROVE  (100 * left) \div half \in 0 .. 100
<1> DEFINE q == (100 * left) \div half
           r == (100 * left) % half
<1>1. 100 * left \in Nat /\ 100 * left <= 100 * half
    OBVIOUS
<1>2. q \in Int /\ r \in 0 .. half - 1 /\ 100 * left = half * q + r
    BY <1>1
<1> HIDE DEF q, r
<1>3. q <= 100
    <2>1. ASSUME q >= 101 PROVE FALSE
        <3>1. half * q >= half * 101
            BY <1>2, <2>1
        <3> QED
            BY <1>1, <1>2, <3>1
    <2> QED
        BY <1>2, <2>1
<1>4. q >= 0
    <2>1. ASSUME q <= -1 PROVE FALSE
        <3>1. half * q <= half * (-1)
            BY <1>2, <2>1
        <3> QED
            BY <1>1, <1>2, <3>1
    <2> QED
        BY <1>2, <2>1
<1> QED
    BY <1>2, <1>3, <1>4 DEF q

(* w and u differ in how much of the roots is seen.                        *)
Tinted(w, u) ==
    /\ u.parked = w.parked /\ u.built = w.built /\ u.failed = w.failed /\ u.cut = w.cut
    /\ u.tree.file = w.tree.file /\ u.tree.from = w.tree.from
    /\ u.tree.number = w.tree.number /\ u.tree.nodes = w.tree.nodes

LEMMA RootsAlphaIs ==
    ASSUME NEW w, InOrder(w), NEW alpha \in 0 .. 100
    PROVE  LET u == RootsAlpha(w, alpha)
           IN  /\ InOrder(u) /\ Tinted(w, u) /\ u.crossing = w.crossing
               /\ u.tree.alpha = IF w.tree.nodes = 0 THEN 100 ELSE alpha
<1> DEFINE u == RootsAlpha(w, alpha)
<1>1. w \in States /\ w.tree \in Trees
    BY DEF InOrder, States
<1>2. CASE w.tree.nodes = 0
    BY <1>2 DEF RootsAlpha, InOrder, Tinted
<1>3. CASE w.tree.nodes # 0
    <2> DEFINE tr == [w.tree EXCEPT !.alpha = alpha]
    <2>1. u = [w EXCEPT !.tree = tr]
        BY <1>1, <1>3 DEF RootsAlpha, States
    <2>2. /\ tr \in Trees /\ tr.file = w.tree.file /\ tr.from = w.tree.from
          /\ tr.number = w.tree.number /\ tr.nodes = w.tree.nodes /\ tr.alpha = alpha
        BY <1>1 DEF Trees
    <2> HIDE DEF tr, u
    <2>3. /\ u \in States /\ u.tree = tr /\ u.parked = w.parked /\ u.built = w.built
          /\ u.crossing = w.crossing /\ u.failed = w.failed /\ u.cut = w.cut
        BY <1>1, <2>1, <2>2 DEF States
    <2> QED
        BY <1>3, <2>2, <2>3 DEF InOrder, Tinted, u
<1> QED
    BY <1>2, <1>3

(* A fade that is under way has ticks left.                                *)
Fading(c) == c.left \in 1 .. c.half

(* What the end of a tick makes of w.                                      *)
Applying(w, u) ==
    /\ InOrder(u) /\ (u.crossing = NoFade \/ Fading(u.crossing))
    /\ u.crossing = NoFade => Whole(u.tree, u.cut)
    /\ u.crossing.scene \in {NoFile, asked.last}
    /\ u.tree.number # w.tree.number => Returning(w, u) /\ Sparing(w, u, asked.last)

(* A switch of v, which is w but for tints, and what its roots get then.   *)
LEMMA SwitchIsOfTheTree ==
    ASSUME NEW w, NEW v, NEW s, NEW u, NEW file, Tinted(w, v), Switching(v, s, file), Tinted(s, u)
    PROVE  Returning(w, u) /\ Sparing(w, u, file)
<1>1. v.parked = w.parked /\ v.tree.file = w.tree.file /\ v.tree.nodes = w.tree.nodes
      /\ v.tree.number = w.tree.number
    BY DEF Tinted
<1>2. u.parked = s.parked /\ u.tree.file = s.tree.file /\ u.tree.nodes = s.tree.nodes
      /\ u.tree.number = s.tree.number /\ u.tree.from = s.tree.from
    BY DEF Tinted
<1>3. \A i : Room(v, i) = Room(w, i)
    BY <1>1 DEF Room
<1>4. Returning(v, s) /\ Sparing(v, s, file)
    BY DEF Switching
<1>5. Returning(w, u)
    BY <1>1, <1>2, <1>3, <1>4 DEF Returning
<1>6. Sparing(w, u, file)
    BY <1>1, <1>2, <1>3, <1>4 DEF Sparing
<1> QED
    BY <1>5, <1>6

LEMMA HalfwayIs ==
    ASSUME NEW w, InOrder(w), NEW c \in Crossings, c.half # 0, c.scene = asked.last,
           asked.last \in Files, stamp \in [Files -> Nat]
    PROVE  Applying(w, Halfway(w, c))
<1> DEFINE file == asked.last
           v == RootsAlpha(w, 100)
           s == SwitchTo(v, file)
           u == Halfway(w, c)
           back == [scene |-> NoFile, half |-> c.half, left |-> c.half]
<1>1. InOrder(v) /\ Tinted(w, v) /\ v.tree.alpha = 100
    <2>1. 100 \in 0 .. 100
        OBVIOUS
    <2> QED
        BY <2>1, RootsAlphaIs
<1> HIDE DEF v
<1>2. Switching(v, s, file)
    BY <1>1, SwitchToIs DEF Whole
<1>3. u = IF s.failed THEN [RootsAlpha(s, 100) EXCEPT !.crossing = NoFade]
          ELSE [RootsAlpha(s, 0) EXCEPT !.crossing = back]
    BY DEF Halfway, v
<1>4. InOrder(s)
    BY <1>2 DEF Switching
<1>5. /\ NoFade \in Crossings /\ back \in Crossings /\ Fading(back)
      /\ NoFade.scene = NoFile /\ back.scene = NoFile /\ back # NoFade
    BY DEF Crossings, NoFade, Fading
<1> HIDE DEF s, u, back, file
<1>6. ASSUME NEW alpha \in {0, 100}, NEW fade \in Crossings,
             u = [RootsAlpha(s, alpha) EXCEPT !.crossing = fade]
      PROVE  /\ InOrder(u) /\ Tinted(s, u) /\ u.crossing = fade
             /\ u.tree.alpha = IF s.tree.nodes = 0 THEN 100 ELSE alpha
    <2> DEFINE x == RootsAlpha(s, alpha)
    <2>1. alpha \in 0 .. 100
        OBVIOUS
    <2>2. InOrder(x) /\ Tinted(s, x) /\ x.tree.alpha = IF s.tree.nodes = 0 THEN 100 ELSE alpha
        BY <1>4, <2>1, RootsAlphaIs
    <2>3. u = [x EXCEPT !.crossing = fade]
        BY <1>6
    <2> HIDE DEF x
    <2>4. /\ u \in States /\ u.tree = x.tree /\ u.parked = x.parked /\ u.built = x.built
          /\ u.crossing = fade /\ u.failed = x.failed /\ u.cut = x.cut
        BY <2>2, <2>3 DEF InOrder, States
    <2> QED
        BY <2>2, <2>4 DEF InOrder, Tinted
<1>7. CASE s.failed
    <2>1. u = [RootsAlpha(s, 100) EXCEPT !.crossing = NoFade]
        BY <1>3, <1>7
    <2>2. InOrder(u) /\ Tinted(s, u) /\ u.crossing = NoFade /\ u.tree.alpha = 100
        BY <1>5, <1>6, <2>1
    <2>3. Returning(w, u) /\ Sparing(w, u, file)
        BY <1>1, <1>2, <2>2, SwitchIsOfTheTree
    <2> QED
        BY <1>5, <2>2, <2>3 DEF Applying, Whole, u, file
<1>8. CASE ~s.failed
    <2>1. u = [RootsAlpha(s, 0) EXCEPT !.crossing = back]
        BY <1>3, <1>8
    <2>2. InOrder(u) /\ Tinted(s, u) /\ u.crossing = back
        BY <1>5, <1>6, <2>1
    <2>3. Returning(w, u) /\ Sparing(w, u, file)
        BY <1>1, <1>2, <2>2, SwitchIsOfTheTree
    <2> QED
        BY <1>5, <2>2, <2>3 DEF Applying, u, file
<1> QED
    BY <1>7, <1>8

LEMMA FadeIs ==
    ASSUME NEW w, InOrder(w), Fading(w.crossing), w.crossing.scene \in {NoFile, asked.last},
           asked.last \in Files, stamp \in [Files -> Nat]
    PROVE  Applying(w, Fade(w))
<1> DEFINE c == [w.crossing EXCEPT !.left = @ - 1]
           share == (100 * c.left) \div c.half
           alpha == IF c.scene = NoFile THEN 100 - share ELSE share
           u == Fade(w)
<1>1. w \in States /\ w.crossing \in Crossings
    BY DEF InOrder, States
<1>2. /\ c \in Crossings /\ c.half \in Nat \ {0} /\ c.left \in 0 .. c.half
      /\ c.scene = w.crossing.scene
    BY <1>1 DEF Crossings, Fading
<1>3. alpha \in 0 .. 100
    <2> HIDE DEF c
    <2>1. share \in 0 .. 100
        BY <1>2, ShareIs
    <2> HIDE DEF share
    <2> QED
        BY <2>1
<1>4. u = CASE c.left = 0 /\ c.scene # NoFile -> Halfway(w, c)
            [] c.left = 0 /\ c.scene = NoFile -> [RootsAlpha(w, 100) EXCEPT !.crossing = NoFade]
            [] OTHER -> [RootsAlpha(w, alpha) EXCEPT !.crossing = c]
    BY DEF Fade
<1> HIDE DEF c, alpha, u
<1>5. CASE c.left = 0 /\ c.scene # NoFile
    <2>1. u = Halfway(w, c)
        BY <1>4, <1>5
    <2> QED
        BY <1>2, <1>5, <2>1, HalfwayIs DEF u
<1>6. ASSUME NEW a \in 0 .. 100, NEW fade \in Crossings,
             u = [RootsAlpha(w, a) EXCEPT !.crossing = fade]
      PROVE  /\ InOrder(u) /\ u.tree.number = w.tree.number /\ u.crossing = fade
             /\ u.tree.alpha = IF w.tree.nodes = 0 THEN 100 ELSE a
    <2> DEFINE x == RootsAlpha(w, a)
    <2>1. InOrder(x) /\ Tinted(w, x) /\ x.tree.alpha = IF w.tree.nodes = 0 THEN 100 ELSE a
        BY RootsAlphaIs
    <2>2. u = [x EXCEPT !.crossing = fade]
        BY <1>6
    <2> HIDE DEF x
    <2>3. /\ u \in States /\ u.tree = x.tree /\ u.parked = x.parked /\ u.built = x.built
          /\ u.crossing = fade /\ u.failed = x.failed /\ u.cut = x.cut
        BY <2>1, <2>2 DEF InOrder, States
    <2> QED
        BY <2>1, <2>3 DEF InOrder, Tinted
<1>7. CASE c.left = 0 /\ c.scene = NoFile
    <2>1. u = [RootsAlpha(w, 100) EXCEPT !.crossing = NoFade]
        BY <1>4, <1>7
    <2>2. 100 \in 0 .. 100 /\ NoFade \in Crossings /\ NoFade.scene = NoFile
        BY DEF NoFade, Crossings
    <2> HIDE DEF u
    <2>3. InOrder(u) /\ u.tree.number = w.tree.number /\ u.crossing = NoFade
          /\ u.tree.alpha = 100
        <3>1. /\ InOrder(u) /\ u.tree.number = w.tree.number /\ u.crossing = NoFade
              /\ u.tree.alpha = IF w.tree.nodes = 0 THEN 100 ELSE 100
            BY <1>6, <2>1, <2>2, Zenon
        <3> QED
            BY <3>1
    <2> QED
        BY <2>2, <2>3 DEF Applying, Whole, u
<1>8. CASE c.left # 0
    <2>1. u = [RootsAlpha(w, alpha) EXCEPT !.crossing = c]
        BY <1>4, <1>8
    <2>2. InOrder(u) /\ u.tree.number = w.tree.number /\ u.crossing = c
        BY <1>2, <1>3, <1>6, <2>1
    <2>3. Fading(c) /\ c # NoFade
        BY <1>2, <1>8 DEF Fading, NoFade
    <2> QED
        BY <1>2, <2>2, <2>3 DEF Applying, u
<1> QED
    BY <1>5, <1>7, <1>8

LEMMA CutIs ==
    ASSUME NEW w, InOrder(w), pending.scene = asked.last,
           asked.last \in Files, stamp \in [Files -> Nat]
    PROVE  Applying(w, Cut(w))
<1> DEFINE dimmed == IF w.tree.alpha < 100 THEN w.cut \union {w.tree.number} ELSE w.cut
           v == [w EXCEPT !.crossing = NoFade, !.cut = dimmed]
           u == Cut(w)
<1>1. w \in States /\ w.tree \in Trees /\ NoFade \in Crossings /\ NoFade.scene = NoFile
    BY DEF InOrder, States, NoFade, Crossings
<1>2. w.tree.number \in Nat /\ w.tree.alpha \in 0 .. 100 /\ w.cut \in SUBSET Nat
    BY <1>1 DEF States, Trees
<1>3. /\ dimmed \in SUBSET Nat /\ w.cut \subseteq dimmed
      /\ w.tree.alpha < 100 => w.tree.number \in dimmed
    BY <1>2
<1>4. v = [w EXCEPT !.crossing = NoFade,
                    !.cut = IF w.tree.alpha < 100 THEN @ \union {w.tree.number} ELSE @]
    BY <1>1 DEF States
<1>5. u = SwitchTo(v, pending.scene)
    BY <1>4 DEF Cut
<1> HIDE DEF dimmed, u
<1>6. /\ v \in States /\ v.tree = w.tree /\ v.parked = w.parked /\ v.built = w.built
      /\ v.crossing = NoFade /\ v.failed = w.failed /\ v.cut = dimmed
    BY <1>1, <1>3 DEF States
<1> HIDE DEF v
<1>7. InOrder(v)
    BY <1>3, <1>6 DEF InOrder, AllWhole, Whole
<1>8. Whole(v.tree, v.cut)
    BY <1>2, <1>3, <1>6 DEF Whole
<1>9. Switching(v, u, asked.last)
    BY <1>5, <1>7, <1>8, SwitchToIs
<1>10. \A i : Room(v, i) = Room(w, i)
    BY <1>6 DEF Room
<1>11. Returning(w, u) /\ Sparing(w, u, asked.last)
    BY <1>6, <1>9, <1>10 DEF Switching, Returning, Sparing
<1> QED
    BY <1>1, <1>6, <1>9, <1>11 DEF Switching, Applying, u

-----------------------------------------------------------------------------
(* The inductive invariant. What is asked for, or still to be switched to  *)
(* halfway, is what was asked for last.                                    *)
Now == [tree |-> tree, parked |-> parked, built |-> built, crossing |-> crossing,
        failed |-> failed, cut |-> cut]

ScenesInv ==
    /\ InOrder(Now)
    /\ stamp \in [Files -> Nat] /\ asked.last \in Files
    /\ pending \in [scene : Files \union {NoFile}, half : Nat]
    /\ asked \in [times : Nat, last : Files, edits : Nat]
    /\ crossing = NoFade \/ Fading(crossing)
    /\ crossing = NoFade => Whole(tree, cut)
    /\ pending.scene \in {NoFile, asked.last}
    /\ pending.scene = NoFile => crossing.scene \in {NoFile, asked.last}

LEMMA NowIs ==
    /\ Now.tree = tree /\ Now.parked = parked /\ Now.built = built
    /\ Now.crossing = crossing /\ Now.failed = failed /\ Now.cut = cut
    /\ Now \in States <=> /\ tree \in Trees /\ parked \in Seq(Trees) /\ built \in Nat
                          /\ crossing \in Crossings /\ failed \in BOOLEAN /\ cut \in SUBSET Nat
BY DEF Now, States

LEMMA ScenesInvBegins == ASSUME Init PROVE ScenesInv
<1>1. stamp \in [Files -> Nat] /\ Main \in Files /\ \A f \in Files : stamp[f] = 0
    BY SceneConstants DEF Init
<1>2. tree \in Trees /\ tree.file = Main /\ tree.alpha = 100 /\ tree.nodes # 0
    <2>1. tree = Tree(Main, 1, stamp[Main])
        BY <1>1 DEF Init
    <2> QED
        BY <1>1, <2>1, TreeIs
<1>3. parked \in Seq(Trees) /\ Len(parked) = 0
    BY DEF Init
<1>4. NodesOf(parked) <= Budget
    <2>1. PICK h : Sums(h, parked)
        BY <1>3, SumsExist
    <2>2. NodesOf(parked) = 0
        BY <1>3, <2>1, SumsAreNodes DEF Sums
    <2> QED
        BY <2>2, SceneConstants
<1>5. Sound(parked, tree.file) /\ AllWhole(parked, cut)
    BY <1>3, <1>4 DEF Sound, Listed, AllWhole
<1>6. crossing = NoFade /\ crossing \in Crossings /\ built \in Nat /\ failed \in BOOLEAN
      /\ cut \in SUBSET Nat
    BY DEF Init, NoFade, Crossings
<1>7. InOrder(Now)
    BY <1>2, <1>3, <1>5, <1>6, NowIs DEF InOrder
<1> QED
    BY <1>1, <1>2, <1>6, <1>7 DEF Init, ScenesInv, Whole, NoFade

LEMMA ApplyIs ==
    ASSUME ScenesInv, Apply
    PROVE  /\ Applying(Now, Now')
           /\ pending' = [scene |-> NoFile, half |-> 0] /\ UNCHANGED <<stamp, broken, asked>>
<1> DEFINE w == Now
           u == Applied
           asking == [scene |-> pending.scene, half |-> pending.half, left |-> pending.half]
<1>1. u = IF pending.scene = NoFile THEN Fade(w)
          ELSE IF pending.half = 0 THEN Cut(w)
          ELSE Fade([w EXCEPT !.crossing = asking])
    BY DEF Applied, Now
<1>2. /\ InOrder(w) /\ asked.last \in Files /\ stamp \in [Files -> Nat] /\ w.crossing = crossing
      /\ pending.half \in Nat /\ pending.scene \in Files \union {NoFile}
    BY NowIs DEF ScenesInv
<1> HIDE DEF u, w
<1>3. Applying(w, u)
    <2>1. CASE pending.scene = NoFile
        <3>1. crossing # NoFade
            BY <2>1 DEF Apply, AtRest
        <3>2. u = Fade(w) /\ Fading(w.crossing) /\ w.crossing.scene \in {NoFile, asked.last}
            BY <1>1, <1>2, <2>1, <3>1 DEF ScenesInv
        <3> QED
            BY <1>2, <3>2, FadeIs
    <2>2. CASE pending.scene # NoFile /\ pending.half = 0
        <3>1. u = Cut(w) /\ pending.scene = asked.last
            BY <1>1, <2>2 DEF ScenesInv
        <3> QED
            BY <1>2, <3>1, CutIs
    <2>3. CASE pending.scene # NoFile /\ pending.half # 0
        <3> DEFINE v == [w EXCEPT !.crossing = asking]
        <3>1. u = Fade(v)
            BY <1>1, <2>3
        <3>2. asking \in Crossings /\ Fading(asking) /\ asking.scene = asked.last
            BY <1>2, <2>3 DEF ScenesInv, Crossings, Fading
        <3>3. w \in States
            BY <1>2 DEF InOrder
        <3> HIDE DEF asking
        <3>4. /\ v \in States /\ v.tree = w.tree /\ v.parked = w.parked /\ v.built = w.built
              /\ v.crossing = asking /\ v.failed = w.failed /\ v.cut = w.cut
            BY <3>2, <3>3 DEF States
        <3> HIDE DEF v
        <3>5. InOrder(v)
            BY <1>2, <3>4 DEF InOrder
        <3>6. Applying(v, u)
            BY <1>2, <3>1, <3>2, <3>4, <3>5, FadeIs
        <3>7. \A i : Room(v, i) = Room(w, i)
            BY <3>4 DEF Room
        <3> QED
            BY <3>4, <3>6, <3>7 DEF Applying, Returning, Sparing
    <2> QED
        BY <2>1, <2>2, <2>3
<1>4. u \in States
    BY <1>3 DEF Applying, InOrder
<1>5. /\ tree' = u.tree /\ parked' = u.parked /\ built' = u.built
      /\ crossing' = u.crossing /\ failed' = u.failed /\ cut' = u.cut
    BY DEF Apply, u, Applied
<1>6. Now' = u
    BY <1>4, <1>5 DEF Now, States
<1> QED
    BY <1>3, <1>6 DEF Apply, w

(* What another step leaves of a tree and the scenes parked.               *)
LEMMA InOrderStays ==
    ASSUME InOrder(Now), tree' \in Trees, tree'.file = tree.file,
           tree'.nodes = 0 => tree'.alpha = 100, Sound(parked', tree.file),
           AllWhole(parked', cut), built' = built, crossing' = crossing, cut' = cut,
           failed' \in BOOLEAN
    PROVE  InOrder(Now')
<1>1. /\ Now'.tree = tree' /\ Now'.parked = parked' /\ Now'.built = built
      /\ Now'.crossing = crossing /\ Now'.failed = failed' /\ Now'.cut = cut
    BY DEF Now
<1>2. built \in Nat /\ crossing \in Crossings /\ cut \in SUBSET Nat
    BY NowIs DEF InOrder
<1>3. parked' \in Seq(Trees)
    BY DEF Sound, Listed
<1>4. Now' \in States
    BY <1>2, <1>3 DEF Now, States
<1> QED
    BY <1>1, <1>4 DEF InOrder

LEMMA UnloadIs ==
    ASSUME NEW scenes, NEW current, NEW dimmed, Sound(scenes, current), AllWhole(scenes, dimmed),
           NEW file \in Files
    PROVE  Sound(Without(scenes, file), current) /\ AllWhole(Without(scenes, file), dimmed)
<1> DEFINE rest == Without(scenes, file)
<1>1. /\ Sound(rest, file)
      /\ \A k \in 1 .. Len(rest) : \E i \in 1 .. Len(scenes) : rest[k] = scenes[i]
    BY SoundWithNoFile, WithoutIs
<1> HIDE DEF rest
<1>2. \A k \in 1 .. Len(rest) : rest[k].file \in Files \ {current}
    BY <1>1 DEF Sound, Listed
<1>3. Sound(rest, current)
    BY <1>1, <1>2 DEF Sound, Listed
<1>4. AllWhole(rest, dimmed)
    BY <1>1 DEF AllWhole
<1> QED
    BY <1>3, <1>4 DEF rest

LEMMA NothingParked == \A current, dimmed : Sound(<<>>, current) /\ AllWhole(<<>>, dimmed)
<1> DEFINE none == <<>>
<1>1. none \in Seq(Trees) /\ Len(none) = 0
    OBVIOUS
<1>2. PICK h : Sums(h, none)
    BY <1>1, SumsExist
<1> HIDE DEF none
<1>3. NodesOf(none) = 0
    BY <1>1, <1>2, SumsAreNodes DEF Sums
<1> QED
    BY <1>1, <1>3, SceneConstants DEF Sound, Listed, AllWhole, none

LEMMA ScenesInvKept == ASSUME ScenesInv, [Next]_vars PROVE ScenesInv'
<1>1. /\ InOrder(Now) /\ tree \in Trees /\ Sound(parked, tree.file) /\ AllWhole(parked, cut)
      /\ failed \in BOOLEAN /\ (tree.nodes = 0 => tree.alpha = 100)
    BY NowIs DEF ScenesInv, InOrder
<1>2. ASSUME Apply PROVE ScenesInv'
    <2>1. Applying(Now, Now') /\ pending' = [scene |-> NoFile, half |-> 0]
          /\ UNCHANGED <<stamp, broken, asked>>
        BY <1>2, ApplyIs
    <2>2. Now'.crossing = crossing' /\ Now'.tree = tree' /\ Now'.cut = cut'
        BY DEF Now
    <2>3. /\ InOrder(Now') /\ (crossing' = NoFade \/ Fading(crossing'))
          /\ crossing' = NoFade => Whole(tree', cut')
          /\ crossing'.scene \in {NoFile, asked.last}
        BY <2>1, <2>2 DEF Applying
    <2> QED
        BY <2>1, <2>3 DEF ScenesInv
<1>3. ASSUME NEW file \in Files, NEW half \in Halves, Request(file, half)
      PROVE  ScenesInv'
    <2>1. InOrder(Now')
        BY <1>1, <1>3, InOrderStays DEF Request
    <2>2. half \in Nat
        BY SceneConstants
    <2>3. /\ asked' \in [times : Nat, last : Files, edits : Nat] /\ asked'.last = file
        <3>1. asked \in [times : Nat, last : Files, edits : Nat]
            BY DEF ScenesInv
        <3>2. asked' = [asked EXCEPT !.times = asked.times + 1, !.last = file]
            BY <1>3, <3>1 DEF Request
        <3>3. asked.times + 1 \in Nat /\ asked.edits \in Nat
            BY <3>1
        <3>4. asked' = [times |-> asked.times + 1, last |-> file, edits |-> asked.edits]
            BY <3>1, <3>2
        <3> QED
            BY <3>3, <3>4
    <2>4. file # NoFile
        BY SceneConstants
    <2> QED
        BY <1>3, <2>1, <2>2, <2>3, <2>4 DEF ScenesInv, Request
<1>4. ASSUME NEW file \in Files, Unload(file) PROVE ScenesInv'
    <2>1. Sound(parked', tree.file) /\ AllWhole(parked', cut)
        BY <1>1, <1>4, UnloadIs DEF Unload
    <2>2. InOrder(Now')
        BY <1>1, <1>4, <2>1, InOrderStays DEF Unload
    <2> QED
        BY <1>4, <2>2 DEF ScenesInv, Unload
<1>5. ASSUME FreeAll PROVE ScenesInv'
    <2>1. Sound(parked', tree.file) /\ AllWhole(parked', cut)
        BY <1>5, NothingParked DEF FreeAll
    <2>2. InOrder(Now')
        BY <1>1, <1>5, <2>1, InOrderStays DEF FreeAll
    <2> QED
        BY <1>5, <2>2 DEF ScenesInv, FreeAll
<1>6. ASSUME Clear PROVE ScenesInv'
    <2>1. /\ tree' \in Trees /\ tree'.file = tree.file /\ tree'.alpha = 100
          /\ tree'.number = tree.number
        <3>1. tree' = [tree EXCEPT !.nodes = 0, !.alpha = 100] /\ 100 \in 0 .. 100
            BY <1>6 DEF Clear
        <3> QED
            BY <1>1, <3>1 DEF Trees
    <2>2. InOrder(Now')
        BY <1>1, <1>6, <2>1, InOrderStays DEF Clear
    <2> QED
        BY <1>6, <2>1, <2>2 DEF ScenesInv, Clear, Whole
<1>7. ASSUME Grow PROVE ScenesInv'
    <2>1. /\ tree' \in Trees /\ tree'.file = tree.file /\ tree'.alpha = tree.alpha
          /\ tree'.number = tree.number /\ tree'.nodes # 0
        BY <1>1, <1>7 DEF Grow, Trees
    <2>2. InOrder(Now')
        BY <1>1, <1>7, <2>1, InOrderStays DEF Grow
    <2> QED
        BY <1>7, <2>1, <2>2 DEF ScenesInv, Grow, Whole
<1>8. ASSUME NEW file \in Files, NEW breaks \in BOOLEAN, Edit(file, breaks) PROVE ScenesInv'
    <2>1. InOrder(Now')
        BY <1>1, <1>8, InOrderStays DEF Edit
    <2>2. stamp' \in [Files -> Nat]
        BY <1>8 DEF ScenesInv, Edit
    <2>3. asked' \in [times : Nat, last : Files, edits : Nat] /\ asked'.last = asked.last
        BY <1>8 DEF ScenesInv, Edit
    <2> QED
        BY <1>8, <2>1, <2>2, <2>3 DEF ScenesInv, Edit
<1>9. ASSUME UNCHANGED vars PROVE ScenesInv'
    <2>1. InOrder(Now')
        BY <1>1, <1>9, InOrderStays DEF vars
    <2> QED
        BY <1>9, <2>1 DEF ScenesInv, vars
<1> QED
    BY <1>2, <1>3, <1>4, <1>5, <1>6, <1>7, <1>8, <1>9 DEF Next

LEMMA ScenesInvAlways == Spec => []ScenesInv
<1>1. Init => ScenesInv
    BY ScenesInvBegins
<1>2. ScenesInv /\ [Next]_vars => ScenesInv'
    BY ScenesInvKept
<1> QED
    BY <1>1, <1>2, PTL DEF Spec

(* Every scene parked (park_current and free_past_budget, whatever is      *)
(* requested, edited, unloaded or freed meanwhile) can come back and is    *)
(* the only one of its file, and together they fit the budget.             *)
THEOREM ParkedStaysSound == Spec => []ParkedIsSound
<1>1. ScenesInv => ParkedIsSound
    <2> SUFFICES ASSUME ScenesInv PROVE ParkedIsSound
        OBVIOUS
    <2>1. Sound(parked, tree.file)
        BY NowIs DEF ScenesInv, InOrder
    <2>2. DOMAIN parked = 1 .. Len(parked)
        BY <2>1 DEF Sound, Listed
    <2> QED
        BY <2>1, <2>2 DEF ParkedIsSound, Sound, Listed
<1> QED
    BY <1>1, ScenesInvAlways, PTL

(* No fade that ended, failed or was replaced by another (apply_system)    *)
(* leaves a scene dim, under the root or parked.                           *)
THEOREM EachIsSeenWhole == Spec => []SeenWhole
<1>1. ScenesInv => SeenWhole
    <2> SUFFICES ASSUME ScenesInv PROVE SeenWhole
        OBVIOUS
    <2>1. AllWhole(parked, cut) /\ parked \in Seq(Trees)
        BY NowIs DEF ScenesInv, InOrder
    <2> QED
        BY <2>1 DEF ScenesInv, SeenWhole, AllWhole, Whole
<1> QED
    BY <1>1, ScenesInvAlways, PTL

(* Only the end of a tick switches.                                        *)
LEMMA OnlyApplySwitches ==
    ASSUME ScenesInv, [Next]_vars, Switched
    PROVE  Apply
<1>1. tree \in Trees
    BY NowIs DEF ScenesInv, InOrder
<1>2. Clear => tree'.number = tree.number
    BY <1>1 DEF Clear, Trees
<1>3. Grow => tree'.number = tree.number
    BY <1>1 DEF Grow, Trees
<1> QED
    BY <1>2, <1>3 DEF Next, vars, Switched, Request, Unload, FreeAll, Edit

LEMMA SwitchIs ==
    ASSUME ScenesInv, [Next]_vars, Switched
    PROVE  /\ Returning(Now, Now') /\ Sparing(Now, Now', asked.last)
           /\ DOMAIN parked = 1 .. Len(parked) /\ DOMAIN parked' = 1 .. Len(parked')
<1>1. Apply
    BY OnlyApplySwitches
<1>2. Applying(Now, Now')
    BY <1>1, ApplyIs
<1>3. Now'.tree = tree' /\ Now'.parked = parked' /\ Now.tree = tree
    BY DEF Now
<1>4. parked \in Seq(Trees) /\ parked' \in Seq(Trees)
    BY <1>2, <1>3, NowIs DEF Applying, InOrder, States, ScenesInv
<1> QED
    BY <1>2, <1>3, <1>4 DEF Applying, Switched

(* A switch to a scene that is parked (unpark) shows that very scene, with *)
(* the nodes it was left with, and any other is built from its file as it  *)
(* is now.                                                                 *)
THEOREM KeptScenesComeBack == Spec => KeptComesBack
<1>1. ScenesInv /\ [Next]_vars =>
         [Switched /\ tree'.file # NoFile =>
             /\ tree'.from = stamp[tree'.file]
             /\ \A i \in DOMAIN parked :
                   /\ tree'.file = parked[i].file /\ parked[i].from = stamp[tree'.file]
                   /\ NodesOf(SubSeq(parked, i, Len(parked))) + tree.nodes <= Budget
                   => tree'.number = parked[i].number /\ tree'.nodes = parked[i].nodes]_vars
    <2> SUFFICES ASSUME ScenesInv, [Next]_vars, Switched, tree'.file # NoFile
                 PROVE  /\ tree'.from = stamp[tree'.file]
                        /\ \A i \in DOMAIN parked :
                              /\ tree'.file = parked[i].file
                              /\ parked[i].from = stamp[tree'.file]
                              /\ NodesOf(SubSeq(parked, i, Len(parked))) + tree.nodes <= Budget
                              => /\ tree'.number = parked[i].number
                                 /\ tree'.nodes = parked[i].nodes
        OBVIOUS
    <2>1. Returning(Now, Now') /\ DOMAIN parked = 1 .. Len(parked)
        BY SwitchIs
    <2>2. Now'.tree = tree' /\ Now.parked = parked /\ Now.tree = tree
        BY DEF Now
    <2> QED
        BY <2>1, <2>2 DEF Returning, Room
<1> QED
    BY <1>1, ScenesInvAlways, PTL DEF Spec, KeptComesBack

(* What a switch frees for the budget (free_past_budget) is what was left  *)
(* longest ago, and what it leaves is kept.                                *)
THEOREM OldestAlwaysGoFirst == Spec => OldestGoFirst
<1>1. ScenesInv /\ [Next]_vars =>
         [Switched =>
             LET stays == {s.number : s \in Range(parked')}
             IN  /\ \A i \in DOMAIN parked :
                       parked[i].number \notin stays /\ parked[i].file # asked.last =>
                          NodesOf(SubSeq(parked, i, Len(parked))) + tree.nodes > Budget
                 /\ tree.file \notin {NoFile, asked.last} /\ tree.nodes \in 1..Budget =>
                       tree.number \in stays]_vars
    <2> SUFFICES ASSUME ScenesInv, [Next]_vars, Switched
                 PROVE  LET stays == {s.number : s \in Range(parked')}
                        IN  /\ \A i \in DOMAIN parked :
                                  parked[i].number \notin stays /\ parked[i].file # asked.last =>
                                     NodesOf(SubSeq(parked, i, Len(parked))) + tree.nodes > Budget
                            /\ tree.file \notin {NoFile, asked.last} /\ tree.nodes \in 1..Budget =>
                                  tree.number \in stays
        OBVIOUS
    <2> DEFINE stays == {s.number : s \in Range(parked')}
    <2>1. /\ Sparing(Now, Now', asked.last)
          /\ DOMAIN parked = 1 .. Len(parked) /\ DOMAIN parked' = 1 .. Len(parked')
        BY SwitchIs
    <2>2. /\ Now'.parked = parked' /\ Now.parked = parked /\ Now.tree = tree
          /\ parked \in Seq(Trees) /\ tree.nodes \in Nat
        BY NowIs DEF Now, ScenesInv, InOrder, Trees
    <2>3. \A k \in 1 .. Len(parked') : parked'[k].number \in stays
        BY <2>1 DEF Range
    <2> HIDE DEF stays
    <2>4. ASSUME NEW i \in DOMAIN parked, parked[i].number \notin stays, parked[i].file # asked.last
          PROVE  NodesOf(SubSeq(parked, i, Len(parked))) + tree.nodes > Budget
        <3>1. Room(Now, i) = NodesOf(SubSeq(parked, i, Len(parked))) + tree.nodes
            BY <2>2 DEF Room
        <3>2. ~(Room(Now, i) <= Budget)
            BY <2>1, <2>2, <2>3, <2>4 DEF Sparing
        <3>3. PICK h : Sums(h, parked)
            BY <2>2, SumsExist
        <3>4. i \in 1 .. Len(parked) + 1
            BY <2>1
        <3>5. NodesOf(SubSeq(parked, i, Len(parked))) \in Nat
            BY <2>2, <3>3, <3>4, NodesFrom, NodesAreANumber
        <3> QED
            BY <2>2, <3>1, <3>2, <3>5, SceneConstants
    <2>5. ASSUME tree.file \notin {NoFile, asked.last}, tree.nodes \in 1 .. Budget
          PROVE  tree.number \in stays
        BY <2>1, <2>2, <2>3, <2>5 DEF Sparing
    <2> QED
        BY <2>4, <2>5 DEF stays
<1> QED
    BY <1>1, ScenesInvAlways, PTL DEF Spec, OldestGoFirst
=============================================================================
