--------------------------- MODULE PermissionsProofs ---------------------------
(***************************************************************************)
(* What holds of the permission simulator, and of what the migration gives *)
(* it, for every state of the broker, query and file: the types, the       *)
(* decisions that one kind of change can lead to, the matching of topics,  *)
(* the precedence of rules, and the decisions of a migrated account.       *)
(*                                                                         *)
(* Filters and lists have no bound, so that what the recursive functions   *)
(* compute is established by the least argument at which it would fail     *)
(* (LeastElement).                                                         *)
(***************************************************************************)
EXTENDS LegacyPermissions, FiniteSetTheorems, WellFoundedInduction, TLAPS

LEMMA BelowIsWellFounded ==
    \E R : IsWellFoundedOn(R, Nat) /\ \A x, y \in Nat : y < x => <<y, x>> \in R
<1>1. IsWellFoundedOn(OpToRel(<, Nat), Nat)
  BY NatLessThanWellFounded
<1>2. \A x, y \in Nat : y < x => <<y, x>> \in OpToRel(<, Nat)
  BY DEF OpToRel
<1> QED
  BY <1>1, <1>2, Zenon

(* A set of numbers that is not empty has a least element.                   *)
LEMMA LeastElement ==
    ASSUME NEW T, T \subseteq Nat, T # {}
    PROVE  \E x \in T : \A y \in T : x <= y
<1>1. PICK R : IsWellFoundedOn(R, Nat) /\ \A x, y \in Nat : y < x => <<y, x>> \in R
  BY BelowIsWellFounded
<1>2. PICK x \in T : \A y \in T : ~ (<<y, x>> \in R)
  BY <1>1, WFMin
<1>3. ASSUME NEW y \in T PROVE x <= y
  <2>1. x \in Nat /\ y \in Nat /\ ~ (<<y, x>> \in R)
    BY <1>2
  <2>2. ~ (y < x)
    BY <1>1, <2>1, Zenon
  <2> QED
    BY <2>1, <2>2
<1> QED
  BY <1>3

(* A function defined along 1 .. N exists, and it stays in V if its step does. *)
Goes(g, n, V, a, F) ==
    /\ g \in [0 .. n -> V]
    /\ g[0] = a
    /\ \A i \in 1 .. n : g[i] = F[<<i, g[i - 1]>>]

LEMMA Recursion ==
    ASSUME NEW N \in Nat, NEW V, NEW a \in V, NEW F \in [(1 .. N) \X V -> V]
    PROVE  \E g : Goes(g, N, V, a, F)
<1> DEFINE Upto(n, g) == Goes(g, n, V, a, F)
           T == {n \in 0 .. N : ~ \E g : Upto(n, g)}
<1>1. ASSUME T # {} PROVE FALSE
  <2>1. T \subseteq Nat
    OBVIOUS
  <2> HIDE DEF T
  <2>2. PICK n \in T : \A y \in T : n <= y
    BY <1>1, <2>1, LeastElement
  <2>3. CASE n = 0
    <3>1. Upto(0, [i \in 0 .. 0 |-> a])
      BY DEF Goes
    <3> QED
      BY <2>2, <2>3, <3>1 DEF T
  <2>4. CASE n # 0
    <3>1. n \in 1 .. N /\ n - 1 \in 0 .. N /\ n - 1 \notin T
      BY <2>2, <2>4 DEF T
    <3>2. PICK g : Upto(n - 1, g)
      BY <3>1 DEF T
    <3> DEFINE h == [i \in 0 .. n |-> IF i < n THEN g[i] ELSE F[<<n, g[n - 1]>>]]
    <3>3. g[n - 1] \in V
      BY <3>1, <3>2 DEF Goes
    <3>4. F[<<n, g[n - 1]>>] \in V
      BY <3>1, <3>3
    <3>5. h \in [0 .. n -> V]
      BY <3>1, <3>2, <3>4 DEF Goes
    <3>6. h[0] = a
      BY <3>1, <3>2 DEF Goes
    <3>7. ASSUME NEW i \in 1 .. n PROVE h[i] = F[<<i, h[i - 1]>>]
      <4>1. CASE i < n
        <5>1. i \in 1 .. n - 1 /\ h[i] = g[i] /\ h[i - 1] = g[i - 1]
          BY <3>1, <4>1
        <5> HIDE DEF h
        <5> QED
          BY <3>2, <5>1 DEF Goes
      <4>2. CASE i = n
        <5>1. h[i] = F[<<n, g[n - 1]>>] /\ h[i - 1] = g[n - 1]
          BY <3>1, <4>2
        <5> HIDE DEF h
        <5> QED
          BY <4>2, <5>1
      <4> QED
        BY <3>1, <4>1, <4>2
    <3>8. Upto(n, h)
      BY <3>5, <3>6, <3>7 DEF Goes
    <3> QED
      BY <2>2, <3>8 DEF T
  <2> QED
    BY <2>3, <2>4
<1>2. N \notin T
  BY <1>1
<1> QED
  BY <1>2

-------------------------------------------------------------------------------
(* The regular expression of a filter. *)

\* What the local function of RegexMatches is at level i, given the next.
Rest(pattern, topic, next, i) ==
    {j \in 1 .. Len(topic) + 1 :
        \/ pattern[i] = "#" /\ i = Len(pattern) /\ i > 1
        \/ pattern[i] = "#" /\ \E k \in next : k > j
        \/ /\ pattern[i] # "#" /\ j <= Len(topic)
           /\ LevelMatches(pattern[i], topic[j])
           /\ j + 1 \in next}

IsFrom(from, pattern, topic) ==
    from = [i \in 1 .. Len(pattern) + 1 |->
               IF i > Len(pattern) THEN {Len(topic) + 1}
               ELSE {j \in 1 .. Len(topic) + 1 :
                        \/ pattern[i] = "#" /\ i = Len(pattern) /\ i > 1
                        \/ pattern[i] = "#" /\ \E k \in from[i + 1] : k > j
                        \/ /\ pattern[i] # "#" /\ j <= Len(topic)
                           /\ LevelMatches(pattern[i], topic[j])
                           /\ j + 1 \in from[i + 1]}]

LEMMA FromExists ==
    ASSUME NEW W, NEW pattern \in Seq(W), NEW topic \in Seq(W)
    PROVE  \E from : IsFrom(from, pattern, topic)
<1> DEFINE P == Len(pattern)
           T == Len(topic)
           V == SUBSET (1 .. T + 1)
           F == [x \in (1 .. P) \X V |-> Rest(pattern, topic, x[2], P + 1 - x[1])]
<1>1. P \in Nat /\ T \in Nat
  OBVIOUS
<1>2. {T + 1} \in V
  BY <1>1
<1>3. F \in [(1 .. P) \X V -> V]
  BY DEF Rest
<1> HIDE DEF P, F
<1>4. PICK g : Goes(g, P, V, {T + 1}, F)
  <2> HIDE DEF T, V
  <2> QED
    BY <1>1, <1>2, <1>3, Recursion
<1> DEFINE from == [i \in 1 .. P + 1 |-> g[P + 1 - i]]
<1>5. \A i \in 1 .. P : from[i] = Rest(pattern, topic, from[i + 1], i)
  <2>1. ASSUME NEW i \in 1 .. P PROVE from[i] = Rest(pattern, topic, from[i + 1], i)
    <3> DEFINE n == P + 1 - i
    <3>1. n \in 1 .. P /\ n - 1 \in 0 .. P /\ P + 1 - n = i /\ n - 1 = P + 1 - (i + 1)
      BY <1>1
    <3>2. from[i] = g[n] /\ from[i + 1] = g[n - 1]
      BY <1>1, <3>1
    <3> HIDE DEF n, from
    <3>3. g[n] = F[<<n, g[n - 1]>>]
      BY <1>4, <3>1 DEF Goes
    <3>4. <<n, g[n - 1]>> \in (1 .. P) \X V
      BY <1>4, <3>1 DEF Goes
    <3>5. F[<<n, g[n - 1]>>] = Rest(pattern, topic, g[n - 1], i)
      BY <3>1, <3>4 DEF F
    <3> QED
      BY <3>2, <3>3, <3>5
  <2> QED
    BY <2>1
<1>6. from[P + 1] = {T + 1}
  BY <1>1, <1>4 DEF Goes
<1>7. from = [i \in 1 .. P + 1 |-> from[i]]
  OBVIOUS
<1> HIDE DEF from
<1>8. from = [i \in 1 .. P + 1 |-> IF i > P THEN {T + 1} ELSE Rest(pattern, topic, from[i + 1], i)]
  <2>1. ASSUME NEW i \in 1 .. P + 1
        PROVE  from[i] = IF i > P THEN {T + 1} ELSE Rest(pattern, topic, from[i + 1], i)
    <3>1. CASE i > P
      BY <1>1, <1>6, <3>1
    <3>2. CASE ~ i > P
      BY <1>1, <1>5, <3>2
    <3> QED
      BY <3>1, <3>2
  <2> QED
    BY <1>7, <2>1
<1> QED
  BY <1>8 DEF IsFrom, Rest, P, T

\* Until a final "#", or to the end, the pattern is matched level by level.
Fixed(filter) == IF filter[Len(filter)] = "#" THEN Len(filter) - 1 ELSE Len(filter)

LevelByLevel(pattern, topic, i, j) ==
    /\ IF pattern[Len(pattern)] = "#"
       THEN Len(topic) + 1 - j >= Fixed(pattern) + 1 - i
       ELSE Len(topic) + 1 - j = Fixed(pattern) + 1 - i
    /\ \A m \in i .. Fixed(pattern) : pattern[m] \in {"+", topic[m - i + j]}

(* What remains of a well-formed pattern matches what remains of a topic     *)
(* without empty levels, level by level; not for "#" alone.                  *)
LEMMA FromIsLevelByLevel ==
    ASSUME NEW W, NEW pattern \in Seq(W), NEW topic \in Seq(W), WellFormed(pattern),
           Len(pattern) # 0, pattern # <<"#">>,
           \A j \in DOMAIN topic : topic[j] # EmptyLevel,
           NEW from, IsFrom(from, pattern, topic)
    PROVE  \A i \in 1 .. Fixed(pattern) + 1, j \in 1 .. Len(topic) + 1 :
               j \in from[i] <=> LevelByLevel(pattern, topic, i, j)
<1> DEFINE P == Len(pattern)
           T == Len(topic)
           F == Fixed(pattern)
           open == pattern[P] = "#"
<1>1. P \in Nat \ {0} /\ T \in Nat /\ F \in Nat /\ F <= P /\ (open => F + 1 = P) /\ (~open => F = P)
  BY DEF Fixed
<1>2. \A i \in 1 .. F : pattern[i] # "#" /\ i \in 1 .. P
  BY <1>1 DEF WellFormed
<1>3. open => P > 1
  <2>1. CASE P = 1 /\ open
    <3>1. pattern = <<"#">>
      BY <2>1
    <3> QED
      BY <3>1
  <2> QED
    BY <1>1, <2>1
<1> HIDE DEF P, T, F, open
<1>4. \A i \in 1 .. P + 1 :
         from[i] = IF i > P THEN {T + 1} ELSE Rest(pattern, topic, from[i + 1], i)
  BY DEF IsFrom, Rest, P, T
<1> DEFINE Right(n) == \A j \in 1 .. T + 1 :
                          j \in from[F + 1 - n] <=> LevelByLevel(pattern, topic, F + 1 - n, j)
           Wrong == {n \in 0 .. F : ~ Right(n)}
<1>5. ASSUME Wrong # {} PROVE FALSE
  <2>1. Wrong \subseteq Nat
    OBVIOUS
  <2> HIDE DEF Wrong
  <2>2. PICK n \in Wrong : \A y \in Wrong : n <= y
    BY <1>5, <2>1, LeastElement
  <2>3. n \in 0 .. F /\ ~ Right(n)
    BY <2>2 DEF Wrong
  <2>4. CASE n = 0
    <3>1. ASSUME NEW j \in 1 .. T + 1
          PROVE  LevelByLevel(pattern, topic, F + 1, j) <=> (open \/ j = T + 1)
      BY <1>1 DEF LevelByLevel, F, T, open, P
    <3>2. CASE open
      <4>1. from[F + 1] = Rest(pattern, topic, from[P + 1], P)
        BY <1>1, <1>4, <3>2
      <4>2. \A j \in 1 .. T + 1 : j \in from[F + 1]
        BY <1>3, <3>2, <4>1 DEF Rest, P, T, open
      <4> QED
        BY <1>1, <2>3, <2>4, <3>1, <3>2, <4>2
    <3>3. CASE ~open
      <4>1. from[F + 1] = {T + 1}
        BY <1>1, <1>4, <3>3
      <4> QED
        BY <1>1, <2>3, <2>4, <3>1, <3>3, <4>1
    <3> QED
      BY <3>2, <3>3
  <2>5. CASE n # 0
    <3> DEFINE i == F + 1 - n
    <3>1. i \in 1 .. F /\ i + 1 = F + 1 - (n - 1) /\ n - 1 \in 0 .. F /\ n - 1 \notin Wrong
      BY <1>1, <2>2, <2>3, <2>5
    <3> HIDE DEF i
    <3>2. \A j \in 1 .. T + 1 : j \in from[i + 1] <=> LevelByLevel(pattern, topic, i + 1, j)
      BY <3>1 DEF Wrong
    <3>3. from[i] = Rest(pattern, topic, from[i + 1], i)
      BY <1>1, <1>4, <3>1
    <3>4. ASSUME NEW j \in 1 .. T + 1
          PROVE  j \in from[i] <=> LevelByLevel(pattern, topic, i, j)
      <4>1. j \in from[i] <=> /\ j <= T
                              /\ LevelMatches(pattern[i], topic[j])
                              /\ j + 1 \in from[i + 1]
        BY <1>2, <3>1, <3>3 DEF Rest, T
      <4>2. CASE j = T + 1
        <5>1. ~ LevelByLevel(pattern, topic, i, j)
          BY <1>1, <3>1, <4>2 DEF LevelByLevel, F, T
        <5> QED
          BY <1>1, <4>1, <4>2, <5>1
      <4>3. CASE j <= T
        <5>1. j + 1 \in 1 .. T + 1 /\ j \in DOMAIN topic
          BY <1>1, <4>3 DEF T
        <5>2. LevelMatches(pattern[i], topic[j]) <=> pattern[i] \in {"+", topic[j]}
          BY <5>1 DEF LevelMatches
        <5>3. LevelByLevel(pattern, topic, i, j)
                 <=> pattern[i] \in {"+", topic[j]} /\ LevelByLevel(pattern, topic, i + 1, j + 1)
          <6>1. (T + 1 - j >= F + 1 - i) <=> (T + 1 - (j + 1) >= F + 1 - (i + 1))
            BY <1>1, <3>1
          <6>2. (T + 1 - j = F + 1 - i) <=> (T + 1 - (j + 1) = F + 1 - (i + 1))
            BY <1>1, <3>1
          <6>3. (\A m \in i .. F : pattern[m] \in {"+", topic[m - i + j]})
                   <=> /\ pattern[i] \in {"+", topic[j]}
                       /\ \A m \in i + 1 .. F : pattern[m] \in {"+", topic[m - (i + 1) + (j + 1)]}
            <7>1. i - i + j = j /\ i \in i .. F
              BY <1>1, <3>1
            <7>2. \A m \in i + 1 .. F : m \in i .. F /\ m - (i + 1) + (j + 1) = m - i + j
              BY <1>1, <3>1
            <7>3. \A m \in i .. F : m = i \/ m \in i + 1 .. F
              BY <1>1, <3>1
            <7> QED
              BY <7>1, <7>2, <7>3
          <6> QED
            BY <6>1, <6>2, <6>3 DEF LevelByLevel, F, T
        <5> QED
          BY <3>2, <4>1, <4>3, <5>1, <5>2, <5>3
      <4> QED
        BY <1>1, <4>2, <4>3
    <3> QED
      BY <2>3, <3>4 DEF i
  <2> QED
    BY <2>4, <2>5
<1>6. ASSUME NEW i \in 1 .. F + 1
      PROVE  \A j \in 1 .. T + 1 : j \in from[i] <=> LevelByLevel(pattern, topic, i, j)
  <2>1. F + 1 - i \in 0 .. F /\ F + 1 - (F + 1 - i) = i
    BY <1>1
  <2>2. Right(F + 1 - i)
    BY <1>5, <2>1
  <2> QED
    BY <2>1, <2>2
<1> QED
  BY <1>6 DEF F, T

(* The regular expression matches what the filter matches.                   *)
LEMMA RegexIsMqtt ==
    ASSUME NEW W, NEW pattern \in Seq(W), NEW topic \in Seq(W), WellFormed(pattern),
           Len(pattern) # 0, Len(topic) # 0, \A j \in DOMAIN topic : topic[j] # EmptyLevel
    PROVE  /\ IsSystem(topic) => IsSystem(pattern)
           /\ RegexMatches(pattern, topic)
           <=> MqttMatches(pattern, topic)
<1> DEFINE from == CHOOSE f : IsFrom(f, pattern, topic)
<1>1. IsFrom(from, pattern, topic)
  BY FromExists
<1>2. RegexMatches(pattern, topic) <=> 1 \in from[1]
  BY DEF RegexMatches, IsFrom
<1> HIDE DEF from
<1>3. Len(pattern) \in Nat \ {0} /\ Len(topic) \in Nat \ {0}
  OBVIOUS
<1>4. CASE pattern = <<"#">>
  <2>1. Len(pattern) = 1 /\ pattern[1] = "#"
    BY <1>4
  <2>2. from[2] = {Len(topic) + 1}
    BY <1>1, <2>1 DEF IsFrom
  <2>3. 1 \in from[1]
    <3>1. from[1] = Rest(pattern, topic, from[2], 1)
      BY <1>1, <2>1 DEF IsFrom, Rest
    <3>2. Len(topic) + 1 \in from[2] /\ Len(topic) + 1 > 1 /\ 1 \in 1 .. Len(topic) + 1
      BY <1>3, <2>2
    <3> QED
      BY <2>1, <3>1, <3>2 DEF Rest
  <2>4. MqttMatches(pattern, topic) <=> ~IsSystem(topic)
    BY <1>3, <2>1 DEF MqttMatches
  <2>5. ~IsSystem(pattern)
    BY <2>1, SystemWordsAssumption DEF IsSystem
  <2> QED
    BY <1>2, <2>3, <2>4, <2>5
<1>5. CASE pattern # <<"#">>
  <2>1. 1 \in 1 .. Fixed(pattern) + 1 /\ 1 \in 1 .. Len(topic) + 1
    BY <1>3 DEF Fixed
  <2>2. 1 \in from[1] <=> LevelByLevel(pattern, topic, 1, 1)
    BY <1>1, <1>5, <2>1, FromIsLevelByLevel
  <2>3. Fixed(pattern) \in Nat
    BY <1>3 DEF Fixed
  <2>4. /\ Len(topic) + 1 - 1 = Len(topic) /\ Fixed(pattern) + 1 - 1 = Fixed(pattern)
        /\ \A m \in 1 .. Fixed(pattern) : m - 1 + 1 = m
    BY <1>3, <2>3
  <2>5. LevelByLevel(pattern, topic, 1, 1)
           <=> /\ IF pattern[Len(pattern)] = "#" THEN Len(topic) >= Fixed(pattern)
                                                 ELSE Len(topic) = Fixed(pattern)
               /\ \A m \in 1 .. Fixed(pattern) : pattern[m] \in {"+", topic[m]}
    BY <2>4 DEF LevelByLevel
  <2>6. MqttMatches(pattern, topic)
           <=> /\ LevelByLevel(pattern, topic, 1, 1)
               /\ IsSystem(topic) => pattern[1] \notin {"+", "#"}
    BY <2>5 DEF MqttMatches, Fixed
  <2>7. ASSUME LevelByLevel(pattern, topic, 1, 1), IsSystem(topic)
        PROVE  IsSystem(pattern) <=> pattern[1] \notin {"+", "#"}
    <3>1. 1 \in 1 .. Fixed(pattern)
      <4>1. CASE Len(pattern) = 1 /\ pattern[1] = "#"
        <5>1. pattern = <<"#">>
          BY <4>1
        <5> QED
          BY <1>5, <5>1
      <4>2. CASE Len(pattern) = 1 /\ pattern[1] # "#"
        <5>1. Fixed(pattern) = 1
          BY <4>2 DEF Fixed
        <5> QED
          BY <5>1
      <4>3. CASE Len(pattern) # 1
        <5>1. \A n \in Nat \ {0}, k \in Nat : n # 1 /\ (k = n - 1 \/ k = n) => 1 \in 1 .. k
          OBVIOUS
        <5>2. Fixed(pattern) = Len(pattern) - 1 \/ Fixed(pattern) = Len(pattern)
          BY DEF Fixed
        <5> QED
          BY <1>3, <2>3, <4>3, <5>1, <5>2, Zenon
      <4> QED
        BY <1>3, <4>1, <4>2, <4>3
    <3>2. pattern[1] \in {"+", topic[1]}
      BY <2>5, <2>7, <3>1
    <3>3. pattern # <<>> /\ topic # <<>>
      BY <1>3
    <3>4. topic[1] \in SystemWords
      BY <2>7 DEF IsSystem
    <3> QED
      BY <3>2, <3>3, <3>4, SystemWordsAssumption DEF IsSystem
  <2> QED
    BY <1>2, <2>2, <2>6, <2>7
<1> QED
  BY <1>4, <1>5

-------------------------------------------------------------------------------
(* Sequences of sequences. *)

\* flat lists the elements of the first n sequences: its p-th is the col[p]-th
\* of the row[p]-th sequence.
IsFlat(flat, seqs, n, row, col) ==
    /\ row \in [1 .. Len(flat) -> 1 .. n] /\ col \in [1 .. Len(flat) -> Nat]
    /\ \A p \in 1 .. Len(flat) : col[p] \in 1 .. Len(seqs[row[p]]) /\ flat[p] = seqs[row[p]][col[p]]
    /\ \A p, q \in 1 .. Len(flat) :
          p < q => row[p] < row[q] \/ (row[p] = row[q] /\ col[p] < col[q])
    /\ \A i \in 1 .. n : \A k \in 1 .. Len(seqs[i]) :
          \E p \in 1 .. Len(flat) : row[p] = i /\ col[p] = k

LEMMA FlatStep ==
    ASSUME NEW S, NEW seqs, NEW n \in Nat \ {0}, NEW s \in Seq(S), seqs[n] \in Seq(S),
           NEW row, NEW col, IsFlat(s, seqs, n - 1, row, col)
    PROVE  \E r, c : IsFlat(s \o seqs[n], seqs, n, r, c)
<1> DEFINE L == Len(s)
           t == seqs[n]
           M == Len(t)
           u == s \o t
           r == [p \in 1 .. L + M |-> IF p <= L THEN row[p] ELSE n]
           c == [p \in 1 .. L + M |-> IF p <= L THEN col[p] ELSE p - L]
<1>1. /\ L \in Nat /\ M \in Nat /\ Len(u) = L + M
      /\ \A p \in 1 .. L : u[p] = s[p]
      /\ \A p \in 1 .. M : u[L + p] = t[p]
  OBVIOUS
<1> HIDE DEF L, M, u, t
<1>2. /\ row \in [1 .. L -> 1 .. n - 1] /\ col \in [1 .. L -> Nat]
      /\ \A p \in 1 .. L : col[p] \in 1 .. Len(seqs[row[p]]) /\ s[p] = seqs[row[p]][col[p]]
      /\ \A p, q \in 1 .. L : p < q => row[p] < row[q] \/ (row[p] = row[q] /\ col[p] < col[q])
      /\ \A i \in 1 .. n - 1 : \A k \in 1 .. Len(seqs[i]) : \E p \in 1 .. L : row[p] = i /\ col[p] = k
  BY DEF IsFlat, L
<1>3. \A p \in 1 .. L : /\ p \in 1 .. L + M /\ r[p] = row[p] /\ c[p] = col[p]
                        /\ row[p] \in 1 .. n - 1 /\ col[p] \in Nat
  BY <1>1, <1>2
<1>4. \A p \in 1 .. L + M : p \notin 1 .. L => r[p] = n /\ c[p] = p - L /\ p - L \in 1 .. M
  BY <1>1
<1>5. r \in [1 .. L + M -> 1 .. n] /\ c \in [1 .. L + M -> Nat]
  BY <1>1, <1>2
<1> HIDE DEF r, c
<1>6. ASSUME NEW p \in 1 .. L + M
      PROVE  c[p] \in 1 .. Len(seqs[r[p]]) /\ u[p] = seqs[r[p]][c[p]]
  <2>1. CASE p \in 1 .. L
    BY <1>1, <1>2, <1>3, <2>1
  <2>2. CASE p \notin 1 .. L
    <3>1. L + (p - L) = p
      BY <1>1
    <3> QED
      BY <1>1, <1>4, <2>2, <3>1 DEF t, M
  <2> QED
    BY <2>1, <2>2
<1>7. ASSUME NEW p \in 1 .. L + M, NEW q \in 1 .. L + M, p < q
      PROVE  r[p] < r[q] \/ (r[p] = r[q] /\ c[p] < c[q])
  <2>1. CASE q \in 1 .. L
    <3>1. p \in 1 .. L
      BY <1>1, <1>7, <2>1
    <3> QED
      BY <1>2, <1>3, <1>7, <2>1, <3>1
  <2>2. CASE q \notin 1 .. L /\ p \in 1 .. L
    BY <1>3, <1>4, <2>2
  <2>3. CASE q \notin 1 .. L /\ p \notin 1 .. L
    BY <1>1, <1>4, <1>7, <2>3
  <2> QED
    BY <2>1, <2>2, <2>3
<1>8. ASSUME NEW i \in 1 .. n, NEW k \in 1 .. Len(seqs[i])
      PROVE  \E p \in 1 .. L + M : r[p] = i /\ c[p] = k
  <2>1. CASE i = n
    <3>1. k \in 1 .. M
      BY <2>1 DEF M, t
    <3>2. PICK p \in 1 .. L + M : p \notin 1 .. L /\ p - L = k
      <4>1. L + k \in 1 .. L + M /\ L + k \notin 1 .. L /\ (L + k) - L = k
        BY <1>1, <3>1
      <4> QED
        BY <4>1
    <3>3. r[p] = n /\ c[p] = p - L
      BY <1>4, <3>2
    <3> QED
      BY <2>1, <3>2, <3>3
  <2>2. CASE i # n
    <3>1. i \in 1 .. n - 1
      BY <2>2
    <3>2. PICK p \in 1 .. L : row[p] = i /\ col[p] = k
      BY <1>2, <3>1
    <3> QED
      BY <1>3, <3>2
  <2> QED
    BY <2>1, <2>2
<1>9. IsFlat(u, seqs, n, r, c)
  BY <1>1, <1>5, <1>6, <1>7, <1>8 DEF IsFlat
<1> QED
  BY <1>9 DEF u, t

IsFlatten(flatten, seqs) ==
    flatten = [i \in 1 .. Len(seqs) |-> IF i = 1 THEN seqs[i] ELSE flatten[i - 1] \o seqs[i]]

LEMMA FlattenExists ==
    ASSUME NEW S, NEW seqs \in Seq(Seq(S))
    PROVE  \E flatten : IsFlatten(flatten, seqs)
<1> DEFINE N == Len(seqs)
           V == Seq(S)
           F == [x \in (1 .. N) \X V |-> x[2] \o seqs[x[1]]]
<1>1. N \in Nat /\ \A i \in 1 .. N : seqs[i] \in V
  OBVIOUS
<1> HIDE DEF N
<1>2. F \in [(1 .. N) \X V -> V]
  BY <1>1
<1>3. << >> \in V
  OBVIOUS
<1> HIDE DEF F
<1>4. PICK g : Goes(g, N, V, << >>, F)
  <2> HIDE DEF V
  <2> QED
    BY <1>1, <1>2, <1>3, Recursion
<1>5. g[0] = << >> /\ (\A i \in 0 .. N : g[i] \in V) /\ \A i \in 1 .. N : g[i] = F[<<i, g[i - 1]>>]
  BY <1>4 DEF Goes
<1>6. ASSUME NEW i \in 1 .. N PROVE g[i] = g[i - 1] \o seqs[i]
  <2>1. i - 1 \in 0 .. N
    BY <1>1
  <2>2. <<i, g[i - 1]>> \in (1 .. N) \X V
    BY <1>5, <2>1
  <2>3. F[<<i, g[i - 1]>>] = g[i - 1] \o seqs[i]
    BY <2>2 DEF F
  <2> QED
    BY <1>5, <2>3
<1> DEFINE f == [i \in 1 .. N |-> g[i]]
<1>7. ASSUME NEW i \in 1 .. N PROVE f[i] = IF i = 1 THEN seqs[i] ELSE f[i - 1] \o seqs[i]
  <2>1. CASE i = 1
    <3>1. g[1] = << >> \o seqs[1]
      <4>1. g[1] = g[1 - 1] \o seqs[1]
        BY <1>6, <2>1
      <4>2. 1 - 1 = 0
        OBVIOUS
      <4> QED
        BY <1>5, <4>1, <4>2
    <3>2. << >> \o seqs[1] = seqs[1]
      BY <1>1, <2>1
    <3> QED
      BY <2>1, <3>1, <3>2
  <2>2. CASE i # 1
    <3>1. i - 1 \in 1 .. N
      BY <1>1, <2>2
    <3> QED
      BY <1>6, <2>2, <3>1
  <2> QED
    BY <2>1, <2>2
<1>8. f = [i \in 1 .. N |-> f[i]]
  OBVIOUS
<1> HIDE DEF f
<1>9. f = [i \in 1 .. N |-> IF i = 1 THEN seqs[i] ELSE f[i - 1] \o seqs[i]]
  BY <1>7, <1>8
<1> QED
  BY <1>9 DEF IsFlatten, N

(* Flattening lists every element of every sequence, in order.               *)
LEMMA FlattenRows ==
    ASSUME NEW S, NEW seqs \in Seq(Seq(S))
    PROVE  /\ FlattenSeq(seqs) \in Seq(S)
           /\ \E row, col : IsFlat(FlattenSeq(seqs), seqs, Len(seqs), row, col)
<1> DEFINE N == Len(seqs)
           flatten == CHOOSE f : IsFlatten(f, seqs)
<1>1. N \in Nat /\ \A i \in 1 .. N : seqs[i] \in Seq(S)
  OBVIOUS
<1>2. IsFlatten(flatten, seqs)
  BY FlattenExists
<1>3. FlattenSeq(seqs) = IF N = 0 THEN seqs ELSE flatten[N]
  BY DEF FlattenSeq, IsFlatten
<1> HIDE DEF flatten
<1>4. CASE N = 0
  <2>1. seqs = << >>
    BY <1>4
  <2>2. FlattenSeq(seqs) = << >>
    BY <1>3, <1>4, <2>1
  <2>3. IsFlat(<< >>, seqs, 0, [p \in {} |-> p], [p \in {} |-> p])
    BY DEF IsFlat
  <2> QED
    BY <1>4, <2>2, <2>3
<1>5. CASE N # 0
  <2> HIDE DEF N
  <2>1. \A i \in 1 .. N : flatten[i] = IF i = 1 THEN seqs[i] ELSE flatten[i - 1] \o seqs[i]
    BY <1>2 DEF IsFlatten, N
  <2> DEFINE Good(n) == flatten[n] \in Seq(S) /\ \E row, col : IsFlat(flatten[n], seqs, n, row, col)
             Bad == {n \in 1 .. N : ~ Good(n)}
  <2>2. ASSUME Bad # {} PROVE FALSE
    <3>1. Bad \subseteq Nat
      OBVIOUS
    <3> HIDE DEF Bad
    <3>2. PICK n \in Bad : \A y \in Bad : n <= y
      BY <2>2, <3>1, LeastElement
    <3>3. n \in 1 .. N /\ ~ Good(n)
      BY <3>2 DEF Bad
    <3>4. CASE n = 1
      <4>1. flatten[1] = << >> \o seqs[1] /\ seqs[1] \in Seq(S) /\ flatten[1] \in Seq(S)
        BY <1>1, <2>1, <3>3, <3>4
      <4>2. IsFlat(<< >>, seqs, 1 - 1, [p \in {} |-> p], [p \in {} |-> p])
        BY DEF IsFlat
      <4>3. \E r, c : IsFlat(<< >> \o seqs[1], seqs, 1, r, c)
        <5>1. << >> \in Seq(S) /\ 1 \in Nat \ {0}
          OBVIOUS
        <5> QED
          BY <4>1, <4>2, <5>1, FlatStep
      <4> QED
        BY <3>3, <3>4, <4>1, <4>3
    <3>5. CASE n # 1
      <4>1. n - 1 \in 1 .. N /\ n - 1 \notin Bad /\ n \in Nat \ {0}
        BY <1>1, <3>2, <3>3, <3>5
      <4>2. PICK row, col : flatten[n - 1] \in Seq(S) /\ IsFlat(flatten[n - 1], seqs, n - 1, row, col)
        BY <4>1 DEF Bad
      <4>3. flatten[n] = flatten[n - 1] \o seqs[n] /\ seqs[n] \in Seq(S)
        BY <1>1, <2>1, <3>3, <3>5
      <4>4. flatten[n] \in Seq(S)
        BY <4>2, <4>3
      <4>5. \E r, c : IsFlat(flatten[n - 1] \o seqs[n], seqs, n, r, c)
        BY <4>1, <4>2, <4>3, FlatStep
      <4> QED
        BY <3>3, <4>3, <4>4, <4>5
    <3> QED
      BY <3>4, <3>5
  <2>3. N \in 1 .. N
    BY <1>1, <1>5
  <2>4. Good(N)
    BY <2>2, <2>3
  <2> QED
    BY <1>3, <1>5, <2>4 DEF N
<1> QED
  BY <1>4, <1>5

(* What the placeholders of a filter are replaced by.                        *)
LEMMA Expanded ==
    ASSUME NEW W, NEW pattern \in Seq(W), NEW username \in Seq(W), NEW clientid \in Seq(W)
    PROVE  /\ Expand(pattern, username, clientid) \in Seq(W)
           /\ Named(pattern, username, clientid) /\ pattern # << >>
              => Len(Expand(pattern, username, clientid)) # 0
<1> DEFINE part == [i \in DOMAIN pattern |->
                        CASE pattern[i] = "%u" -> username
                          [] pattern[i] = "%c" -> clientid
                          [] OTHER             -> <<pattern[i]>>]
           flat == FlattenSeq(part)
<1>1. \A i \in DOMAIN pattern : part[i] = IF pattern[i] = "%u" THEN username
                                          ELSE IF pattern[i] = "%c" THEN clientid ELSE <<pattern[i]>>
  OBVIOUS
<1>2. DOMAIN part = 1 .. Len(pattern) /\ Len(pattern) \in Nat /\ part = [i \in 1 .. Len(pattern) |-> part[i]]
  OBVIOUS
<1> HIDE DEF part
<1>3. ASSUME NEW i \in 1 .. Len(pattern) PROVE part[i] \in Seq(W)
  <2>1. i \in DOMAIN pattern /\ pattern[i] \in W
    OBVIOUS
  <2>2. \A w \in W : <<w>> \in Seq(W)
    OBVIOUS
  <2>3. <<pattern[i]>> \in Seq(W)
    BY <2>1, <2>2
  <2>4. part[i] \in {username, clientid, <<pattern[i]>>}
    BY <1>1, <2>1
  <2> QED
    BY <2>3, <2>4
<1>4. part \in Seq(Seq(W)) /\ Len(part) = Len(pattern)
  BY <1>2, <1>3
<1>5. flat \in Seq(W)
  BY <1>4, FlattenRows
<1>6. ASSUME Named(pattern, username, clientid), pattern # << >> PROVE Len(flat) # 0
  <2>1. 1 \in DOMAIN pattern /\ 1 \in 1 .. Len(part)
    BY <1>4, <1>6
  <2>2. Len(part[1]) \in Nat \ {0}
    <3>1. /\ pattern[1] = "%u" => username # << >>
          /\ pattern[1] = "%c" => clientid # << >>
      <4>1. 1 \in 1 .. Len(pattern)
        BY <2>1
      <4> QED
        BY <1>6, <4>1 DEF Named, Contains
    <3>2. \A s \in Seq(W) : s # << >> => Len(s) \in Nat \ {0}
      OBVIOUS
    <3>3. Len(<<pattern[1]>>) = 1
      OBVIOUS
    <3>4. \/ part[1] = username /\ username # << >>
          \/ part[1] = clientid /\ clientid # << >>
          \/ part[1] = <<pattern[1]>>
      BY <1>1, <2>1, <3>1
    <3>5. CASE part[1] = username /\ username # << >>
      BY <3>2, <3>5, Zenon
    <3>6. CASE part[1] = clientid /\ clientid # << >>
      BY <3>2, <3>6, Zenon
    <3>7. CASE part[1] = <<pattern[1]>>
      <4>1. 1 \in Nat \ {0}
        OBVIOUS
      <4> QED
        BY <3>3, <3>7, <4>1, Zenon
    <3> QED
      BY <3>4, <3>5, <3>6, <3>7
  <2>3. PICK row, col : IsFlat(flat, part, Len(part), row, col)
    BY <1>4, FlattenRows
  <2>4. 1 \in 1 .. Len(part[1])
    BY <2>2
  <2>5. \E p \in 1 .. Len(flat) : row[p] = 1 /\ col[p] = 1
    BY <2>1, <2>3, <2>4 DEF IsFlat
  <2> QED
    BY <1>5, <2>5
<1> QED
  BY <1>5, <1>6 DEF Expand, part

-------------------------------------------------------------------------------
(* The handler. *)

PartValues == [client |-> ClientObjects, groups |-> [GroupNames -> GroupObjects],
               roles |-> [RoleNames -> RoleContents], defaults |-> [DefaultKeys -> BOOLEAN]]

LEMMA BrokerStatesByPart ==
    ASSUME NEW state
    PROVE  state \in BrokerStates
           <=> /\ state = [part \in Parts |-> state[part]]
               /\ \A part \in Parts : state[part] \in PartValues[part]
BY DEF BrokerStates, PartValues, Parts

LEMMA VerdictIsDecision ==
    ASSUME NEW state, NEW q
    PROVE  Evaluate_permission(state, q) \in Decisions
BY DEF Evaluate_permission, Default, Verdict, Decisions

\* What has been read when the request is at pc.
Done == IF pc = "client" THEN {}
        ELSE IF pc = "groups" THEN {"client"}
        ELSE IF pc = "roles" THEN {"client", "groups"}
        ELSE {"client", "groups", "roles"}

\* A part that was read is as the broker has it unless it was changed since; and
\* if nothing else was, then the broker with it is a state it was in.
FitsIn(part) ==
    /\ read[part] \in PartValues[part]
    /\ part \notin changed => read[part] = broker[part]
    /\ changed \subseteq {part} =>
          Evaluate_permission([broker EXCEPT ![part] = read[part]], query) \in possible

Consistent ==
    /\ Evaluate_permission(broker, query) \in possible
    /\ \A part \in Done : FitsIn(part)

Decided ==
    /\ read \in BrokerStates
    /\ decision = Evaluate_permission(read, query)
    /\ Cardinality(changed) <= 1 => decision \in possible

Ranges ==
    /\ broker \in BrokerStates
    /\ query \in Queries
    /\ pc \in Parts \cup {"idle", "audit", "answered", "failed"}
    /\ read = [part \in Parts |-> read[part]]
    /\ \A part \in Parts : read[part] \in PartValues[part] \cup {None}
    /\ possible \subseteq Decisions /\ changed \subseteq Parts
    /\ changes \in 0 .. MaxChanges

IInv ==
    /\ Ranges
    /\ pc = "idle" => changed = {}
    /\ pc = "idle" \/ Asking => decision = "none"
    /\ Asking => Consistent
    /\ decision # "none" => Decided

(* A set with at most one element is within a singleton.                     *)
LEMMA AtMostOne ==
    ASSUME changed \subseteq Parts, Cardinality(changed) <= 1
    PROVE  \E part \in Parts : changed \subseteq {part}
<1>1. IsFiniteSet(changed)
  <2>1. IsFiniteSet(Parts)
    <3>1. IsFiniteSet({"client"})
      BY FS_Singleton
    <3>2. IsFiniteSet({"client"} \cup {"groups"})
      BY <3>1, FS_AddElement
    <3>3. IsFiniteSet(({"client"} \cup {"groups"}) \cup {"roles"})
      BY <3>2, FS_AddElement
    <3>4. IsFiniteSet((({"client"} \cup {"groups"}) \cup {"roles"}) \cup {"defaults"})
      BY <3>3, FS_AddElement
    <3>5. Parts = (({"client"} \cup {"groups"}) \cup {"roles"}) \cup {"defaults"}
      BY DEF Parts
    <3> QED
      BY <3>4, <3>5
  <2> QED
    BY <2>1, FS_Subset
<1>2. ASSUME NEW x \in changed, NEW y \in changed, x # y PROVE FALSE
  <2>1. IsFiniteSet({x, y}) /\ Cardinality({x, y}) = 2
    <3>1. IsFiniteSet({x}) /\ Cardinality({x}) = 1
      BY FS_Singleton
    <3>2. IsFiniteSet({x} \cup {y}) /\ Cardinality({x} \cup {y}) = 1 + 1
      BY <1>2, <3>1, FS_AddElement
    <3>3. {x} \cup {y} = {x, y}
      OBVIOUS
    <3> QED
      BY <3>2, <3>3
  <2>2. Cardinality({x, y}) <= Cardinality(changed)
    BY <1>1, FS_Subset
  <2>3. Cardinality(changed) \in Nat
    BY <1>1, FS_CardinalityType
  <2> QED
    BY <2>1, <2>2, <2>3
<1>3. CASE changed = {}
  BY <1>3 DEF Parts
<1>4. CASE changed # {}
  <2>1. PICK x \in changed : TRUE
    BY <1>4
  <2>2. changed \subseteq {x}
    BY <1>2, <2>1
  <2> QED
    BY <2>1, <2>2
<1> QED
  BY <1>3, <1>4

LEMMA InitInvariant ==
    ASSUME Init
    PROVE  IInv
<1>1. \A part \in Parts : read[part] = None
  BY DEF Init, Unread
<1>2. read = [part \in Parts |-> read[part]]
  BY DEF Init, Unread
<1>3. Ranges
  BY <1>1, <1>2, FirstStateAssumption, BoundAssumption DEF Init, Ranges
<1> QED
  BY <1>3 DEF Init, IInv, Asking, Parts

LEMMA ChangeStep ==
    ASSUME IInv, NEW part \in Parts, Change(part)
    PROVE  IInv'
<1>1. PICK value \in PartValues[part] : broker' = [broker EXCEPT ![part] = value]
  <2>1. broker \in BrokerStates
    BY DEF IInv, Ranges
  <2>2. PICK value \in Changed(part) : broker' = [broker EXCEPT ![part] = value]
    BY DEF Change
  <2>3. value \in PartValues[part]
    <3>1. CASE part = "client"
      BY <2>2, <3>1 DEF PartValues, Changed
    <3>2. CASE part = "groups"
      <4>1. PICK g \in GroupNames, o \in GroupObjects : value = [broker.groups EXCEPT ![g] = o]
        BY <2>2, <3>2 DEF Changed
      <4>2. broker.groups \in [GroupNames -> GroupObjects]
        BY <2>1 DEF BrokerStates
      <4>3. value \in [GroupNames -> GroupObjects]
        BY <4>1, <4>2
      <4> QED
        BY <3>2, <4>3 DEF PartValues
    <3>3. CASE part = "roles"
      <4>1. PICK r \in RoleNames, acls \in RoleContents : value = [broker.roles EXCEPT ![r] = acls]
        BY <2>2, <3>3 DEF Changed
      <4>2. broker.roles \in [RoleNames -> RoleContents]
        BY <2>1 DEF BrokerStates
      <4>3. value \in [RoleNames -> RoleContents]
        BY <4>1, <4>2
      <4> QED
        BY <3>3, <4>3 DEF PartValues
    <3>4. CASE part = "defaults"
      <4>1. PICK key \in DefaultKeys : value = [broker.defaults EXCEPT ![key] = ~@]
        BY <2>2, <3>4 DEF Changed
      <4>2. broker.defaults \in [DefaultKeys -> BOOLEAN]
        BY <2>1 DEF BrokerStates
      <4>3. value \in [DefaultKeys -> BOOLEAN]
        BY <4>1, <4>2
      <4> QED
        BY <3>4, <4>3 DEF PartValues
    <3> QED
      BY <3>1, <3>2, <3>3, <3>4 DEF Parts
  <2> QED
    BY <2>2, <2>3
<1>2. /\ changed' = IF Asking THEN changed \cup {part} ELSE changed
      /\ UNCHANGED <<query, pc, read, decision>>
      /\ changes' = changes + 1 /\ changes < MaxChanges
      /\ possible' = IF Asking THEN possible \cup {Evaluate_permission(broker', query)} ELSE possible
  BY DEF Change
<1>3. Ranges /\ broker = [x \in Parts |-> broker[x]] /\ \A x \in Parts : broker[x] \in PartValues[x]
  BY BrokerStatesByPart DEF IInv, Ranges
<1>4. /\ broker'[part] = value /\ \A x \in Parts \ {part} : broker'[x] = broker[x]
      /\ broker' = [x \in Parts |-> broker'[x]]
  BY <1>1, <1>3
<1>5. broker' \in BrokerStates
  BY <1>1, <1>3, <1>4, BrokerStatesByPart
<1>6. Ranges'
  <2>1. possible' \subseteq Decisions
    BY <1>2, <1>3, VerdictIsDecision DEF Ranges
  <2>2. changes' \in 0 .. MaxChanges
    BY <1>2, <1>3, BoundAssumption DEF Ranges
  <2> QED
    BY <1>2, <1>3, <1>5, <2>1, <2>2 DEF Ranges
<1>7. ASSUME Asking PROVE Consistent'
  <2>1. possible' = possible \cup {Evaluate_permission(broker', query)}
        /\ changed' = changed \cup {part}
    BY <1>1, <1>2, <1>7
  <2>2. Done' = Done /\ Done \subseteq Parts
    BY <1>2 DEF Done, Parts
  <2>3. ASSUME NEW x \in Done PROVE FitsIn(x)'
    <3>1. FitsIn(x)
      BY <1>7 DEF IInv, Consistent
    <3>2. x \notin changed' => read'[x] = broker'[x]
      BY <1>2, <1>4, <2>1, <2>2, <3>1 DEF FitsIn
    <3>3. ASSUME changed' \subseteq {x}
          PROVE  Evaluate_permission([broker' EXCEPT ![x] = read[x]], query) \in possible
      <4>1. x = part /\ changed \subseteq {x}
        BY <2>1, <3>3
      <4>2. [broker' EXCEPT ![x] = read[x]] = [broker EXCEPT ![x] = read[x]]
        BY <1>1, <1>3, <4>1
      <4> QED
        BY <3>1, <4>1, <4>2 DEF FitsIn
    <3>4. read'[x] \in PartValues[x]
      BY <1>2, <3>1 DEF FitsIn
    <3> QED
      BY <1>2, <2>1, <3>2, <3>3, <3>4 DEF FitsIn
  <2> QED
    BY <1>2, <2>1, <2>2, <2>3 DEF Consistent
<1>8. Asking' <=> Asking
  BY <1>2 DEF Asking
<1>9. ASSUME decision # "none" PROVE Decided'
  <2>1. ~Asking /\ Decided
    BY <1>9 DEF IInv
  <2> QED
    BY <1>1, <1>2, <2>1 DEF Decided
<1>10. pc = "idle" => changed' = {}
  BY <1>2 DEF IInv, Asking, Parts
<1> QED
  BY <1>2, <1>6, <1>7, <1>8, <1>9, <1>10 DEF IInv

LEMMA ReadStep ==
    ASSUME IInv, NEW part \in Parts, Read(part)
    PROVE  IInv'
<1>1. /\ pc = part /\ Asking
      /\ read' = [read EXCEPT ![part] = broker[part]]
      /\ pc' = Next_part[part]
      /\ decision' = IF part = "defaults" THEN Evaluate_permission(read', query) ELSE decision
      /\ UNCHANGED <<broker, query, possible, changed, changes>>
  BY DEF Read, Asking
<1>2. Ranges /\ Consistent /\ decision = "none"
  BY <1>1 DEF IInv
<1>3. broker = [x \in Parts |-> broker[x]] /\ \A x \in Parts : broker[x] \in PartValues[x]
  BY <1>2, BrokerStatesByPart DEF Ranges
<1>4. /\ read'[part] = broker[part] /\ \A x \in Parts \ {part} : read'[x] = read[x]
      /\ read' = [x \in Parts |-> read'[x]]
  BY <1>1, <1>2 DEF Ranges
<1>5. pc' \in {"groups", "roles", "defaults", "audit"}
  BY <1>1 DEF Parts, Next_part
<1>6. Ranges'
  BY <1>1, <1>2, <1>3, <1>4, <1>5 DEF Ranges, Parts
<1>7. Done \subseteq Parts \ {part}
  BY <1>1 DEF Done, Parts
<1>8. ASSUME NEW x \in Done \cup {part} PROVE FitsIn(x)'
  <2>1. CASE x = part
    <3>1. [broker EXCEPT ![part] = broker[part]] = broker
      BY <1>3
    <3> QED
      BY <1>1, <1>2, <1>3, <1>4, <2>1, <3>1 DEF FitsIn, Consistent
  <2>2. CASE x # part
    <3>1. FitsIn(x) /\ read'[x] = read[x]
      BY <1>2, <1>4, <1>7, <1>8, <2>2 DEF Consistent
    <3>2. [broker EXCEPT ![x] = read'[x]] = [broker EXCEPT ![x] = read[x]]
      BY <3>1
    <3> QED
      BY <1>1, <3>1, <3>2 DEF FitsIn
  <2> QED
    BY <2>1, <2>2
<1>9. CASE part # "defaults"
  <2>1. decision' = "none" /\ pc' \in {"groups", "roles", "defaults"}
    BY <1>1, <1>2, <1>9 DEF Parts, Next_part
  <2>2. Done' = Done \cup {part}
    BY <1>1, <1>9 DEF Done, Parts, Next_part
  <2>3. Consistent'
    BY <1>1, <1>2, <1>8, <2>2 DEF Consistent
  <2> QED
    BY <1>6, <2>1, <2>3 DEF IInv
<1>10. CASE part = "defaults"
  <2>1. pc' = "audit" /\ decision' = Evaluate_permission(read', query)
    BY <1>1, <1>10 DEF Next_part
  <2>2. Done \cup {part} = Parts
    BY <1>1, <1>10 DEF Done, Parts
  <2>3. read' \in BrokerStates
    BY <1>4, <1>8, <2>2, BrokerStatesByPart DEF FitsIn
  <2>4. ASSUME Cardinality(changed) <= 1 PROVE decision' \in possible
    <3>1. PICK x \in Parts : changed \subseteq {x}
      BY <1>2, <2>4, AtMostOne DEF Ranges
    <3>2. \A y \in Parts \ {x} : read'[y] = broker[y]
      BY <1>1, <1>8, <2>2, <3>1 DEF FitsIn
    <3>3. [broker EXCEPT ![x] = read'[x]] = read'
      BY <1>3, <1>4, <3>2
    <3> QED
      BY <1>1, <1>8, <2>1, <2>2, <3>1, <3>3 DEF FitsIn
  <2>5. decision' # "none" /\ ~Asking' /\ pc' # "idle"
    BY <2>1, VerdictIsDecision DEF Decisions, Asking, Parts
  <2> QED
    BY <1>1, <1>6, <2>1, <2>3, <2>4, <2>5 DEF IInv, Decided
<1> QED
  BY <1>9, <1>10

LEMMA NextInvariant ==
    ASSUME IInv, [Next]_vars
    PROVE  IInv'
<1>1. CASE Begin
  <2>1. /\ pc = "idle" /\ pc' = "client" /\ decision = "none" /\ changed = {}
        /\ possible' = {Evaluate_permission(broker, query)}
        /\ UNCHANGED <<broker, query, read, decision, changed, changes>>
    BY <1>1 DEF Begin, IInv
  <2>2. Ranges'
    BY <2>1, VerdictIsDecision DEF IInv, Ranges, Parts
  <2>3. Consistent'
    BY <2>1 DEF Consistent, Done
  <2> QED
    BY <2>1, <2>2, <2>3 DEF IInv
<1>2. ASSUME NEW part \in Parts, Change(part) \/ Read(part) PROVE IInv'
  BY <1>2, ChangeStep, ReadStep
<1>3. CASE Answer \/ Fail
  <2>1. /\ pc' \in {"answered", "failed"}
        /\ UNCHANGED <<broker, query, read, decision, possible, changed, changes>>
    BY <1>3 DEF Answer, Fail
  <2>2. Ranges' /\ ~Asking' /\ pc' # "idle"
    BY <2>1 DEF IInv, Ranges, Asking, Parts
  <2> QED
    BY <2>1, <2>2 DEF IInv, Decided
<1>4. CASE UNCHANGED vars
  BY <1>4 DEF vars, IInv, Ranges, Asking, Consistent, Done, FitsIn, Decided
<1> QED
  BY <1>1, <1>2, <1>3, <1>4 DEF Next

LEMMA Inductive == Spec => []IInv
BY InitInvariant, NextInvariant, PTL DEF Spec

-------------------------------------------------------------------------------
(* Every variable keeps its type.                                            *)
THEOREM TypeCorrect == Spec => []TypeOK
<1>1. ASSUME IInv PROVE TypeOK
  <2>1. Ranges
    BY <1>1 DEF IInv
  <2>2. decision \in Decisions \cup {"none"}
    BY <1>1, VerdictIsDecision DEF IInv, Decided
  <2>3. /\ read["client"] \in ClientObjects \cup {None}
        /\ read["groups"] \in [GroupNames -> GroupObjects] \cup {None}
        /\ read["roles"] \in [RoleNames -> RoleContents] \cup {None}
        /\ read["defaults"] \in [DefaultKeys -> BOOLEAN] \cup {None}
    BY <2>1 DEF Ranges, Parts, PartValues
  <2> QED
    BY <2>1, <2>2, <2>3 DEF TypeOK, Ranges
<1> QED
  BY <1>1, Inductive, PTL

(* If objects of one kind only are changed while the handler reads, its      *)
(* answer is that of a state in which the broker was.                        *)
THEOREM OneKindIsAtomic == Spec => []OneKindOfChangeIsAtomic
<1>1. IInv => OneKindOfChangeIsAtomic
  BY DEF IInv, Decided, OneKindOfChangeIsAtomic
<1> QED
  BY <1>1, Inductive, PTL

(* For every filter and every topic, the regular expression that             *)
(* topic_matches builds and its rule on system topics agree with MQTT.       *)
THEOREM MatchingAgrees == Spec => []MatchingIsMqtt
<1>1. ASSUME query \in Queries PROVE MatchingIsMqtt
  <2>1. SUFFICES ASSUME NEW filter \in Filters, NEW topic \in Topics,
                        Named(filter, query.username, query.clientid),
                        WellFormed(Expand(filter, query.username, query.clientid)),
                        ~Contains(topic, EmptyLevel)
                 PROVE  Topic_matches(filter, topic, query.username, query.clientid, FALSE)
                        <=> MqttMatches(Expand(filter, query.username, query.clientid), topic)
    BY Zenon DEF MatchingIsMqtt
  <2> DEFINE expanded == Expand(filter, query.username, query.clientid)
  <2>2. /\ filter \in Seq(Words) /\ filter # << >>
        /\ topic \in Seq(Words) /\ topic # << >>
        /\ query.username \in Seq(Words) /\ query.clientid \in Seq(Words)
    BY <1>1, LevelsAssumption, QueriesAssumption DEF Levels
  <2>3. expanded \in Seq(Words) /\ Len(expanded) # 0
    BY <2>1, <2>2, Expanded
  <2>4. Len(topic) # 0 /\ \A j \in DOMAIN topic : topic[j] # EmptyLevel
    BY <2>1, <2>2 DEF Contains
  <2> HIDE DEF expanded
  <2>5. (IsSystem(topic) => IsSystem(expanded)) /\ RegexMatches(expanded, topic)
           <=> MqttMatches(expanded, topic)
    BY <2>1, <2>2, <2>3, <2>4, RegexIsMqtt DEF expanded
  <2>6. Topic_matches(filter, topic, query.username, query.clientid, FALSE)
           <=> (IsSystem(topic) => IsSystem(expanded)) /\ RegexMatches(expanded, topic)
    BY <2>1 DEF Topic_matches, expanded
  <2> QED
    BY <2>5, <2>6 DEF expanded
<1>2. IInv => MatchingIsMqtt
  BY <1>1 DEF IInv, Ranges
<1> QED
  BY <1>2, Inductive, PTL

-------------------------------------------------------------------------------
(* Sorting. *)

\* s lists the elements of set, each before those that follow it in the order.
Lists(s, set, before) ==
    /\ s \in Seq(set) /\ Len(s) = Cardinality(set)
    /\ \A i, j \in 1 .. Len(s) : i < j => <<s[i], s[j]>> \in before
    /\ \A x \in set : \E i \in 1 .. Len(s) : s[i] = x

IsOrder(before, set) ==
    /\ \A x, y \in set : x # y => <<x, y>> \in before \/ <<y, x>> \in before
    /\ \A x \in set : <<x, x>> \notin before
    /\ \A x, y, z \in set : <<x, y>> \in before /\ <<y, z>> \in before => <<x, z>> \in before

LEMMA ListOfMore ==
    ASSUME NEW set, IsFiniteSet(set), NEW before, IsOrder(before, set), set # {},
           \A x \in set : \E s : Lists(s, set \ {x}, before)
    PROVE  \E s : Lists(s, set, before)
<1> DEFINE n == Cardinality(set)
<1>1. n \in Nat \ {0}
  BY FS_CardinalityType, FS_EmptySet
<1>2. \A x \in set : IsFiniteSet(set \ {x}) /\ Cardinality(set \ {x}) = n - 1
  BY FS_RemoveElement
<1> HIDE DEF n
<1>3. PICK last \in set : \A y \in set \ {last} : <<y, last>> \in before
  <2>1. PICK x \in set : TRUE
    OBVIOUS
  <2>2. PICK s : Lists(s, set \ {x}, before)
    BY <2>1
  <2>3. Len(s) = n - 1 /\ s \in Seq(set \ {x})
    BY <1>2, <2>1, <2>2 DEF Lists
  <2>4. CASE n = 1
    <3>1. \A y \in set \ {x} : \E i \in 1 .. Len(s) : s[i] = y
      BY <2>2 DEF Lists
    <3>2. \A i \in 1 .. Len(s) : FALSE
      BY <2>3, <2>4
    <3>3. set \ {x} = {}
      BY <3>1, <3>2
    <3> QED
      BY <2>1, <3>3
  <2>5. CASE n # 1
    <3> DEFINE m == s[n - 1]
    <3>1. n - 1 \in 1 .. Len(s) /\ m \in set /\ m # x
      BY <1>1, <2>3, <2>5
    <3>2. ASSUME NEW y \in set, y # x, y # m PROVE <<y, m>> \in before
      <4>1. PICK i \in 1 .. Len(s) : s[i] = y
        BY <2>2, <3>2 DEF Lists
      <4>2. i < n - 1
        BY <1>1, <2>3, <3>2, <4>1
      <4> QED
        BY <2>2, <3>1, <4>1, <4>2 DEF Lists
    <3> HIDE DEF m
    <3>3. CASE <<x, m>> \in before
      BY <3>1, <3>2, <3>3
    <3>4. CASE <<m, x>> \in before
      BY <3>1, <3>2, <3>4 DEF IsOrder
    <3> QED
      BY <3>1, <3>3, <3>4 DEF IsOrder
  <2> QED
    BY <2>4, <2>5
<1>4. PICK s : Lists(s, set \ {last}, before)
  OBVIOUS
<1>5. /\ Len(s) = n - 1 /\ s \in Seq(set \ {last}) /\ s \in Seq(set)
      /\ \A i \in 1 .. n - 1 : s[i] \in set \ {last}
  <2>1. s \in Seq(set \ {last}) /\ Len(s) = n - 1
    BY <1>2, <1>4 DEF Lists
  <2>2. \A i \in 1 .. Len(s) : s[i] \in set \ {last}
    BY <2>1
  <2>3. s \in Seq(set)
    BY <2>1
  <2> QED
    BY <2>1, <2>2, <2>3
<1> DEFINE t == Append(s, last)
<1>6. t \in Seq(set) /\ Len(t) = n /\ t[n] = last /\ \A i \in 1 .. n - 1 : t[i] = s[i]
  BY <1>1, <1>5
<1> HIDE DEF t
<1>7. ASSUME NEW i \in 1 .. n, NEW j \in 1 .. n, i < j PROVE <<t[i], t[j]>> \in before
  <2>1. CASE j = n
    BY <1>1, <1>3, <1>5, <1>6, <1>7, <2>1
  <2>2. CASE j # n
    <3>1. i \in 1 .. n - 1 /\ j \in 1 .. n - 1
      BY <1>1, <1>7, <2>2
    <3> QED
      BY <1>4, <1>5, <1>6, <1>7, <3>1 DEF Lists
  <2> QED
    BY <2>1, <2>2
<1>8. ASSUME NEW x \in set PROVE \E i \in 1 .. n : t[i] = x
  <2>1. CASE x = last
    BY <1>1, <1>6, <2>1
  <2>2. CASE x # last
    <3>1. PICK i \in 1 .. n - 1 : s[i] = x
      BY <1>4, <1>5, <2>2 DEF Lists
    <3> QED
      BY <1>1, <1>6, <3>1
  <2> QED
    BY <2>1, <2>2
<1>9. Lists(t, set, before)
  <2>1. Len(t) = Cardinality(set)
    BY <1>6 DEF n
  <2> QED
    BY <1>6, <1>7, <1>8, <2>1 DEF Lists
<1> QED
  BY <1>9

LEMMA ListExists ==
    ASSUME NEW set, IsFiniteSet(set), NEW before, IsOrder(before, set)
    PROVE  \E s : Lists(s, set, before)
<1> DEFINE Unlisted == {S \in SUBSET set : ~ \E s : Lists(s, S, before)}
           T == {n \in Nat : \E S \in Unlisted : Cardinality(S) = n}
<1>1. \A S \in SUBSET set : /\ IsFiniteSet(S) /\ Cardinality(S) \in Nat /\ IsOrder(before, S)
                            /\ Cardinality(S) = 0 => S = {}
  <2>1. ASSUME NEW S \in SUBSET set PROVE IsFiniteSet(S)
    BY FS_Subset
  <2>2. ASSUME NEW S \in SUBSET set PROVE Cardinality(S) \in Nat
    BY <2>1, FS_CardinalityType
  <2>3. ASSUME NEW S \in SUBSET set, Cardinality(S) = 0 PROVE S = {}
    BY <2>1, <2>3, FS_EmptySet
  <2>4. ASSUME NEW S \in SUBSET set PROVE IsOrder(before, S)
    BY DEF IsOrder
  <2> QED
    BY <2>1, <2>2, <2>3, <2>4
<1>2. ASSUME Unlisted # {} PROVE FALSE
  <2>1. T # {} /\ T \subseteq Nat
    BY <1>1, <1>2
  <2> HIDE DEF T
  <2>2. PICK n \in T : \A y \in T : n <= y
    BY <2>1, LeastElement
  <2>3. PICK S \in Unlisted : Cardinality(S) = n
    BY <2>2 DEF T
  <2>4. S # {}
    <3>1. Lists(<< >>, {}, before)
      BY FS_EmptySet DEF Lists
    <3> QED
      BY <2>3, <3>1
  <2>5. ASSUME NEW x \in S PROVE \E s : Lists(s, S \ {x}, before)
    <3>1. S \ {x} \in SUBSET set /\ Cardinality(S \ {x}) = n - 1
      BY <1>1, <2>3, FS_RemoveElement
    <3>2. n \in Nat /\ n - 1 \notin T
      BY <2>1, <2>2
    <3>3. Cardinality(S \ {x}) \in Nat
      BY <1>1, <3>1
    <3> QED
      BY <3>1, <3>2, <3>3 DEF T
  <2>6. \E s : Lists(s, S, before)
    BY <1>1, <2>3, <2>4, <2>5, ListOfMore
  <2> QED
    BY <2>3, <2>6
<1> QED
  BY <1>2

LEMMA InOrderLists ==
    ASSUME NEW set, IsFiniteSet(set), NEW before, IsOrder(before, set)
    PROVE  Lists(InOrder(set, before), set, before)
<1> DEFINE n == Cardinality(set)
           Right(s) == /\ s \in [1 .. n -> set]
                       /\ \A i, j \in DOMAIN s : i < j => <<s[i], s[j]>> \in before
           s == InOrder(set, before)
<1>1. n \in Nat
  BY FS_CardinalityType
<1>2. \E f : Right(f)
  <2>1. PICK f : Lists(f, set, before)
    BY ListExists
  <2>2. f \in [1 .. n -> set] /\ DOMAIN f = 1 .. Len(f)
    BY <1>1, <2>1 DEF Lists
  <2> QED
    BY <2>1, <2>2 DEF Lists
<1>3. Right(s)
  BY <1>2 DEF InOrder
<1> HIDE DEF s
<1>4. s \in Seq(set) /\ Len(s) = n /\ DOMAIN s = 1 .. n
  BY <1>1, <1>3
<1>5. s \in Injection(1 .. n, set)
  <2>1. ASSUME NEW i \in 1 .. n, NEW j \in 1 .. n, s[i] = s[j] PROVE i = j
    <3>1. s[i] \in set /\ <<s[i], s[j]>> \notin before /\ <<s[j], s[i]>> \notin before
      BY <1>3, <2>1 DEF IsOrder
    <3> QED
      BY <1>1, <1>4, <1>3, <3>1
  <2> QED
    BY <1>3, <2>1 DEF Injection, IsInjective
<1>6. s \in Surjection(1 .. n, set)
  <2>1. IsFiniteSet(1 .. n) /\ Cardinality(1 .. n) = n
    BY <1>1, FS_Interval
  <2> HIDE DEF n
  <2>2. Cardinality(set) = n
    BY DEF n
  <2> QED
    BY <1>5, <2>1, <2>2, FS_Injection
<1>7. \A x \in set : \E i \in 1 .. n : s[i] = x
  BY <1>6 DEF Surjection
<1> QED
  BY <1>3, <1>4, <1>7 DEF Lists, s

\* sorted by (-priority, name)
Above(x, y) == x.priority > y.priority \/ (x.priority = y.priority /\ x.name < y.name)

LEMMA SortedLists ==
    ASSUME NEW names, names \subseteq Nat, NEW assignments, IsAssignment(assignments, names)
    PROVE  LET s == Sorted(assignments)
           IN  /\ s \in Seq(assignments)
               /\ \A i, j \in 1 .. Len(s) : i < j => Above(s[i], s[j])
               /\ \A x \in assignments : \E i \in 1 .. Len(s) : s[i] = x
<1> DEFINE before == {p \in assignments \X assignments :
                          \/ p[1].priority > p[2].priority
                          \/ p[1].priority = p[2].priority /\ p[1].name < p[2].name}
<1>1. /\ IsFiniteSet(assignments)
      /\ \A x \in assignments : x.name \in Nat /\ x.priority \in Int /\ x \in [name : names, priority : Int]
  BY DEF IsAssignment
<1>2. \A x, y \in assignments : <<x, y>> \in before <=> Above(x, y)
  BY DEF Above
<1>3. Sorted(assignments) = InOrder(assignments, before)
  BY DEF Sorted
<1> HIDE DEF before
<1>4. IsOrder(before, assignments)
  <2>1. ASSUME NEW x \in assignments, NEW y \in assignments, x # y PROVE Above(x, y) \/ Above(y, x)
    <3>1. x.name # y.name \/ x.priority # y.priority
      BY <1>1, <2>1
    <3> QED
      BY <1>1, <3>1 DEF Above
  <2>2. \A x \in assignments : ~ Above(x, x)
    BY <1>1 DEF Above
  <2>3. \A x, y, z \in assignments : Above(x, y) /\ Above(y, z) => Above(x, z)
    BY <1>1 DEF Above
  <2> QED
    BY <1>2, <2>1, <2>2, <2>3 DEF IsOrder
<1> DEFINE s == Sorted(assignments)
<1>5. Lists(s, assignments, before)
  BY <1>1, <1>3, <1>4, InOrderLists
<1> HIDE DEF s
<1>6. \A i \in 1 .. Len(s) : s[i] \in assignments
  BY <1>5 DEF Lists
<1>7. \A i, j \in 1 .. Len(s) : i < j => Above(s[i], s[j])
  BY <1>2, <1>5, <1>6 DEF Lists
<1> QED
  BY <1>5, <1>7 DEF Lists, s

\* The ACLs of the action in the order in which they are tried.
IsRelevant(s, acls, action, at) ==
    /\ at \in [1 .. Len(s) -> OfAction(acls, action)]
    /\ \A k \in 1 .. Len(s) : s[k] = acls[at[k]]
    /\ \A j, k \in 1 .. Len(s) : j < k =>
          \/ acls[at[j]].priority > acls[at[k]].priority
          \/ acls[at[j]].priority = acls[at[k]].priority /\ at[j] < at[k]
    /\ \A i \in OfAction(acls, action) : \E k \in 1 .. Len(s) : at[k] = i

LEMMA RelevantLists ==
    ASSUME NEW acls \in Seq(Acls), NEW action
    PROVE  /\ Relevant(acls, action) \in Seq(Acls)
           /\ \E at : IsRelevant(Relevant(acls, action), acls, action, at)
<1> DEFINE places == OfAction(acls, action)
           before == {p \in places \X places :
                         \/ acls[p[1]].priority > acls[p[2]].priority
                         \/ acls[p[1]].priority = acls[p[2]].priority /\ p[1] < p[2]}
           at == InOrder(places, before)
           s == Relevant(acls, action)
<1>1. places \subseteq 1 .. Len(acls) /\ Len(acls) \in Nat
  BY DEF OfAction
<1>2. \A i \in 1 .. Len(acls) : acls[i] \in Acls /\ acls[i].priority \in Int
  <2>1. \A i \in 1 .. Len(acls) : acls[i] \in Acls
    OBVIOUS
  <2>2. \A acl \in Acls : acl.priority \in Int
    BY DEF Acls
  <2> QED
    BY <2>1, <2>2
<1> HIDE DEF places
<1>3. IsFiniteSet(places)
  <2>1. IsFiniteSet(1 .. Len(acls))
    BY <1>1, FS_Interval
  <2> QED
    BY <1>1, <2>1, FS_Subset
<1>4. \A i, j \in places : <<i, j>> \in before
         <=> \/ acls[i].priority > acls[j].priority
             \/ acls[i].priority = acls[j].priority /\ i < j
  OBVIOUS
<1>5. s = [k \in DOMAIN at |-> acls[at[k]]]
  BY DEF Relevant, places
<1> HIDE DEF before, s
<1>6. \A i \in places : i \in Int /\ acls[i].priority \in Int /\ acls[i] \in Acls
  BY <1>1, <1>2
<1>7. IsOrder(before, places)
  <2>1. \A x, y \in places : x # y => <<x, y>> \in before \/ <<y, x>> \in before
    BY <1>4, <1>6
  <2>2. \A x \in places : <<x, x>> \notin before
    BY <1>4, <1>6
  <2>3. \A x, y, z \in places : <<x, y>> \in before /\ <<y, z>> \in before => <<x, z>> \in before
    BY <1>4, <1>6
  <2> QED
    BY <2>1, <2>2, <2>3 DEF IsOrder
<1>8. Lists(at, places, before)
  BY <1>3, <1>7, InOrderLists
<1> HIDE DEF at
<1>9. DOMAIN at = 1 .. Len(at) /\ Len(at) \in Nat /\ \A k \in 1 .. Len(at) : at[k] \in places
  BY <1>8 DEF Lists
<1>10. s \in Seq(Acls) /\ Len(s) = Len(at) /\ \A k \in 1 .. Len(at) : s[k] = acls[at[k]]
  BY <1>5, <1>6, <1>9
<1>11. at \in [1 .. Len(s) -> places]
  BY <1>8, <1>9, <1>10 DEF Lists
<1>12. IsRelevant(s, acls, action, at)
  BY <1>4, <1>8, <1>9, <1>10, <1>11 DEF IsRelevant, Lists, places
<1> QED
  BY <1>10, <1>12 DEF s

(* The order of places, spelled out.                                         *)
LEMMA BeforeByComponent ==
    ASSUME NEW p, NEW q, DOMAIN p = 1 .. 7
    PROVE  Before(p, q)
           <=> \/ p[1] < q[1]
               \/ p[1] = q[1] /\ p[2] < q[2]
               \/ p[1] = q[1] /\ p[2] = q[2] /\ p[3] < q[3]
               \/ p[1] = q[1] /\ p[2] = q[2] /\ p[3] = q[3] /\ p[4] < q[4]
               \/ p[1] = q[1] /\ p[2] = q[2] /\ p[3] = q[3] /\ p[4] = q[4] /\ p[5] < q[5]
               \/ p[1] = q[1] /\ p[2] = q[2] /\ p[3] = q[3] /\ p[4] = q[4] /\ p[5] = q[5] /\ p[6] < q[6]
               \/ /\ p[1] = q[1] /\ p[2] = q[2] /\ p[3] = q[3] /\ p[4] = q[4] /\ p[5] = q[5]
                  /\ p[6] = q[6] /\ p[7] < q[7]
<1> DEFINE At(i) == p[i] < q[i] /\ \A j \in 1 .. i - 1 : p[j] = q[j]
<1>1. Before(p, q) <=> \E i \in {1, 2, 3, 4, 5, 6, 7} : At(i)
  <2>1. DOMAIN p = {1, 2, 3, 4, 5, 6, 7}
    OBVIOUS
  <2> QED
    BY <2>1 DEF Before
<1>2. At(1) <=> p[1] < q[1]
  OBVIOUS
<1>3. At(2) <=> p[1] = q[1] /\ p[2] < q[2]
  <2>1. 1 .. 2 - 1 = {1}
    OBVIOUS
  <2> QED
    BY <2>1
<1>4. At(3) <=> p[1] = q[1] /\ p[2] = q[2] /\ p[3] < q[3]
  <2>1. 1 .. 3 - 1 = {1, 2}
    OBVIOUS
  <2> QED
    BY <2>1
<1>5. At(4) <=> p[1] = q[1] /\ p[2] = q[2] /\ p[3] = q[3] /\ p[4] < q[4]
  <2>1. 1 .. 4 - 1 = {1, 2, 3}
    OBVIOUS
  <2> QED
    BY <2>1
<1>6. At(5) <=> p[1] = q[1] /\ p[2] = q[2] /\ p[3] = q[3] /\ p[4] = q[4] /\ p[5] < q[5]
  <2>1. 1 .. 5 - 1 = {1, 2, 3, 4}
    OBVIOUS
  <2> QED
    BY <2>1
<1>7. At(6) <=> p[1] = q[1] /\ p[2] = q[2] /\ p[3] = q[3] /\ p[4] = q[4] /\ p[5] = q[5] /\ p[6] < q[6]
  <2>1. 1 .. 6 - 1 = {1, 2, 3, 4, 5}
    OBVIOUS
  <2> QED
    BY <2>1
<1>8. At(7) <=> p[1] = q[1] /\ p[2] = q[2] /\ p[3] = q[3] /\ p[4] = q[4] /\ p[5] = q[5] /\ p[6] = q[6] /\ p[7] < q[7]
  <2>1. 1 .. 7 - 1 = {1, 2, 3, 4, 5, 6}
    OBVIOUS
  <2> QED
    BY <2>1
<1> HIDE DEF At
<1> QED
  BY <1>1, <1>2, <1>3, <1>4, <1>5, <1>6, <1>7, <1>8

-------------------------------------------------------------------------------
(* The first ACL that matches. *)

\* The group of a role that the client has itself.
Self == [name |-> 0, priority |-> 0]

\* The client has the role itself (source 0), or a group of it has (source 1).
Bears(state, source, group, role) ==
    \/ source = 0 /\ group = Self /\ role \in state.client.roles
    \/ source = 1 /\ group \in state.client.groups /\ role \in state.groups[group.name]

\* source and group say whence each of the checks comes.
IsChecks(checks, state, source, group) ==
    /\ \A c \in 1 .. Len(checks) : Bears(state, source[c], group[c], checks[c])
    /\ \A c, d \in 1 .. Len(checks) : c < d =>
          \/ source[c] < source[d]
          \/ source[c] = source[d] /\ Above(group[c], group[d])
          \/ source[c] = source[d] /\ group[c] = group[d] /\ Above(checks[c], checks[d])
    /\ \A s, g, r : Bears(state, s, g, r) =>
          \E c \in 1 .. Len(checks) : source[c] = s /\ group[c] = g /\ checks[c] = r

LEMMA StateTypes ==
    ASSUME NEW state \in BrokerStates
    PROVE  /\ IsAssignment(state.client.roles, RoleNames)
           /\ IsAssignment(state.client.groups, GroupNames)
           /\ \A g \in state.client.groups : /\ g.name \in Nat /\ g.priority \in Int
                                             /\ IsAssignment(state.groups[g.name], RoleNames)
           /\ \A r \in RoleNames : state.roles[r] \in Seq(Acls)
<1>1. /\ state.client \in ClientObjects /\ state.groups \in [GroupNames -> GroupObjects]
      /\ state.roles \in [RoleNames -> RoleContents]
  BY DEF BrokerStates
<1>2. IsAssignment(state.client.roles, RoleNames) /\ IsAssignment(state.client.groups, GroupNames)
  BY <1>1, ClientsAssumption
<1>3. \A g \in state.client.groups : g.name \in GroupNames /\ g.priority \in Int
  BY <1>2 DEF IsAssignment
<1>4. \A g \in state.client.groups : IsAssignment(state.groups[g.name], RoleNames)
  BY <1>1, <1>3, GroupsAssumption
<1>5. \A r \in RoleNames : state.roles[r] \in Seq(Acls)
  BY <1>1, ContentsAssumption
<1> QED
  BY <1>2, <1>3, <1>4, <1>5, NamesAssumption

LEMMA ChecksInOrder ==
    ASSUME NEW state \in BrokerStates
    PROVE  /\ Role_checks(state) \in Seq([name : RoleNames, priority : Int])
           /\ \E source, group : IsChecks(Role_checks(state), state, source, group)
<1> DEFINE roles == [name : RoleNames, priority : Int]
           own == Sorted(state.client.roles)
           ofGroups == Sorted(state.client.groups)
           lists == [i \in DOMAIN ofGroups |-> Sorted(state.groups[ofGroups[i].name])]
           flat == FlattenSeq(lists)
           checks == Role_checks(state)
<1>1. checks = own \o flat
  BY DEF Role_checks
<1>2. /\ own \in Seq(state.client.roles)
      /\ \A i, j \in 1 .. Len(own) : i < j => Above(own[i], own[j])
      /\ \A x \in state.client.roles : \E i \in 1 .. Len(own) : own[i] = x
  BY StateTypes, NamesAssumption, SortedLists
<1>3. /\ ofGroups \in Seq(state.client.groups)
      /\ \A i, j \in 1 .. Len(ofGroups) : i < j => Above(ofGroups[i], ofGroups[j])
      /\ \A x \in state.client.groups : \E i \in 1 .. Len(ofGroups) : ofGroups[i] = x
  BY StateTypes, NamesAssumption, SortedLists
<1> HIDE DEF own, ofGroups, checks
<1>4. ASSUME NEW i \in 1 .. Len(ofGroups)
      PROVE  LET set == state.groups[ofGroups[i].name]
             IN  /\ set \subseteq roles
                 /\ lists[i] \in Seq(set)
                 /\ \A k, l \in 1 .. Len(lists[i]) : k < l => Above(lists[i][k], lists[i][l])
                 /\ \A x \in set : \E k \in 1 .. Len(lists[i]) : lists[i][k] = x
  <2>1. ofGroups[i] \in state.client.groups /\ i \in DOMAIN ofGroups
    BY <1>3
  <2> DEFINE set == state.groups[ofGroups[i].name]
  <2>2. IsAssignment(set, RoleNames)
    BY <2>1, StateTypes
  <2>3. lists[i] = Sorted(set)
    BY <2>1
  <2> HIDE DEF set, lists
  <2>4. set \subseteq roles
    BY <2>2 DEF IsAssignment
  <2>5. /\ Sorted(set) \in Seq(set)
        /\ \A k, l \in 1 .. Len(Sorted(set)) : k < l => Above(Sorted(set)[k], Sorted(set)[l])
        /\ \A x \in set : \E k \in 1 .. Len(Sorted(set)) : Sorted(set)[k] = x
    BY <2>2, NamesAssumption, SortedLists
  <2> QED
    BY <2>3, <2>4, <2>5 DEF set
<1>18. ASSUME NEW i \in 1 .. Len(ofGroups)
      PROVE  /\ ofGroups[i] \in state.client.groups
             /\ \A k \in 1 .. Len(lists[i]) : lists[i][k] \in state.groups[ofGroups[i].name]
             /\ \A k, l \in 1 .. Len(lists[i]) : k < l => Above(lists[i][k], lists[i][l])
             /\ \A x \in state.groups[ofGroups[i].name] :
                   \E k \in 1 .. Len(lists[i]) : lists[i][k] = x
  <2> DEFINE set == state.groups[ofGroups[i].name]
             list == lists[i]
  <2>1. /\ list \in Seq(set)
        /\ \A k, l \in 1 .. Len(list) : k < l => Above(list[k], list[l])
        /\ \A x \in set : \E k \in 1 .. Len(list) : list[k] = x
    BY <1>4
  <2>2. ofGroups[i] \in state.client.groups
    BY <1>3
  <2> HIDE DEF set, list
  <2>3. \A k \in 1 .. Len(list) : list[k] \in set
    BY <2>1
  <2> QED
    BY <2>1, <2>2, <2>3 DEF set, list
<1>5. lists \in Seq(Seq(roles)) /\ Len(lists) = Len(ofGroups)
  <2>1. lists = [i \in 1 .. Len(ofGroups) |-> lists[i]] /\ Len(ofGroups) \in Nat
    BY <1>3
  <2>2. \A i \in 1 .. Len(ofGroups) : lists[i] \in Seq(roles)
    <3>1. ASSUME NEW i \in 1 .. Len(ofGroups) PROVE lists[i] \in Seq(roles)
      <4>1. PICK set : set \subseteq roles /\ lists[i] \in Seq(set)
        BY <1>4
      <4> HIDE DEF lists, roles
      <4> QED
        BY <4>1
    <3> QED
      BY <3>1
  <2> HIDE DEF lists, roles
  <2> QED
    BY <2>1, <2>2
<1> HIDE DEF lists, flat, roles
<1>6. /\ flat \in Seq(roles)
      /\ \E row, col : IsFlat(flat, lists, Len(lists), row, col)
  BY <1>5, FlattenRows DEF flat
<1>7. PICK row, col : IsFlat(flat, lists, Len(ofGroups), row, col)
  BY <1>5, <1>6
<1> DEFINE L == Len(own)
           M == Len(flat)
<1>8. /\ L \in Nat /\ M \in Nat /\ Len(checks) = L + M /\ checks \in Seq(roles)
      /\ \A c \in 1 .. L : checks[c] = own[c] /\ own[c] \in state.client.roles
      /\ \A p \in 1 .. M : checks[L + p] = flat[p]
  <2>1. own \in Seq(roles)
    <3>1. state.client.roles \subseteq roles
      BY StateTypes DEF IsAssignment, roles
    <3> QED
      BY <1>2, <3>1
  <2> QED
    BY <1>1, <1>2, <1>6, <2>1
<1> HIDE DEF L, M
<1>9. /\ \A p \in 1 .. M : /\ row[p] \in 1 .. Len(ofGroups) /\ col[p] \in 1 .. Len(lists[row[p]])
                           /\ flat[p] = lists[row[p]][col[p]]
      /\ \A p, q \in 1 .. M : p < q => row[p] < row[q] \/ (row[p] = row[q] /\ col[p] < col[q])
      /\ \A i \in 1 .. Len(ofGroups) : \A k \in 1 .. Len(lists[i]) :
            \E p \in 1 .. M : row[p] = i /\ col[p] = k
  BY <1>7 DEF IsFlat, M
<1> DEFINE source == [c \in 1 .. L + M |-> IF c <= L THEN 0 ELSE 1]
           group == [c \in 1 .. L + M |-> IF c <= L THEN Self ELSE ofGroups[row[c - L]]]
<1>10. \A c \in 1 .. L : source[c] = 0 /\ group[c] = Self
  BY <1>8
<1>11. \A p \in 1 .. M : source[L + p] = 1 /\ group[L + p] = ofGroups[row[p]]
  <2>1. ASSUME NEW p \in 1 .. M
        PROVE  source[L + p] = 1 /\ group[L + p] = ofGroups[row[p]]
    <3> DEFINE c == L + p
    <3>2. c \in 1 .. L + M /\ ~(c <= L) /\ c - L = p
      BY <1>8
    <3> HIDE DEF c
    <3>3. source[c] = 1
      BY <3>2
    <3>4. group[c] = ofGroups[row[c - L]]
      BY <3>2
    <3> QED
      BY <3>2, <3>3, <3>4 DEF c
  <2> QED
    BY <2>1
<1>12. \A c \in 1 .. L + M : c \in 1 .. L \/ \E p \in 1 .. M : c = L + p
  <2>1. \A c \in 1 .. L + M : c \notin 1 .. L => c - L \in 1 .. M /\ c = L + (c - L)
    BY <1>8
  <2> QED
    BY <2>1
<1> HIDE DEF source, group
<1>13. ASSUME NEW p \in 1 .. M
       PROVE  /\ ofGroups[row[p]] \in state.client.groups
              /\ flat[p] \in state.groups[ofGroups[row[p]].name]
  BY <1>18, <1>9
<1>14. ASSUME NEW c \in 1 .. L + M PROVE Bears(state, source[c], group[c], checks[c])
  <2>1. CASE c \in 1 .. L
    BY <1>8, <1>10, <2>1 DEF Bears
  <2>2. CASE \E p \in 1 .. M : c = L + p
    <3>1. PICK p \in 1 .. M : c = L + p
      BY <2>2
    <3>2. source[c] = 1 /\ group[c] = ofGroups[row[p]] /\ checks[c] = flat[p]
      BY <1>8, <1>11, <3>1
    <3> QED
      BY <1>13, <3>2 DEF Bears
  <2> QED
    BY <1>12, <2>1, <2>2
<1>15. ASSUME NEW c \in 1 .. L + M, NEW d \in 1 .. L + M, c < d
       PROVE  \/ source[c] < source[d]
              \/ source[c] = source[d] /\ Above(group[c], group[d])
              \/ source[c] = source[d] /\ group[c] = group[d] /\ Above(checks[c], checks[d])
  <2>1. CASE d \in 1 .. L
    <3>1. c \in 1 .. L
      BY <1>8, <1>15, <2>1
    <3> QED
      BY <1>2, <1>8, <1>10, <1>15, <2>1, <3>1 DEF L
  <2>2. CASE c \in 1 .. L /\ d \notin 1 .. L
    BY <1>10, <1>11, <1>12, <2>2
  <2>3. CASE c \notin 1 .. L /\ d \notin 1 .. L
    <3>1. PICK p \in 1 .. M, q \in 1 .. M : c = L + p /\ d = L + q
      BY <1>12, <2>3
    <3>2. p < q
      BY <1>8, <1>15, <3>1
    <3>3. CASE row[p] < row[q]
      <4>1. Above(ofGroups[row[p]], ofGroups[row[q]])
        BY <1>3, <1>9, <3>3
      <4> QED
        BY <1>11, <3>1, <4>1
    <3>4. CASE row[p] = row[q] /\ col[p] < col[q]
      <4>1. Above(flat[p], flat[q])
        <5>1. /\ row[p] \in 1 .. Len(ofGroups)
              /\ col[p] \in 1 .. Len(lists[row[p]]) /\ col[q] \in 1 .. Len(lists[row[p]])
              /\ flat[p] = lists[row[p]][col[p]] /\ flat[q] = lists[row[p]][col[q]]
          BY <1>9, <3>4
        <5> QED
          BY <1>18, <3>4, <5>1
      <4> QED
        BY <1>8, <1>11, <3>1, <3>4, <4>1
    <3> QED
      BY <1>9, <3>2, <3>3, <3>4
  <2> QED
    BY <2>1, <2>2, <2>3
<1>16. ASSUME NEW s, NEW g, NEW r, Bears(state, s, g, r)
       PROVE  \E c \in 1 .. L + M : source[c] = s /\ group[c] = g /\ checks[c] = r
  <2>1. CASE s = 0 /\ g = Self /\ r \in state.client.roles
    <3>1. PICK c \in 1 .. L : own[c] = r
      BY <1>2, <2>1 DEF L
    <3>2. c \in 1 .. L + M
      BY <1>8, <3>1
    <3> QED
      BY <1>8, <1>10, <2>1, <3>1, <3>2
  <2>2. CASE s = 1 /\ g \in state.client.groups /\ r \in state.groups[g.name]
    <3>1. PICK i \in 1 .. Len(ofGroups) : ofGroups[i] = g
      BY <1>3, <2>2
    <3>2. PICK k \in 1 .. Len(lists[i]) : lists[i][k] = r
      BY <1>18, <2>2, <3>1
    <3>3. PICK p \in 1 .. M : row[p] = i /\ col[p] = k
      BY <1>9, <3>1, <3>2
    <3>4. L + p \in 1 .. L + M
      BY <1>8, <3>3
    <3>5. flat[p] = r
      BY <1>9, <3>2, <3>3
    <3> QED
      BY <1>8, <1>11, <2>2, <3>1, <3>3, <3>4, <3>5
  <2> QED
    BY <1>16, <2>1, <2>2 DEF Bears
<1>17. IsChecks(checks, state, source, group)
  BY <1>8, <1>14, <1>15, <1>16 DEF IsChecks
<1> QED
  BY <1>8, <1>17 DEF checks, roles

\* check and index say which ACL of which check each of the ACLs is.
IsTried(acls, state, action, checks, check, index) ==
    /\ \A p \in 1 .. Len(acls) :
          /\ check[p] \in 1 .. Len(checks)
          /\ index[p] \in OfAction(state.roles[checks[check[p]].name], action)
          /\ acls[p] = state.roles[checks[check[p]].name][index[p]]
    /\ \A p, q \in 1 .. Len(acls) : p < q =>
          \/ check[p] < check[q]
          \/ check[p] = check[q] /\ acls[p].priority > acls[q].priority
          \/ check[p] = check[q] /\ acls[p].priority = acls[q].priority /\ index[p] < index[q]
    /\ \A c \in 1 .. Len(checks) : \A i \in OfAction(state.roles[checks[c].name], action) :
          \E p \in 1 .. Len(acls) : check[p] = c /\ index[p] = i

LEMMA AclsInOrder ==
    ASSUME NEW state \in BrokerStates, NEW action,
           NEW checks \in Seq([name : RoleNames, priority : Int])
    PROVE  LET acls == FlattenSeq([i \in DOMAIN checks |->
                           Relevant(state.roles[checks[i].name], action)])
           IN  /\ acls \in Seq(Acls)
               /\ \E check, index : IsTried(acls, state, action, checks, check, index)
<1> DEFINE lists == [i \in DOMAIN checks |-> Relevant(state.roles[checks[i].name], action)]
           acls == FlattenSeq(lists)
           N == Len(checks)
           of(i) == state.roles[checks[i].name]
           at(i) == CHOOSE f : IsRelevant(lists[i], of(i), action, f)
<1>1. N \in Nat /\ DOMAIN checks = 1 .. N
  OBVIOUS
<1>2. ASSUME NEW i \in 1 .. N
      PROVE  /\ of(i) \in Seq(Acls)
             /\ lists[i] \in Seq(Acls)
             /\ IsRelevant(lists[i], of(i), action, at(i))
  <2>1. checks[i].name \in RoleNames
    <3> DEFINE roles == [name : RoleNames, priority : Int]
    <3>1. checks \in Seq(roles)
      OBVIOUS
    <3>2. \A x \in roles : x.name \in RoleNames
      OBVIOUS
    <3> HIDE DEF roles
    <3>3. checks[i] \in roles
      BY <1>1, <3>1
    <3> QED
      BY <3>2, <3>3
  <2>2. of(i) \in Seq(Acls) /\ lists[i] = Relevant(of(i), action)
    BY <1>1, <2>1, StateTypes
  <2> HIDE DEF lists, of
  <2>3. lists[i] \in Seq(Acls) /\ \E f : IsRelevant(lists[i], of(i), action, f)
    BY <2>2, RelevantLists
  <2> QED
    BY <2>2, <2>3
<1>3. lists \in Seq(Seq(Acls)) /\ Len(lists) = N
  <2>1. lists = [i \in 1 .. N |-> lists[i]]
    BY <1>1
  <2>2. \A i \in 1 .. N : lists[i] \in Seq(Acls)
    BY <1>2
  <2> HIDE DEF lists, N
  <2>3. \A S, s, n : n \in Nat /\ s = [i \in 1 .. n |-> s[i]] /\ (\A i \in 1 .. n : s[i] \in S)
                    => s \in Seq(S) /\ Len(s) = n
    OBVIOUS
  <2> QED
    BY <1>1, <2>1, <2>2, <2>3, Zenon
<1> HIDE DEF lists, acls, N, at
<1>4. acls \in Seq(Acls) /\ \E r, c : IsFlat(acls, lists, N, r, c)
  BY <1>3, FlattenRows DEF acls
<1>5. PICK row, col : IsFlat(acls, lists, N, row, col)
  BY <1>4
<1> DEFINE M == Len(acls)
           index == [p \in 1 .. M |-> at(row[p])[col[p]]]
<1>6. M \in Nat
  BY <1>4
<1> HIDE DEF M
<1>7. /\ \A p \in 1 .. M : /\ row[p] \in 1 .. N /\ col[p] \in 1 .. Len(lists[row[p]])
                           /\ acls[p] = lists[row[p]][col[p]]
      /\ \A p, q \in 1 .. M : p < q => row[p] < row[q] \/ (row[p] = row[q] /\ col[p] < col[q])
      /\ \A i \in 1 .. N : \A k \in 1 .. Len(lists[i]) : \E p \in 1 .. M : row[p] = i /\ col[p] = k
  BY <1>5 DEF IsFlat, M
<1>8. \A p \in 1 .. M : index[p] = at(row[p])[col[p]]
  OBVIOUS
<1> HIDE DEF index
<1>9. ASSUME NEW i \in 1 .. N
      PROVE  /\ \A k \in 1 .. Len(lists[i]) : /\ at(i)[k] \in OfAction(of(i), action)
                                              /\ lists[i][k] = of(i)[at(i)[k]]
             /\ \A j, k \in 1 .. Len(lists[i]) : j < k =>
                   \/ lists[i][j].priority > lists[i][k].priority
                   \/ lists[i][j].priority = lists[i][k].priority /\ at(i)[j] < at(i)[k]
             /\ \A x \in OfAction(of(i), action) : \E k \in 1 .. Len(lists[i]) : at(i)[k] = x
  <2> DEFINE list == lists[i]
             from == of(i)
             f == at(i)
  <2>1. IsRelevant(list, from, action, f)
    BY <1>2
  <2> HIDE DEF list, from, f
  <2>2. \A k \in 1 .. Len(list) : f[k] \in OfAction(from, action) /\ list[k] = from[f[k]]
    BY <2>1 DEF IsRelevant
  <2>3. \A j, k \in 1 .. Len(list) : j < k =>
           \/ list[j].priority > list[k].priority
           \/ list[j].priority = list[k].priority /\ f[j] < f[k]
    <3>1. ASSUME NEW j \in 1 .. Len(list), NEW k \in 1 .. Len(list), j < k
          PROVE  \/ list[j].priority > list[k].priority
                 \/ list[j].priority = list[k].priority /\ f[j] < f[k]
      <4>1. \/ from[f[j]].priority > from[f[k]].priority
            \/ from[f[j]].priority = from[f[k]].priority /\ f[j] < f[k]
        BY <2>1, <3>1 DEF IsRelevant
      <4>2. list[j] = from[f[j]] /\ list[k] = from[f[k]]
        BY <2>2
      <4> QED
        BY <4>1, <4>2
    <3> QED
      BY <3>1
  <2>4. \A x \in OfAction(from, action) : \E k \in 1 .. Len(list) : f[k] = x
    BY <2>1 DEF IsRelevant
  <2> QED
    BY <2>2, <2>3, <2>4 DEF list, from, f
<1> HIDE DEF of
<1>10. ASSUME NEW p \in 1 .. M
       PROVE  /\ row[p] \in 1 .. N
              /\ index[p] \in OfAction(of(row[p]), action)
              /\ acls[p] = of(row[p])[index[p]]
  BY <1>7, <1>8, <1>9
<1>11. ASSUME NEW p \in 1 .. M, NEW q \in 1 .. M, p < q
       PROVE  \/ row[p] < row[q]
              \/ row[p] = row[q] /\ acls[p].priority > acls[q].priority
              \/ row[p] = row[q] /\ acls[p].priority = acls[q].priority /\ index[p] < index[q]
  <2>1. CASE row[p] < row[q]
    BY <2>1
  <2>2. CASE row[p] = row[q] /\ col[p] < col[q]
    <3>1. /\ row[p] \in 1 .. N
          /\ col[p] \in 1 .. Len(lists[row[p]]) /\ col[q] \in 1 .. Len(lists[row[p]])
          /\ acls[p] = lists[row[p]][col[p]] /\ acls[q] = lists[row[p]][col[q]]
          /\ index[p] = at(row[p])[col[p]] /\ index[q] = at(row[p])[col[q]]
      BY <1>7, <1>8, <2>2
    <3> DEFINE list == lists[row[p]]
               f == at(row[p])
    <3>2. \A j, k \in 1 .. Len(list) : j < k =>
             \/ list[j].priority > list[k].priority
             \/ list[j].priority = list[k].priority /\ f[j] < f[k]
      BY <1>9, <3>1
    <3>3. /\ col[p] \in 1 .. Len(list) /\ col[q] \in 1 .. Len(list)
          /\ acls[p] = list[col[p]] /\ acls[q] = list[col[q]]
          /\ index[p] = f[col[p]] /\ index[q] = f[col[q]]
      BY <3>1
    <3> HIDE DEF list, f
    <3>4. \/ acls[p].priority > acls[q].priority
          \/ acls[p].priority = acls[q].priority /\ index[p] < index[q]
      <4>1. \/ list[col[p]].priority > list[col[q]].priority
            \/ /\ list[col[p]].priority = list[col[q]].priority
               /\ f[col[p]] < f[col[q]]
        BY <2>2, <3>2, <3>3, Zenon
      <4> QED
        BY <3>3, <4>1, Zenon
    <3> QED
      BY <2>2, <3>4
  <2> QED
    BY <1>7, <1>11, <2>1, <2>2
<1>12. ASSUME NEW i \in 1 .. N, NEW x \in OfAction(of(i), action)
       PROVE  \E p \in 1 .. M : row[p] = i /\ index[p] = x
  <2>1. PICK k \in 1 .. Len(lists[i]) : at(i)[k] = x
    BY <1>9
  <2>2. PICK p \in 1 .. M : row[p] = i /\ col[p] = k
    BY <1>7, <2>1
  <2> QED
    BY <1>8, <2>1, <2>2
<1>13. IsTried(acls, state, action, checks, row, index)
  BY <1>10, <1>11, <1>12 DEF IsTried, of, M, N
<1> QED
  BY <1>4, <1>13 DEF acls, lists

\* A rule on the query is an ACL of a role that the client bears.
IsRule(state, q, source, group, role, i) ==
    /\ Bears(state, source, group, role)
    /\ i \in OfAction(state.roles[role.name], q.action)
    /\ Applies(state.roles[role.name][i], q)

RuleAt(state, source, group, role, i) ==
    [place |-> <<source, -group.priority, group.name, -role.priority, role.name,
                 -state.roles[role.name][i].priority, i>>,
     allow |-> state.roles[role.name][i].allow]

LEMMA RulesAre ==
    ASSUME NEW state, NEW q
    PROVE  \A rule : rule \in Rules(state, q)
               <=> \E source, group, role, i : /\ IsRule(state, q, source, group, role, i)
                                               /\ rule = RuleAt(state, source, group, role, i)
<1> DEFINE acls(r) == {i \in DOMAIN state.roles[r] :
                          state.roles[r][i].acltype = q.action /\ Applies(state.roles[r][i], q)}
           Own(role) == {RuleAt(state, 0, Self, role, i) : i \in acls(role.name)}
           Of(group) == {{RuleAt(state, 1, group, role, i) : i \in acls(role.name)} :
                            role \in state.groups[group.name]}
           own == UNION {Own(role) : role \in state.client.roles}
           ofGroups == UNION {UNION Of(group) : group \in state.client.groups}
<1>1. Rules(state, q) = own \cup ofGroups
  BY DEF Rules, RuleAt, Self
<1>2. \A role, i : i \in acls(role.name) <=> /\ i \in OfAction(state.roles[role.name], q.action)
                                             /\ Applies(state.roles[role.name][i], q)
  BY DEF OfAction
<1> HIDE DEF acls
<1>3. \A rule : (\E role \in state.client.roles : rule \in Own(role))
         <=> \E role, i : /\ IsRule(state, q, 0, Self, role, i)
                          /\ rule = RuleAt(state, 0, Self, role, i)
  BY <1>2 DEF IsRule, Bears
<1>4. \A rule : (\E group \in state.client.groups : rule \in UNION Of(group))
         <=> \E group, role, i : /\ IsRule(state, q, 1, group, role, i)
                                 /\ rule = RuleAt(state, 1, group, role, i)
  BY <1>2 DEF IsRule, Bears
<1> HIDE DEF Own, Of
<1>5. \A source, group, role, i : IsRule(state, q, source, group, role, i)
         => source = 1 \/ (source = 0 /\ group = Self)
  BY DEF IsRule, Bears
<1>6. \A rule : rule \in Rules(state, q)
         <=> \/ \E role \in state.client.roles : rule \in Own(role)
             \/ \E group \in state.client.groups : rule \in UNION Of(group)
  <2>1. \A rule : rule \in own <=> \E role \in state.client.roles : rule \in Own(role)
    OBVIOUS
  <2>2. \A rule : rule \in ofGroups <=> \E group \in state.client.groups : rule \in UNION Of(group)
    OBVIOUS
  <2> HIDE DEF own, ofGroups
  <2> QED
    BY <1>1, <2>1, <2>2
<1>7. ASSUME NEW rule, rule \in Rules(state, q)
      PROVE  \E source, group, role, i : /\ IsRule(state, q, source, group, role, i)
                                         /\ rule = RuleAt(state, source, group, role, i)
  BY <1>3, <1>4, <1>6, <1>7, Zenon
<1>8. ASSUME NEW source, NEW group, NEW role, NEW i, IsRule(state, q, source, group, role, i)
      PROVE  RuleAt(state, source, group, role, i) \in Rules(state, q)
  <2>1. CASE source = 1
    BY <1>4, <1>6, <1>8, <2>1, Zenon
  <2>2. CASE source = 0 /\ group = Self
    BY <1>3, <1>6, <1>8, <2>2, Zenon
  <2> QED
    BY <1>5, <1>8, <2>1, <2>2, Zenon
<1>9. ASSUME NEW rule PROVE (\E source, group, role, i : /\ IsRule(state, q, source, group, role, i)
                                                         /\ rule = RuleAt(state, source, group, role, i))
                            => rule \in Rules(state, q)
  BY <1>8
<1> QED
  BY <1>7, <1>9

LEMMA RuleTypes ==
    ASSUME NEW state \in BrokerStates, NEW q, NEW source, NEW group, NEW role, NEW i,
           IsRule(state, q, source, group, role, i)
    PROVE  /\ source \in Int /\ group.name \in Int /\ group.priority \in Int
           /\ role.name \in Int /\ role.priority \in Int
           /\ state.roles[role.name][i].priority \in Int /\ i \in Int
<1>1. source \in Int /\ group.name \in Int /\ group.priority \in Int
  BY StateTypes DEF IsRule, Bears, Self
<1>2. role.name \in RoleNames /\ role.priority \in Int
  <2>1. PICK roles : IsAssignment(roles, RoleNames) /\ role \in roles
    BY StateTypes DEF IsRule, Bears
  <2> QED
    BY <2>1 DEF IsAssignment
<1>3. state.roles[role.name] \in Seq(Acls) /\ i \in DOMAIN state.roles[role.name]
  BY <1>2, StateTypes DEF IsRule, OfAction
<1>4. \A acl \in Acls : acl.priority \in Int
  BY DEF Acls
<1>5. state.roles[role.name][i] \in Acls /\ i \in Int
  BY <1>3
<1>6. state.roles[role.name][i].priority \in Int
  BY <1>4, <1>5, Zenon
<1>7. role.name \in Int
  <2>1. role.name \in Nat
    BY <1>2, NamesAssumption, Zenon
  <2> QED
    BY <2>1
<1> QED
  BY <1>1, <1>2, <1>5, <1>6, <1>7

(* A rule does not precede itself, nor one that is tried before it.          *)
LEMMA NotBefore ==
    ASSUME NEW state \in BrokerStates, NEW q,
           NEW s1, NEW g1, NEW r1, NEW i1, IsRule(state, q, s1, g1, r1, i1),
           NEW s2, NEW g2, NEW r2, NEW i2, IsRule(state, q, s2, g2, r2, i2),
           \/ s1 = s2 /\ g1 = g2 /\ r1 = r2 /\ i1 = i2
           \/ s1 < s2
           \/ s1 = s2 /\ Above(g1, g2)
           \/ s1 = s2 /\ g1 = g2 /\ Above(r1, r2)
           \/ /\ s1 = s2 /\ g1 = g2 /\ r1 = r2
              /\ \/ state.roles[r1.name][i1].priority > state.roles[r2.name][i2].priority
                 \/ /\ state.roles[r1.name][i1].priority = state.roles[r2.name][i2].priority
                    /\ i1 < i2
    PROVE  ~ Before(RuleAt(state, s2, g2, r2, i2).place, RuleAt(state, s1, g1, r1, i1).place)
<1> DEFINE p1 == state.roles[r1.name][i1].priority
           p2 == state.roles[r2.name][i2].priority
<1>1. /\ s1 \in Int /\ g1.name \in Int /\ g1.priority \in Int /\ r1.name \in Int
      /\ r1.priority \in Int /\ p1 \in Int /\ i1 \in Int
  BY RuleTypes
<1>2. /\ s2 \in Int /\ g2.name \in Int /\ g2.priority \in Int /\ r2.name \in Int
      /\ r2.priority \in Int /\ p2 \in Int /\ i2 \in Int
  BY RuleTypes
<1>3. \/ s1 = s2 /\ g1 = g2 /\ r1 = r2 /\ i1 = i2 /\ p1 = p2
      \/ s1 < s2
      \/ s1 = s2 /\ Above(g1, g2)
      \/ s1 = s2 /\ g1 = g2 /\ Above(r1, r2)
      \/ s1 = s2 /\ g1 = g2 /\ r1 = r2 /\ (p1 > p2 \/ (p1 = p2 /\ i1 < i2))
  OBVIOUS
<1>4. /\ RuleAt(state, s1, g1, r1, i1).place
         = <<s1, -g1.priority, g1.name, -r1.priority, r1.name, -p1, i1>>
      /\ RuleAt(state, s2, g2, r2, i2).place
         = <<s2, -g2.priority, g2.name, -r2.priority, r2.name, -p2, i2>>
  BY DEF RuleAt
<1> HIDE DEF p1, p2
<1> DEFINE a2 == -g1.priority
           a3 == g1.name
           a4 == -r1.priority
           a5 == r1.name
           a6 == -p1
           b2 == -g2.priority
           b3 == g2.name
           b4 == -r2.priority
           b5 == r2.name
           b6 == -p2
<1>5. /\ a2 \in Int /\ a3 \in Int /\ a4 \in Int /\ a5 \in Int /\ a6 \in Int
      /\ b2 \in Int /\ b3 \in Int /\ b4 \in Int /\ b5 \in Int /\ b6 \in Int
  BY <1>1, <1>2
<1>6. ~ \/ s2 < s1
        \/ s2 = s1 /\ b2 < a2
        \/ s2 = s1 /\ b2 = a2 /\ b3 < a3
        \/ s2 = s1 /\ b2 = a2 /\ b3 = a3 /\ b4 < a4
        \/ s2 = s1 /\ b2 = a2 /\ b3 = a3 /\ b4 = a4 /\ b5 < a5
        \/ s2 = s1 /\ b2 = a2 /\ b3 = a3 /\ b4 = a4 /\ b5 = a5 /\ b6 < a6
        \/ s2 = s1 /\ b2 = a2 /\ b3 = a3 /\ b4 = a4 /\ b5 = a5 /\ b6 = a6 /\ i2 < i1
  BY <1>1, <1>2, <1>3 DEF Above
<1> DEFINE a == RuleAt(state, s1, g1, r1, i1).place
           b == RuleAt(state, s2, g2, r2, i2).place
<1>7. /\ a[1] = s1 /\ a[2] = a2 /\ a[3] = a3 /\ a[4] = a4 /\ a[5] = a5 /\ a[6] = a6 /\ a[7] = i1
      /\ b[1] = s2 /\ b[2] = b2 /\ b[3] = b3 /\ b[4] = b4 /\ b[5] = b5 /\ b[6] = b6 /\ b[7] = i2
      /\ DOMAIN b = 1 .. 7
  BY <1>4
<1> HIDE DEF a, b, a2, a3, a4, a5, a6, b2, b3, b4, b5, b6
<1>8. ~ Before(b, a)
  BY <1>6, <1>7, BeforeByComponent
<1> QED
  BY <1>8 DEF a, b

(* evaluate_permission decides by precedence.                                *)
LEMMA FirstMatchDecides ==
    ASSUME NEW state \in BrokerStates, NEW q
    PROVE  IF Rules(state, q) = {}
           THEN Evaluate_permission(state, q) = Default(state, q.action)
           ELSE \E rule \in Rules(state, q) :
                   /\ \A other \in Rules(state, q) : ~ Before(other.place, rule.place)
                   /\ Evaluate_permission(state, q) = Verdict(rule.allow)
<1> DEFINE checks == Role_checks(state)
           acls == FlattenSeq([i \in DOMAIN checks |->
                       Relevant(state.roles[checks[i].name], q.action)])
           matching == {i \in DOMAIN acls : Applies(acls[i], q)}
           rules == Rules(state, q)
<1>1. Evaluate_permission(state, q) = IF matching = {} THEN Default(state, q.action)
                                                       ELSE Verdict(acls[Min(matching)].allow)
  BY DEF Evaluate_permission
<1>2. PICK source, group : IsChecks(checks, state, source, group)
  BY ChecksInOrder
<1>3. checks \in Seq([name : RoleNames, priority : Int])
  BY ChecksInOrder
<1> HIDE DEF checks
<1>4. acls \in Seq(Acls) /\ \E check, index : IsTried(acls, state, q.action, checks, check, index)
  BY <1>3, AclsInOrder
<1>5. PICK check, index : IsTried(acls, state, q.action, checks, check, index)
  BY <1>4
<1>6. matching \subseteq 1 .. Len(acls) /\ Len(acls) \in Nat /\ DOMAIN acls = 1 .. Len(acls)
  BY <1>4
<1> HIDE DEF acls
<1> DEFINE src(p) == source[check[p]]
           grp(p) == group[check[p]]
           rl(p) == checks[check[p]]
           Of(p) == RuleAt(state, src(p), grp(p), rl(p), index[p])
<1>7. ASSUME NEW p \in matching
      PROVE  IsRule(state, q, src(p), grp(p), rl(p), index[p]) /\ Of(p).allow = acls[p].allow
  <2>1. /\ check[p] \in 1 .. Len(checks)
        /\ index[p] \in OfAction(state.roles[rl(p).name], q.action)
        /\ acls[p] = state.roles[rl(p).name][index[p]]
        /\ Applies(acls[p], q)
    BY <1>5, <1>6 DEF IsTried
  <2>2. Bears(state, src(p), grp(p), rl(p))
    BY <1>2, <2>1 DEF IsChecks
  <2> QED
    BY <2>1, <2>2 DEF IsRule, RuleAt
<1>8. ASSUME NEW s, NEW g, NEW r, NEW i, IsRule(state, q, s, g, r, i)
      PROVE  \E p \in matching : src(p) = s /\ grp(p) = g /\ rl(p) = r /\ index[p] = i
  <2>1. PICK c \in 1 .. Len(checks) : source[c] = s /\ group[c] = g /\ checks[c] = r
    BY <1>2, <1>8 DEF IsChecks, IsRule
  <2>2. PICK p \in 1 .. Len(acls) : check[p] = c /\ index[p] = i
    BY <1>5, <1>8, <2>1 DEF IsTried, IsRule
  <2>3. Applies(acls[p], q)
    BY <1>5, <1>8, <2>1, <2>2 DEF IsTried, IsRule
  <2> QED
    BY <1>6, <2>1, <2>2, <2>3
<1>9. CASE matching = {}
  <2>1. rules = {}
    BY <1>8, <1>9, RulesAre
  <2> QED
    BY <1>1, <1>9, <2>1
<1>10. CASE matching # {}
  <2> DEFINE m == Min(matching)
  <2>1. m \in matching /\ \A p \in matching : m <= p
    <3>1. \E x \in matching : \A y \in matching : x <= y
      <4>1. matching \subseteq Nat
        BY <1>6
      <4> HIDE DEF matching
      <4> QED
        BY <1>10, <4>1, LeastElement
    <3> QED
      BY <3>1 DEF Min
  <2> HIDE DEF m, matching
  <2>2. Of(m) \in rules /\ Evaluate_permission(state, q) = Verdict(Of(m).allow)
    BY <1>1, <1>7, <1>10, <2>1, RulesAre DEF m
  <2>3. ASSUME NEW other \in rules PROVE ~ Before(other.place, Of(m).place)
    <3>1. PICK p \in matching : other = Of(p)
      BY <1>8, <2>3, RulesAre
    <3>2. m \in 1 .. Len(acls) /\ p \in 1 .. Len(acls) /\ (p = m \/ m < p)
      BY <1>6, <2>1, <3>1
    <3>3. acls[m] = state.roles[rl(m).name][index[m]] /\ acls[p] = state.roles[rl(p).name][index[p]]
      BY <1>5, <3>2 DEF IsTried
    <3>4. check[m] \in 1 .. Len(checks) /\ check[p] \in 1 .. Len(checks)
      BY <1>5, <3>2 DEF IsTried
    <3>5. CASE p = m
      BY <1>7, <2>1, <3>1, <3>5, NotBefore
    <3>6. CASE m < p /\ check[m] < check[p]
      <4>1. \/ src(m) < src(p)
            \/ src(m) = src(p) /\ Above(grp(m), grp(p))
            \/ src(m) = src(p) /\ grp(m) = grp(p) /\ Above(rl(m), rl(p))
        BY <1>2, <3>4, <3>6 DEF IsChecks
      <4> QED
        BY <1>7, <2>1, <3>1, <4>1, NotBefore
    <3>7. CASE m < p /\ check[m] = check[p]
      <4>1. \/ acls[m].priority > acls[p].priority
            \/ acls[m].priority = acls[p].priority /\ index[m] < index[p]
        BY <1>5, <3>2, <3>4, <3>7 DEF IsTried
      <4>2. src(m) = src(p) /\ grp(m) = grp(p) /\ rl(m) = rl(p)
        BY <3>7
      <4> QED
        BY <1>7, <2>1, <3>1, <3>3, <4>1, <4>2, NotBefore
    <3> QED
      BY <1>5, <3>2, <3>5, <3>6, <3>7 DEF IsTried
  <2> QED
    BY <2>2, <2>3
<1> QED
  BY <1>9, <1>10

(* Whatever the handler has read, it decides by precedence.                  *)
THEOREM DecidedByPrecedence == Spec => []PrecedenceDecides
<1>1. IInv => PrecedenceDecides
  <2>1. SUFFICES ASSUME IInv, decision # "none" PROVE PrecedenceDecides
    BY DEF PrecedenceDecides
  <2>2. read \in BrokerStates /\ decision = Evaluate_permission(read, query)
    BY <2>1 DEF IInv, Decided
  <2> QED
    BY <2>2, FirstMatchDecides DEF PrecedenceDecides
<1> QED
  BY <1>1, Inductive, PTL

-------------------------------------------------------------------------------
(* What the migration writes. *)

\* Line i of the file is about the account.
Concerns(lines, username, i) ==
    /\ Rule(lines, i)
    /\ lines[i].word = "pattern" \/ Section(lines, i) \in {NoSection, username}

AclOf(line, type) ==
    [acltype |-> type, topic |-> line.topic, allow |-> line.access # "deny",
     priority |-> IF line.access # "deny" THEN 10 ELSE 100]

LEMMA AclsOfLines ==
    ASSUME NEW lines \in Seq(AclFileLines), NEW username
    PROVE  /\ \A acl : acl \in Acls_of(lines, username)
                <=> \E i \in DOMAIN lines : /\ Concerns(lines, username, i)
                                            /\ \E type \in Access_types[lines[i].access] :
                                                  acl = AclOf(lines[i], type)
           /\ \A acl \in Acls_of(lines, username) :
                 acl \in Acls /\ acl.priority = IF acl.allow THEN 10 ELSE 100
           /\ IsFiniteSet(Acls_of(lines, username))
<1> DEFINE all == Acls_of(lines, username)
           about == {j \in DOMAIN lines :
                        Global(lines, j) \/ (Rule(lines, j) /\ Section(lines, j) = username)}
<1>1. \A acl, line : acl \in Parse_acl_line(line)
         <=> \E type \in Access_types[line.access] : acl = AclOf(line, type)
  BY DEF Parse_acl_line, AclOf
<1>2. \A i : i \in about <=> i \in DOMAIN lines /\ Concerns(lines, username, i)
  BY DEF Concerns, Global
<1>3. all = UNION {Parse_acl_line(lines[i]) : i \in about}
  BY DEF Acls_of
<1> HIDE DEF all, about
<1>4. \A acl : acl \in all
         <=> \E i \in DOMAIN lines : /\ Concerns(lines, username, i)
                                     /\ \E type \in Access_types[lines[i].access] :
                                           acl = AclOf(lines[i], type)
  BY <1>1, <1>2, <1>3
<1>5. ASSUME NEW i \in DOMAIN lines, Concerns(lines, username, i),
             NEW type \in Access_types[lines[i].access]
      PROVE  /\ AclOf(lines[i], type) \in Acls
             /\ AclOf(lines[i], type).priority = IF AclOf(lines[i], type).allow THEN 10 ELSE 100
             /\ type \in ACLType
  <2>1. lines[i] \in AclFileLines /\ lines[i].word \in {"topic", "pattern"}
    BY <1>5 DEF Concerns, Rule
  <2>2. lines[i] \in [word : {"topic", "pattern"}, access : DOMAIN Access_types, topic : Levels]
    <3>1. lines[i] \notin [word : {"user"}, name : Words] /\ lines[i] \notin [word : {Invalid}]
      BY <2>1 DEF Invalid
    <3> QED
      BY <2>1, <3>1 DEF AclFileLines
  <2>3. lines[i].topic \in Levels /\ lines[i].access \in DOMAIN Access_types
    BY <2>2
  <2>4. type \in ACLType
    <3>1. lines[i].access \in {"read", "write", "readwrite", "deny"}
      BY <2>3 DEF Access_types
    <3>2. /\ Access_types.read \subseteq ACLType /\ Access_types.write \subseteq ACLType
          /\ Access_types.readwrite \subseteq ACLType /\ Access_types.deny \subseteq ACLType
      BY DEF Access_types, ACLType
    <3>4. /\ Access_types["read"] = Access_types.read
          /\ Access_types["write"] = Access_types.write
          /\ Access_types["readwrite"] = Access_types.readwrite
          /\ Access_types["deny"] = Access_types.deny
      BY DEF Access_types
    <3> DEFINE access == lines[i].access
    <3>3. access \in {"read", "write", "readwrite", "deny"} /\ type \in Access_types[access]
      BY <1>5, <3>1
    <3> HIDE DEF access
    <3> QED
      BY <3>2, <3>3, <3>4
  <2>6. AclOf(lines[i], type).priority = IF AclOf(lines[i], type).allow THEN 10 ELSE 100
    BY Zenon DEF AclOf
  <2>7. AclOf(lines[i], type) \in Acls
    <3>1. CASE lines[i].access = "deny"
      <4>1. AclOf(lines[i], type)
              = [acltype |-> type, topic |-> lines[i].topic, allow |-> FALSE, priority |-> 100]
        BY <3>1 DEF AclOf
      <4> QED
        BY <2>3, <2>4, <4>1 DEF Acls
    <3>2. CASE lines[i].access # "deny"
      <4>1. AclOf(lines[i], type)
              = [acltype |-> type, topic |-> lines[i].topic, allow |-> TRUE, priority |-> 10]
        BY <3>2 DEF AclOf
      <4> QED
        BY <2>3, <2>4, <4>1 DEF Acls
    <3> QED
      BY <3>1, <3>2
  <2> QED
    BY <2>4, <2>6, <2>7
<1>6. IsFiniteSet(all)
  <2> DEFINE pairs == (1 .. Len(lines)) \X ACLType
             f == [p \in pairs |-> AclOf(lines[p[1]], p[2])]
             image == {AclOf(lines[p[1]], p[2]) : p \in pairs}
  <2>1. IsFiniteSet(ACLType)
    <3>1. IsFiniteSet({"publishClientSend"})
      BY FS_Singleton
    <3>2. IsFiniteSet({"publishClientSend"} \cup {"publishClientReceive"})
      BY <3>1, FS_AddElement
    <3>3. IsFiniteSet(({"publishClientSend"} \cup {"publishClientReceive"})
                      \cup {"subscribeLiteral"})
      BY <3>2, FS_AddElement
    <3>4. IsFiniteSet((({"publishClientSend"} \cup {"publishClientReceive"})
                      \cup {"subscribeLiteral"}) \cup {"subscribePattern"})
      BY <3>3, FS_AddElement
    <3>5. IsFiniteSet(((({"publishClientSend"} \cup {"publishClientReceive"})
                      \cup {"subscribeLiteral"}) \cup {"subscribePattern"})
                      \cup {"unsubscribeLiteral"})
      BY <3>4, FS_AddElement
    <3>6. IsFiniteSet((((({"publishClientSend"} \cup {"publishClientReceive"})
                      \cup {"subscribeLiteral"}) \cup {"subscribePattern"})
                      \cup {"unsubscribeLiteral"}) \cup {"unsubscribePattern"})
      BY <3>5, FS_AddElement
    <3>7. ACLType = (((({"publishClientSend"} \cup {"publishClientReceive"})
                      \cup {"subscribeLiteral"}) \cup {"subscribePattern"})
                      \cup {"unsubscribeLiteral"}) \cup {"unsubscribePattern"}
      BY DEF ACLType
    <3> QED
      BY <3>6, <3>7
  <2>2. IsFiniteSet(1 .. Len(lines))
    BY FS_Interval
  <2>3. IsFiniteSet(pairs)
    BY <2>1, <2>2, FS_Product
  <2>4. f \in Surjection(pairs, image)
    BY DEF Surjection
  <2>5. all \subseteq image
    <3>1. ASSUME NEW acl \in all PROVE acl \in image
      <4>0. PICK i \in DOMAIN lines :
               /\ Concerns(lines, username, i)
               /\ \E type \in Access_types[lines[i].access] : acl = AclOf(lines[i], type)
        BY <1>4
      <4>1. PICK type \in Access_types[lines[i].access] : acl = AclOf(lines[i], type)
        BY <4>0
      <4>2. <<i, type>> \in pairs
        BY <1>5, <4>0, <4>1
      <4>3. acl = AclOf(lines[<<i, type>>[1]], <<i, type>>[2])
        BY <4>1
      <4> HIDE DEF pairs
      <4> QED
        BY <4>2, <4>3
    <3> QED
      BY <3>1
  <2> HIDE DEF f, image, pairs
  <2>6. IsFiniteSet(image)
    BY <2>3, <2>4, FS_Surjection
  <2> QED
    BY <2>5, <2>6, FS_Subset
<1>7. \A acl \in all : acl \in Acls /\ acl.priority = IF acl.allow THEN 10 ELSE 100
  BY <1>4, <1>5
<1> QED
  BY <1>4, <1>6, <1>7 DEF all

\* The local function of Deduplicate_acls.
IsLeft(left, acls) ==
    left = [i \in 0 .. Cardinality(acls) |->
               IF i = 0 THEN acls ELSE LET rest == left[i - 1] IN rest \ {First(rest)}]

LEMMA LeftExists ==
    ASSUME NEW acls, IsFiniteSet(acls)
    PROVE  \E left : IsLeft(left, acls)
<1> DEFINE n == Cardinality(acls)
           F == [x \in (1 .. n) \X SUBSET acls |-> x[2] \ {First(x[2])}]
<1>1. n \in Nat
  BY FS_CardinalityType
<1>2. F \in [(1 .. n) \X SUBSET acls -> SUBSET acls] /\ acls \in SUBSET acls
  OBVIOUS
<1>3. \A i \in 1 .. n, S \in SUBSET acls : F[<<i, S>>] = S \ {First(S)}
  OBVIOUS
<1> HIDE DEF n, F
<1>4. PICK g : Goes(g, n, SUBSET acls, acls, F)
  BY <1>1, <1>2, Recursion
<1>5. /\ g = [i \in 0 .. n |-> g[i]] /\ g[0] = acls
      /\ \A i \in 0 .. n : g[i] \in SUBSET acls
      /\ \A i \in 1 .. n : g[i] = F[<<i, g[i - 1]>>]
  BY <1>4 DEF Goes
<1>6. \A i \in 0 .. n : g[i] = IF i = 0 THEN acls ELSE g[i - 1] \ {First(g[i - 1])}
  <2>1. ASSUME NEW i \in 1 .. n PROVE g[i] = g[i - 1] \ {First(g[i - 1])}
    <3>1. i - 1 \in 0 .. n
      BY <1>1
    <3>2. g[i - 1] \in SUBSET acls /\ g[i] = F[<<i, g[i - 1]>>]
      BY <1>5, <3>1
    <3> QED
      BY <1>3, <3>2
  <2> QED
    BY <1>1, <1>5, <2>1
<1>7. g = [i \in 0 .. n |-> IF i = 0 THEN acls ELSE g[i - 1] \ {First(g[i - 1])}]
  BY <1>5, <1>6
<1> QED
  BY <1>7 DEF IsLeft, n

(* Nothing is lost when equal ACLs become one, and nothing is added.         *)
LEMMA Deduplicated ==
    ASSUME NEW acls, IsFiniteSet(acls), \A acl \in acls : acl.priority \in {10, 100}
    PROVE  /\ Deduplicate_acls(acls) \in Seq(acls)
           /\ \A acl \in acls :
                 \E i \in 1 .. Len(Deduplicate_acls(acls)) : Deduplicate_acls(acls)[i] = acl
<1> DEFINE n == Cardinality(acls)
           left == CHOOSE f : IsLeft(f, acls)
           s == Deduplicate_acls(acls)
<1>1. n \in Nat
  BY FS_CardinalityType
<1>2. IsLeft(left, acls)
  BY LeftExists
<1>3. s = [i \in 1 .. n |-> First(left[i - 1])]
  BY DEF Deduplicate_acls, IsLeft
<1>4. left[0] = acls /\ \A i \in 1 .. n : left[i] = left[i - 1] \ {First(left[i - 1])}
  <2>1. \A f : IsLeft(f, acls)
           => f[0] = acls /\ \A i \in 1 .. n : f[i] = f[i - 1] \ {First(f[i - 1])}
    <3>1. ASSUME NEW f, IsLeft(f, acls)
          PROVE  f[0] = acls /\ \A i \in 1 .. n : f[i] = f[i - 1] \ {First(f[i - 1])}
      <4> DEFINE h == [i \in 0 .. n |-> IF i = 0 THEN acls ELSE f[i - 1] \ {First(f[i - 1])}]
      <4>0. f = h
        BY <3>1 DEF IsLeft
      <4>3. \A i \in 0 .. n : h[i] = IF i = 0 THEN acls ELSE f[i - 1] \ {First(f[i - 1])}
        OBVIOUS
      <4> HIDE DEF h
      <4>1. \A i \in 0 .. n : f[i] = IF i = 0 THEN acls ELSE f[i - 1] \ {First(f[i - 1])}
        BY <4>0, <4>3
      <4>2. 0 \in 0 .. n /\ \A i \in 1 .. n : i \in 0 .. n /\ i # 0
        BY <1>1
      <4> HIDE DEF n
      <4> QED
        BY <4>1, <4>2
    <3> QED
      BY <3>1
  <2> QED
    BY <1>2, <2>1
<1> HIDE DEF left, s
<1>5. ASSUME NEW S \in SUBSET acls, S # {} PROVE First(S) \in S
  <2>1. \E x \in S : \A y \in S : x.priority >= y.priority
    <3>1. \A x \in S : x.priority \in {10, 100}
      OBVIOUS
    <3>2. CASE \E x \in S : x.priority = 100
      BY <3>1, <3>2
    <3>3. CASE \A x \in S : x.priority = 10
      BY <1>5, <3>3
    <3> QED
      BY <3>1, <3>2, <3>3
  <2> QED
    BY <2>1 DEF First
<1> DEFINE Right(i) == left[i] \in SUBSET acls /\ Cardinality(left[i]) = n - i
           Wrong == {i \in 0 .. n : ~ Right(i)}
<1>6. ASSUME Wrong # {} PROVE FALSE
  <2>1. Wrong \subseteq Nat
    OBVIOUS
  <2> HIDE DEF Wrong
  <2>2. PICK i \in Wrong : \A j \in Wrong : i <= j
    BY <1>6, <2>1, LeastElement
  <2>3. i # 0
    BY <1>1, <1>4, <2>2 DEF Wrong
  <2>4. i \in 1 .. n /\ i - 1 \in 0 .. n /\ i - 1 \notin Wrong
    BY <1>1, <2>2, <2>3 DEF Wrong
  <2> DEFINE S == left[i - 1]
  <2>5. S \in SUBSET acls /\ Cardinality(S) = n - (i - 1)
    BY <2>4 DEF Wrong
  <2> HIDE DEF S
  <2>6. IsFiniteSet(S) /\ S # {}
    <3>1. IsFiniteSet(S)
      BY <2>5, FS_Subset
    <3>2. Cardinality(S) # 0
      BY <1>1, <2>4, <2>5
    <3> QED
      BY <3>1, <3>2, FS_EmptySet
  <2>7. left[i] = S \ {First(S)} /\ First(S) \in S
    BY <1>4, <1>5, <2>4, <2>5, <2>6 DEF S
  <2>8. Cardinality(left[i]) = n - (i - 1) - 1
    <3>1. Cardinality(S \ {First(S)}) = Cardinality(S) - 1
      BY <2>6, <2>7, FS_RemoveElement
    <3> QED
      BY <2>5, <2>7, <3>1
  <2>9. Right(i)
    BY <1>1, <2>4, <2>5, <2>7, <2>8
  <2> QED
    BY <2>2, <2>9 DEF Wrong
<1>7. \A i \in 0 .. n : Right(i)
  BY <1>6
<1>8. ASSUME NEW i \in 1 .. n PROVE s[i] \in acls /\ s[i] = First(left[i - 1])
  <2> DEFINE S == left[i - 1]
  <2>1. i - 1 \in 0 .. n
    BY <1>1
  <2>2. S \in SUBSET acls /\ Cardinality(S) = n - (i - 1)
    BY <1>7, <2>1
  <2>3. s[i] = First(S)
    BY <1>3
  <2> HIDE DEF S
  <2>4. S # {}
    BY <1>1, <2>2, FS_EmptySet
  <2> QED
    BY <1>5, <2>2, <2>3, <2>4 DEF S
<1>9. s \in Seq(acls) /\ Len(s) = n
  BY <1>1, <1>3, <1>8
<1>10. left[n] = {}
  <2> DEFINE S == left[n]
  <2>1. S \in SUBSET acls /\ Cardinality(S) = 0
    BY <1>1, <1>7
  <2> HIDE DEF S
  <2>2. IsFiniteSet(S)
    BY <2>1, FS_Subset
  <2> QED
    BY <2>1, <2>2, FS_EmptySet DEF S
<1>11. ASSUME NEW acl \in acls PROVE \E i \in 1 .. n : s[i] = acl
  <2> DEFINE T == {i \in 0 .. n : acl \notin left[i]}
  <2>1. T \subseteq Nat /\ T # {}
    BY <1>1, <1>10
  <2> HIDE DEF T
  <2>2. PICK i \in T : \A j \in T : i <= j
    BY <2>1, LeastElement
  <2>3. i \in 1 .. n /\ i - 1 \in 0 .. n /\ i - 1 \notin T
    BY <1>1, <1>4, <2>2 DEF T
  <2>4. acl \in left[i - 1] /\ acl \notin left[i]
    BY <2>2, <2>3 DEF T
  <2>5. acl = First(left[i - 1])
    BY <1>4, <2>3, <2>4
  <2> QED
    BY <1>8, <2>3, <2>5
<1> QED
  BY <1>9, <1>11 DEF s

-------------------------------------------------------------------------------
(* A client with one role and a group that has none. *)

HasOneRole(state, role, group) ==
    /\ state.client.roles = {role}
    /\ state.client.groups = {group} /\ state.groups[group.name] = {}

Ranked(acl) == acl.priority = IF acl.allow THEN 10 ELSE 100

LEMMA IsSequence ==
    ASSUME NEW S, NEW n \in Nat, NEW s, s = [i \in 1 .. n |-> s[i]], \A i \in 1 .. n : s[i] \in S
    PROVE  s \in Seq(S) /\ Len(s) = n
  OBVIOUS

LEMMA OnlyElement ==
    ASSUME NEW x, NEW s \in Seq({x}), Len(s) = 1
    PROVE  DOMAIN s = 1 .. 1 /\ \A i \in 1 .. 1 : s[i] = x
  OBVIOUS

LEMMA SortedOne ==
    ASSUME NEW x
    PROVE  Sorted({x}) \in Seq({x}) /\ Len(Sorted({x})) = 1
<1> DEFINE before == {p \in {x} \X {x} :
                         \/ p[1].priority > p[2].priority
                         \/ p[1].priority = p[2].priority /\ p[1].name < p[2].name}
           Right(s) == \A i, j \in DOMAIN s : i < j => <<s[i], s[j]>> \in before
           witness == [i \in 1 .. 1 |-> x]
           candidates == [1 .. 1 -> {x}]
<1>1. Sorted({x}) = InOrder({x}, before)
  BY DEF Sorted
<1>2. Cardinality({x}) = 1
  BY FS_Singleton
<1>3. InOrder({x}, before) = CHOOSE s \in candidates : Right(s)
  BY <1>2 DEF InOrder
<1>4. witness \in candidates /\ Right(witness)
  <2> HIDE DEF before
  <2>1. \A i, j \in 1 .. 1 : ~ (i < j)
    OBVIOUS
  <2>2. witness \in candidates /\ DOMAIN witness = 1 .. 1
    OBVIOUS
  <2> HIDE DEF witness, candidates
  <2>3. Right(witness)
    BY <2>1, <2>2
  <2> HIDE DEF Right
  <2> QED
    BY <2>2, <2>3
<1>6. ASSUME NEW s \in candidates PROVE s \in Seq({x}) /\ Len(s) = 1
  <2>1. s = [i \in 1 .. 1 |-> s[i]] /\ \A i \in 1 .. 1 : s[i] \in {x}
    OBVIOUS
  <2> QED
    BY <2>1, IsSequence
<1> HIDE DEF witness, Right, before, candidates
<1>5. Sorted({x}) \in candidates
  BY <1>1, <1>3, <1>4
<1> QED
  BY <1>5, <1>6

LEMMA SortedNone == Sorted({}) = << >>
<1> DEFINE before == {p \in {} \X {} :
                         \/ p[1].priority > p[2].priority
                         \/ p[1].priority = p[2].priority /\ p[1].name < p[2].name}
           Right(s) == \A i, j \in DOMAIN s : i < j => <<s[i], s[j]>> \in before
<1>1. Sorted({}) = InOrder({}, before)
  BY DEF Sorted
<1>2. Cardinality({}) = 0
  BY FS_EmptySet
<1>3. InOrder({}, before) = CHOOSE s \in [1 .. 0 -> {}] : Right(s)
  BY <1>2 DEF InOrder
<1>4. << >> \in [1 .. 0 -> {}] /\ Right(<< >>)
  OBVIOUS
<1> HIDE DEF Right, before
<1>5. Sorted({}) \in [1 .. 0 -> {}]
  BY <1>1, <1>3, <1>4
<1>6. \A s \in [1 .. 0 -> {}] : s = << >>
  OBVIOUS
<1> QED
  BY <1>5, <1>6

LEMMA OneCheck ==
    ASSUME NEW state, NEW role, NEW group, HasOneRole(state, role, group)
    PROVE  Role_checks(state) \in Seq({role}) /\ Len(Role_checks(state)) = 1
<1> DEFINE ofGroups == Sorted({group})
           lists == [i \in DOMAIN ofGroups |-> Sorted(state.groups[ofGroups[i].name])]
           flat == FlattenSeq(lists)
           own == Sorted({role})
<1>1. Role_checks(state) = own \o flat
  BY DEF Role_checks, HasOneRole
<1>0. state.groups[group.name] = {}
  BY DEF HasOneRole
<1>2. ofGroups \in Seq({group}) /\ Len(ofGroups) = 1
  BY SortedOne
<1> HIDE DEF ofGroups
<1>3. DOMAIN ofGroups = 1 .. 1 /\ \A i \in 1 .. 1 : ofGroups[i] = group
  BY <1>2, OnlyElement
<1>4. \A i \in 1 .. 1 : lists[i] = << >>
  BY <1>0, <1>3, SortedNone
<1>5. lists = [i \in 1 .. 1 |-> lists[i]]
  BY <1>3
<1> HIDE DEF lists
<1>6. lists \in Seq(Seq({role})) /\ Len(lists) = 1
  <2>1. \A i \in 1 .. 1 : lists[i] \in Seq({role})
    <3>1. << >> \in Seq({role})
      OBVIOUS
    <3> QED
      BY <1>4, <3>1, Zenon
  <2> QED
    BY <1>5, <2>1, IsSequence
<1>7. PICK row, col : IsFlat(flat, lists, Len(lists), row, col)
  BY <1>6, FlattenRows
<1>8. flat \in Seq({role})
  BY <1>6, FlattenRows
<1>9. Len(flat) = 0
  <2>1. ASSUME NEW p \in 1 .. Len(flat) PROVE FALSE
    <3>1. row[p] \in 1 .. 1 /\ col[p] \in 1 .. Len(lists[row[p]])
      BY <1>6, <1>7, <2>1 DEF IsFlat
    <3>2. lists[row[p]] = << >>
      BY <1>4, <3>1
    <3> QED
      BY <3>1, <3>2
  <2>2. Len(flat) \in Nat /\ (Len(flat) # 0 => 1 \in 1 .. Len(flat))
    BY <1>8
  <2> QED
    BY <2>1, <2>2
<1> HIDE DEF flat
<1>10. own \in Seq({role}) /\ Len(own) = 1
  BY SortedOne
<1> HIDE DEF own
<1> QED
  BY <1>1, <1>8, <1>9, <1>10

\* Every ACL of the role for the action is tried, by priority.
IsTriedOf(tried, acls, action) ==
    /\ tried \in Seq(Acls)
    /\ \A p \in 1 .. Len(tried) : \E i \in OfAction(acls, action) : tried[p] = acls[i]
    /\ \A i \in OfAction(acls, action) : \E p \in 1 .. Len(tried) : tried[p] = acls[i]
    /\ \A p, r \in 1 .. Len(tried) : p < r => tried[p].priority >= tried[r].priority

LEMMA OneRoleTried ==
    ASSUME NEW state, NEW action, NEW role, NEW group, HasOneRole(state, role, group),
           NEW acls \in Seq(Acls), state.roles[role.name] = acls
    PROVE  LET checks == Role_checks(state)
           IN  IsTriedOf(FlattenSeq([i \in DOMAIN checks |->
                             Relevant(state.roles[checks[i].name], action)]), acls, action)
<1> DEFINE checks == Role_checks(state)
           lists == [i \in DOMAIN checks |-> Relevant(state.roles[checks[i].name], action)]
           tried == FlattenSeq(lists)
           relevant == Relevant(acls, action)
<1>2. checks \in Seq({role}) /\ Len(checks) = 1
  BY OneCheck
<1> HIDE DEF checks
<1>3. DOMAIN checks = 1 .. 1 /\ \A i \in 1 .. 1 : checks[i] = role
  BY <1>2, OnlyElement
<1>4. \A i \in 1 .. 1 : lists[i] = relevant
  BY <1>3
<1>5. lists = [i \in 1 .. 1 |-> lists[i]]
  BY <1>3
<1>6. PICK at : IsRelevant(relevant, acls, action, at)
  BY RelevantLists
<1>7. relevant \in Seq(Acls)
  BY RelevantLists
<1> HIDE DEF lists, relevant
<1>8. lists \in Seq(Seq(Acls)) /\ Len(lists) = 1
  <2>1. \A i \in 1 .. 1 : lists[i] \in Seq(Acls)
    BY <1>4, <1>7
  <2> QED
    BY <1>5, <2>1, IsSequence
<1>9. PICK row, col : IsFlat(tried, lists, Len(lists), row, col)
  BY <1>8, FlattenRows
<1>10. tried \in Seq(Acls)
  BY <1>8, FlattenRows
<1> HIDE DEF tried
<1>11. DOMAIN tried = 1 .. Len(tried) /\ Len(tried) \in Nat
  BY <1>10
<1>12. ASSUME NEW p \in 1 .. Len(tried)
       PROVE  row[p] = 1 /\ col[p] \in 1 .. Len(relevant) /\ tried[p] = relevant[col[p]]
  <2>1. row[p] \in 1 .. 1 /\ col[p] \in 1 .. Len(lists[row[p]]) /\ tried[p] = lists[row[p]][col[p]]
    BY <1>8, <1>9 DEF IsFlat
  <2> QED
    BY <1>4, <2>1
<1>13. ASSUME NEW p \in 1 .. Len(tried)
       PROVE  \E i \in OfAction(acls, action) : tried[p] = acls[i]
  <2>1. at[col[p]] \in OfAction(acls, action) /\ relevant[col[p]] = acls[at[col[p]]]
    BY <1>6, <1>12 DEF IsRelevant
  <2> QED
    BY <1>12, <2>1
<1>14. ASSUME NEW i \in OfAction(acls, action)
       PROVE  \E p \in 1 .. Len(tried) : tried[p] = acls[i]
  <2>1. PICK k \in 1 .. Len(relevant) : at[k] = i
    BY <1>6 DEF IsRelevant
  <2>2. 1 \in 1 .. Len(lists) /\ k \in 1 .. Len(lists[1])
    BY <1>4, <1>8
  <2>3. PICK p \in 1 .. Len(tried) : row[p] = 1 /\ col[p] = k
    BY <1>9, <2>2 DEF IsFlat
  <2> QED
    BY <1>6, <1>12, <2>1, <2>3 DEF IsRelevant
<1>15. ASSUME NEW p \in 1 .. Len(tried), NEW r \in 1 .. Len(tried), p < r
       PROVE  tried[p].priority >= tried[r].priority
  <2>1. col[p] < col[r]
    <3>1. row[p] < row[r] \/ col[p] < col[r]
      BY <1>9, <1>15 DEF IsFlat
    <3>2. row[p] = 1 /\ row[r] = 1
      BY <1>12
    <3> QED
      BY <3>1, <3>2
  <2>2. tried[p] = relevant[col[p]] /\ tried[r] = relevant[col[r]]
    BY <1>12
  <2>3. /\ col[p] \in 1 .. Len(relevant) /\ col[r] \in 1 .. Len(relevant)
    BY <1>12
  <2>4. \/ acls[at[col[p]]].priority > acls[at[col[r]]].priority
        \/ acls[at[col[p]]].priority = acls[at[col[r]]].priority
    BY <1>6, <2>1, <2>3 DEF IsRelevant
  <2>5. tried[p] = acls[at[col[p]]] /\ tried[r] = acls[at[col[r]]]
    BY <1>6, <2>2, <2>3 DEF IsRelevant
  <2>6. tried[p].priority \in Int /\ tried[r].priority \in Int
    <3>1. tried[p] \in Acls /\ tried[r] \in Acls
      BY <1>10
    <3> QED
      BY <3>1 DEF Acls
  <2> QED
    BY <2>4, <2>5, <2>6
<1>16. IsTriedOf(tried, acls, action)
  BY <1>10, <1>13, <1>14, <1>15 DEF IsTriedOf
<1> QED
  BY <1>16 DEF tried, lists, checks

(* One ACL that matches and denies is enough for a denial, and without one   *)
(* that matches nothing is permitted: what denies has the higher priority.   *)
LEMMA OneRoleDecides ==
    ASSUME NEW state, NEW q, NEW role, NEW group, HasOneRole(state, role, group),
           NEW acls \in Seq(Acls), state.roles[role.name] = acls,
           \A i \in 1 .. Len(acls) : Ranked(acls[i]),
           Default(state, q.action) = "deny"
    PROVE  Evaluate_permission(state, q)
             = Verdict(/\ \E i \in OfAction(acls, q.action) : Applies(acls[i], q)
                       /\ \A i \in OfAction(acls, q.action) :
                             Applies(acls[i], q) => acls[i].allow)
<1> DEFINE checks == Role_checks(state)
           tried == FlattenSeq([i \in DOMAIN checks |->
                        Relevant(state.roles[checks[i].name], q.action)])
           matching == {i \in DOMAIN tried : Applies(tried[i], q)}
           permitted == /\ \E i \in OfAction(acls, q.action) : Applies(acls[i], q)
                        /\ \A i \in OfAction(acls, q.action) :
                              Applies(acls[i], q) => acls[i].allow
<1>1. Evaluate_permission(state, q) = IF matching = {} THEN Default(state, q.action)
                                                       ELSE Verdict(tried[Min(matching)].allow)
  BY DEF Evaluate_permission
<1>2. IsTriedOf(tried, acls, q.action)
  BY OneRoleTried
<1> HIDE DEF tried
<1>10. tried \in Seq(Acls)
  BY <1>2 DEF IsTriedOf
<1>11. DOMAIN tried = 1 .. Len(tried) /\ Len(tried) \in Nat
  BY <1>10
<1>13. \A p \in 1 .. Len(tried) : \E i \in OfAction(acls, q.action) : tried[p] = acls[i]
  BY <1>2 DEF IsTriedOf
<1>14. \A i \in OfAction(acls, q.action) : \E p \in 1 .. Len(tried) : tried[p] = acls[i]
  BY <1>2 DEF IsTriedOf
<1>15. \A p, r \in 1 .. Len(tried) : p < r => tried[p].priority >= tried[r].priority
  BY <1>2 DEF IsTriedOf
<1>16. ASSUME NEW p \in 1 .. Len(tried)
       PROVE  tried[p].priority = (IF tried[p].allow THEN 10 ELSE 100) /\ tried[p].allow \in BOOLEAN
  <2>1. PICK i \in OfAction(acls, q.action) : tried[p] = acls[i]
    BY <1>13
  <2>2. i \in 1 .. Len(acls)
    BY <2>1 DEF OfAction
  <2>3. tried[p].allow \in BOOLEAN
    <3>1. tried[p] \in Acls
      BY <1>10
    <3> QED
      BY <3>1 DEF Acls
  <2> QED
    BY <2>1, <2>2, <2>3 DEF Ranked
<1>17. ASSUME NEW p \in matching
       PROVE  p \in 1 .. Len(tried) /\ \E i \in OfAction(acls, q.action) :
                                          tried[p] = acls[i] /\ Applies(acls[i], q)
  BY <1>11, <1>13
<1>18. ASSUME NEW i \in OfAction(acls, q.action), Applies(acls[i], q)
       PROVE  \E p \in matching : tried[p] = acls[i]
  BY <1>11, <1>14, <1>18
<1>19. CASE matching = {}
  <2>1. ~ permitted
    BY <1>18, <1>19
  <2> QED
    BY <1>1, <1>19, <2>1 DEF Verdict
<1>20. CASE matching # {}
  <2> DEFINE m == Min(matching)
  <2>1. m \in matching /\ \A p \in matching : m <= p
    <3>1. \E x \in matching : \A y \in matching : x <= y
      <4>1. matching \subseteq Nat
        BY <1>11
      <4> HIDE DEF matching
      <4> QED
        BY <1>20, <4>1, LeastElement
    <3> QED
      BY <3>1 DEF Min
  <2>2. Evaluate_permission(state, q) = Verdict(tried[m].allow)
    BY <1>1, <1>20
  <2> HIDE DEF m, matching
  <2>3. m \in 1 .. Len(tried) /\ tried[m].allow \in BOOLEAN
    BY <1>16, <1>17, <2>1
  <2>4. ASSUME tried[m].allow PROVE permitted
    <3>1. \A p \in matching : tried[p].allow
      <4>1. ASSUME NEW p \in matching PROVE tried[p].allow
        <5>1. p \in 1 .. Len(tried) /\ (p = m \/ m < p)
          BY <1>11, <1>17, <2>1, <2>3
        <5>2. CASE m < p
          <6>1. tried[m].priority >= tried[p].priority
            BY <1>15, <2>3, <5>1, <5>2
          <6>2. tried[m].priority = 10
            BY <1>16, <2>3, <2>4
          <6>3. tried[p].priority = IF tried[p].allow THEN 10 ELSE 100
            BY <1>16, <5>1
          <6> QED
            BY <6>1, <6>2, <6>3
        <5> QED
          BY <2>4, <5>1, <5>2
      <4> QED
        BY <4>1
    <3>2. \A i \in OfAction(acls, q.action) : Applies(acls[i], q) => acls[i].allow
      BY <1>18, <3>1
    <3>3. \E i \in OfAction(acls, q.action) : Applies(acls[i], q)
      BY <1>17, <2>1
    <3> QED
      BY <3>2, <3>3
  <2>5. ASSUME ~ tried[m].allow PROVE ~ permitted
    BY <1>17, <2>1, <2>5
  <2> HIDE DEF permitted
  <2>6. Verdict(tried[m].allow) = Verdict(permitted)
    BY <2>4, <2>5 DEF Verdict
  <2> QED
    BY <2>2, <2>6 DEF permitted
<1> QED
  BY <1>19, <1>20

-------------------------------------------------------------------------------
(* The migration. *)

Row(files, username) ==
    CHOOSE i \in DOMAIN files.owners : files.owners[i].username = username

GroupOf(files, username) == files.owners[Row(files, username)].group

GroupNamed(files, name) ==
    [name |-> name,
     clients |-> {u \in Usernames(files.passwords) : GroupOf(files, u) = name}]

AccountOf(username) ==
    [name |-> username, roles |-> {[name |-> Role_name(username), priority |-> 50]}]

LEMMA Accepted ==
    ASSUME NEW files, Migrate(files).exit = 0
    PROVE  /\ Migrate(files).state = Migrated(files)
           /\ Usernames(files.owners) = Usernames(files.passwords)
<1> DEFINE usernames == Usernames(files.passwords)
           code == Password_exit(files.passwords)
           accepted == /\ Owners_accepted(files.owners, usernames)
                       /\ Acl_file_accepted(files.acls, usernames)
                       /\ Base_accepted(files.base)
<1>1. Migrate(files) = IF code # 0 THEN Refused(code)
                       ELSE IF accepted THEN [exit |-> 0, state |-> Migrated(files)] ELSE Refused(1)
  BY DEF Migrate
<1>2. accepted => Usernames(files.owners) = usernames
  BY DEF Owners_accepted
<1> HIDE DEF accepted, code
<1>3. Refused(code).exit = code /\ Refused(1).exit = 1
  BY DEF Refused
<1>4. code = 0 /\ accepted
  BY <1>1, <1>3
<1>5. Migrate(files) = [exit |-> 0, state |-> Migrated(files)]
  BY <1>1, <1>4
<1> QED
  BY <1>2, <1>4, <1>5

LEMMA MigratedParts ==
    ASSUME NEW files
    PROVE  LET usernames == Usernames(files.passwords)
               state == Migrated(files)
           IN  /\ \E admin : admin.name = "admin"
                             /\ state.clients = {admin} \cup {AccountOf(u) : u \in usernames}
               /\ state.groups = {[name |-> "unauthenticated", clients |-> {}]}
                                 \cup {GroupNamed(files, g) :
                                          g \in {files.owners[i].group : i \in DOMAIN files.owners}}
               /\ \A u \in usernames :
                     state.roles[Role_name(u)] = Deduplicate_acls(Acls_of(files.acls, u))
               /\ \A key \in {"publishClientSend", "publishClientReceive", "subscribe",
                              "unsubscribe"} : state.defaults[key] = FALSE
<1> DEFINE usernames == Usernames(files.passwords)
           state == Migrated(files)
           names == {Kept(role) : role \in DOMAIN files.base.roles \cap Preserved_roles}
                       \cup {Role_name(u) : u \in usernames}
           roles == [r \in names |->
                       IF Len(r) = 1 THEN files.base.roles[r[1]]
                       ELSE Deduplicate_acls(Acls_of(files.acls, r[2]))]
           admin == [name |-> "admin", roles |-> {[name |-> Kept("dynsec-admin"), priority |-> 100],
                                                  [name |-> Kept("sys-observe"), priority |-> 10]}]
<1>1. state.roles = roles
  BY DEF Migrated
<1>2. state.clients = {admin} \cup {AccountOf(u) : u \in usernames}
  BY DEF Migrated, AccountOf
<1>3. state.groups = {[name |-> "unauthenticated", clients |-> {}]}
                        \cup {GroupNamed(files, g) :
                                 g \in {files.owners[i].group : i \in DOMAIN files.owners}}
  BY DEF Migrated, GroupNamed, GroupOf, Row
<1>4. \A key \in {"publishClientSend", "publishClientReceive", "subscribe", "unsubscribe"} :
         state.defaults[key] = FALSE
  BY DEF Migrated
<1> HIDE DEF state
<1>5. ASSUME NEW u \in usernames
      PROVE  roles[Role_name(u)] = Deduplicate_acls(Acls_of(files.acls, u))
  <2> DEFINE r == Role_name(u)
  <2>1. r \in names
    OBVIOUS
  <2>2. Len(r) = 2 /\ r[2] = u
    BY DEF Role_name
  <2> HIDE DEF r, names
  <2>3. roles[r] = IF Len(r) = 1 THEN files.base.roles[r[1]]
                   ELSE Deduplicate_acls(Acls_of(files.acls, r[2]))
    BY <2>1
  <2> QED
    BY <2>2, <2>3 DEF r
<1>6. admin.name = "admin"
  OBVIOUS
<1> HIDE DEF roles, admin
<1> QED
  BY <1>1, <1>2, <1>3, <1>4, <1>5, <1>6 DEF state

(* Each account is in the group of its row and in no other.                  *)
LEMMA OneGroup ==
    ASSUME NEW files, Usernames(files.owners) = Usernames(files.passwords),
           NEW u \in Usernames(files.passwords)
    PROVE  {g \in Migrated(files).groups : u \in g.clients} = {GroupNamed(files, GroupOf(files, u))}
<1> DEFINE names == {files.owners[i].group : i \in DOMAIN files.owners}
           groups == Migrated(files).groups
           none == [name |-> "unauthenticated", clients |-> {}]
           mine == GroupNamed(files, GroupOf(files, u))
<1>1. groups = {none} \cup {GroupNamed(files, g) : g \in names}
  BY MigratedParts
<1> HIDE DEF groups
<1>2. \E i \in DOMAIN files.owners : files.owners[i].username = u
  BY DEF Usernames
<1>3. Row(files, u) \in DOMAIN files.owners
  BY <1>2 DEF Row
<1>4. GroupOf(files, u) \in names
  BY <1>3 DEF GroupOf
<1>5. u \notin none.clients
  OBVIOUS
<1>6. \A g : u \in GroupNamed(files, g).clients <=> GroupOf(files, u) = g
  BY DEF GroupNamed
<1> HIDE DEF names, none
<1>7. mine \in groups /\ u \in mine.clients
  BY <1>1, <1>4, <1>6
<1>8. \A g \in groups : u \in g.clients => g = mine
  BY <1>1, <1>5, <1>6
<1> QED
  BY <1>7, <1>8 DEF groups

LEMMA AccountAsBroker ==
    ASSUME NEW files, Usernames(files.owners) = Usernames(files.passwords),
           NEW u \in Usernames(files.passwords), u # "admin", NEW action \in ACLType
    PROVE  LET state == As_broker(Migrated(files), u)
               role == [name |-> Role_name(u), priority |-> 50]
               group == [name |-> GroupOf(files, u), priority |-> 50]
           IN  /\ HasOneRole(state, role, group)
               /\ state.roles[role.name] = Deduplicate_acls(Acls_of(files.acls, u))
               /\ Default(state, action) = "deny"
<1> DEFINE migrated == Migrated(files)
           state == As_broker(migrated, u)
           role == [name |-> Role_name(u), priority |-> 50]
           group == [name |-> GroupOf(files, u), priority |-> 50]
           mine == {g \in migrated.groups : u \in g.clients}
           own == GroupNamed(files, GroupOf(files, u))
           client == CHOOSE c \in migrated.clients : c.name = u
           names == {g.name : g \in migrated.groups}
<1>1. mine = {own}
  BY OneGroup
<1>2. client = AccountOf(u)
  <2>1. PICK admin : /\ admin.name = "admin"
                     /\ migrated.clients = {admin} \cup {AccountOf(v) :
                                                            v \in Usernames(files.passwords)}
    BY MigratedParts
  <2>2. \A v : AccountOf(v).name = v
    BY DEF AccountOf
  <2> HIDE DEF migrated
  <2>3. AccountOf(u) \in migrated.clients /\ AccountOf(u).name = u
    BY <2>1, <2>2
  <2>4. \A c \in migrated.clients : c.name = u => c = AccountOf(u)
    BY <2>1, <2>2
  <2> QED
    BY <2>3, <2>4
<1>3. /\ state.client = [roles |-> client.roles,
                         groups |-> {[name |-> g.name, priority |-> 50] : g \in mine}]
      /\ state.groups = [name \in names |-> {}]
      /\ state.roles = migrated.roles /\ state.defaults = migrated.defaults
  BY DEF As_broker
<1>4. own.name = GroupOf(files, u) /\ own.name \in names
  <2>1. own \in migrated.groups
    BY <1>1
  <2>2. own.name = GroupOf(files, u)
    BY DEF GroupNamed
  <2> HIDE DEF own
  <2> QED
    BY <2>1, <2>2
<1>5. migrated.roles[Role_name(u)] = Deduplicate_acls(Acls_of(files.acls, u))
  BY MigratedParts
<1>6. \A key \in {"publishClientSend", "publishClientReceive", "subscribe", "unsubscribe"} :
         migrated.defaults[key] = FALSE
  BY MigratedParts
<1> HIDE DEF migrated, state, client, mine, own, names
<1>7. state.client.roles = {role}
  BY <1>2, <1>3 DEF AccountOf
<1>8. state.client.groups = {group}
  BY <1>1, <1>3, <1>4
<1>9. state.groups[group.name] = {}
  BY <1>3, <1>4
<1>10. Default(state, action) = "deny"
  BY <1>3, <1>6 DEF Default, Verdict, ACLType
<1> QED
  BY <1>3, <1>5, <1>7, <1>8, <1>9, <1>10 DEF HasOneRole, state, migrated

\* The lines that the conversion puts into an account's role.
Role_lines(lines, username) == {i \in DOMAIN lines : Concerns(lines, username, i)}

\* One denial is enough.
Decides(accesses) == Verdict(accesses # {} /\ "deny" \notin accesses)

(* Access types of a line as DynSec and as Mosquitto's ACL file have them.   *)
LEMMA SameAccesses ==
    ASSUME NEW access \in DOMAIN Access_types, NEW action \in DOMAIN Permitting
    PROVE  /\ action \in ACLType
           /\ action \in Access_types[access] <=> access \in {"deny"} \cup Permitting[action]
<1>1. access \in {"read", "write", "readwrite", "deny"}
  BY DEF Access_types
<1>2. action \in {"publishClientSend", "publishClientReceive"}
  BY DEF Permitting
<1>3. /\ Access_types["read"] = {"publishClientReceive", "subscribePattern", "unsubscribePattern"}
      /\ Access_types["write"] = {"publishClientSend"}
      /\ Access_types["readwrite"] = {"publishClientSend", "publishClientReceive",
                                     "subscribePattern", "unsubscribePattern"}
      /\ Access_types["deny"] = {"publishClientSend", "publishClientReceive",
                                "subscribePattern", "unsubscribePattern"}
  BY DEF Access_types
<1>4. /\ Permitting["publishClientSend"] = {"write", "readwrite"}
      /\ Permitting["publishClientReceive"] = {"read", "readwrite"}
  BY DEF Permitting
<1>5. action \in ACLType
  BY <1>2 DEF ACLType
<1>6. CASE action = "publishClientSend"
  BY <1>1, <1>3, <1>4, <1>5, <1>6
<1>7. CASE action = "publishClientReceive"
  BY <1>1, <1>3, <1>4, <1>5, <1>7
<1> QED
  BY <1>2, <1>6, <1>7

(* The role permits what the lines permit and no line denies.                *)
LEMMA AccountDecides ==
    ASSUME NEW files \in LegacyFiles, Usernames(files.owners) = Usernames(files.passwords),
           NEW u \in Usernames(files.passwords), u # "admin", NEW q,
           q.action \in DOMAIN Permitting
    PROVE  Evaluate_permission(As_broker(Migrated(files), u), q)
             = Decides(Said(files.acls, Role_lines(files.acls, u), q))
<1> DEFINE lines == files.acls
           state == As_broker(Migrated(files), u)
           role == [name |-> Role_name(u), priority |-> 50]
           group == [name |-> GroupOf(files, u), priority |-> 50]
           set == Acls_of(lines, u)
           acls == Deduplicate_acls(set)
           permitted == /\ \E i \in OfAction(acls, q.action) : Applies(acls[i], q)
                        /\ \A i \in OfAction(acls, q.action) :
                              Applies(acls[i], q) => acls[i].allow
           mine == Role_lines(lines, u)
           bears(i) == /\ lines[i].access \in {"deny"} \cup Permitting[q.action]
                       /\ Applies([topic |-> lines[i].topic], q)
           said == Said(lines, mine, q)
<1>1. lines \in Seq(AclFileLines)
  BY FilesAssumption
<1>2. said = {lines[i].access : i \in {j \in mine : bears(j)}}
  BY DEF Said
<1>0. q.action \in ACLType
  <2>1. "deny" \in DOMAIN Access_types
    BY DEF Access_types
  <2> QED
    BY <2>1, SameAccesses
<1>3. /\ HasOneRole(state, role, group) /\ state.roles[role.name] = acls
      /\ Default(state, q.action) = "deny"
  BY <1>0, AccountAsBroker
<1>4. /\ \A acl : acl \in set
           <=> \E i \in DOMAIN lines : /\ Concerns(lines, u, i)
                                       /\ \E type \in Access_types[lines[i].access] :
                                             acl = AclOf(lines[i], type)
      /\ \A acl \in set : acl \in Acls /\ acl.priority = IF acl.allow THEN 10 ELSE 100
      /\ IsFiniteSet(set)
  BY <1>1, AclsOfLines
<1>5. \A i \in mine : /\ i \in DOMAIN lines /\ Concerns(lines, u, i)
                     /\ q.action \in Access_types[lines[i].access]
                           <=> lines[i].access \in {"deny"} \cup Permitting[q.action]
  <2>1. ASSUME NEW i \in mine PROVE lines[i].access \in DOMAIN Access_types
    <3>1. lines[i] \in AclFileLines /\ lines[i].word \in {"topic", "pattern"}
      BY <1>1 DEF Role_lines, Concerns, Rule
    <3>2. lines[i] \notin [word : {"user"}, name : Words] /\ lines[i] \notin [word : {Invalid}]
      BY <3>1 DEF Invalid
    <3> QED
      BY <3>1, <3>2 DEF AclFileLines
  <2> QED
    BY <2>1, SameAccesses DEF Role_lines
<1>16. \A i \in DOMAIN lines : Concerns(lines, u, i) => i \in mine
  BY DEF Role_lines
<1>17. \A i : bears(i) <=> /\ lines[i].access \in {"deny"} \cup Permitting[q.action]
                           /\ Applies([topic |-> lines[i].topic], q)
  OBVIOUS
<1> HIDE DEF lines, state, set, bears, said, mine
<1>6. acls \in Seq(set) /\ \A acl \in set : \E i \in 1 .. Len(acls) : acls[i] = acl
  BY <1>4, Deduplicated
<1> HIDE DEF acls
<1>7. \A i \in 1 .. Len(acls) : acls[i] \in set
  BY <1>6
<1>8. acls \in Seq(Acls) /\ DOMAIN acls = 1 .. Len(acls)
  <2>1. set \subseteq Acls
    BY <1>4
  <2> HIDE DEF Acls
  <2> QED
    BY <1>6, <2>1
<1>9. \A i \in 1 .. Len(acls) : Ranked(acls[i])
  BY <1>4, <1>7 DEF Ranked
<1>10. Evaluate_permission(state, q) = Verdict(permitted)
  BY <1>3, <1>8, <1>9, OneRoleDecides
<1>11. \A line, type : /\ AclOf(line, type).acltype = type
                       /\ AclOf(line, type).allow = (line.access # "deny")
                       /\ Applies(AclOf(line, type), q) <=> Applies([topic |-> line.topic], q)
  BY DEF AclOf, Applies
<1>12. ASSUME NEW i \in OfAction(acls, q.action), Applies(acls[i], q)
       PROVE  \E j \in mine : bears(j) /\ acls[i].allow = (lines[j].access # "deny")
  <2>1. i \in 1 .. Len(acls) /\ acls[i].acltype = q.action
    BY <1>8 DEF OfAction
  <2>2. PICK j \in DOMAIN lines : /\ Concerns(lines, u, j)
                                  /\ \E type \in Access_types[lines[j].access] :
                                        acls[i] = AclOf(lines[j], type)
    BY <1>4, <1>7, <2>1
  <2>3. PICK type \in Access_types[lines[j].access] : acls[i] = AclOf(lines[j], type)
    BY <2>2
  <2>4. type = q.action
    BY <1>11, <2>1, <2>3
  <2>5. Applies([topic |-> lines[j].topic], q)
    BY <1>11, <1>12, <2>3
  <2>6. j \in mine /\ bears(j)
    BY <1>5, <1>16, <1>17, <2>2, <2>3, <2>4, <2>5
  <2> QED
    BY <1>11, <2>3, <2>6
<1>13. ASSUME NEW j \in mine, bears(j)
       PROVE  \E i \in OfAction(acls, q.action) :
                 Applies(acls[i], q) /\ acls[i].allow = (lines[j].access # "deny")
  <2> DEFINE acl == AclOf(lines[j], q.action)
  <2>1. acl \in set
    BY <1>4, <1>5, <1>13, <1>17
  <2>2. acl.acltype = q.action /\ acl.allow = (lines[j].access # "deny") /\ Applies(acl, q)
    BY <1>11, <1>13, <1>17
  <2> HIDE DEF acl
  <2>3. PICK i \in 1 .. Len(acls) : acls[i] = acl
    BY <1>6, <2>1
  <2>4. i \in OfAction(acls, q.action)
    BY <1>8, <2>2, <2>3 DEF OfAction
  <2> QED
    BY <2>2, <2>3, <2>4
<1>14. permitted <=> said # {} /\ "deny" \notin said
  <2>1. said # {} /\ "deny" \notin said
           <=> (\E j \in mine : bears(j)) /\ \A j \in mine : bears(j) => lines[j].access # "deny"
    BY <1>2
  <2> QED
    BY <1>12, <1>13, <2>1
<1> HIDE DEF permitted
<1>15. Verdict(permitted) = Decides(said)
  BY <1>14 DEF Verdict, Decides
<1> QED
  BY <1>10, <1>15 DEF state, lines, said, mine

(* An account's role has the lines of its section, the patterns and those    *)
(* that Mosquitto reads otherwise.                                           *)
LEMMA RoleSays ==
    ASSUME NEW lines, NEW u, NEW q
    PROVE  Said(lines, Role_lines(lines, u), q)
             = Said(lines, Own_lines(lines, u), q) \cup Said(lines, Pattern_lines(lines), q)
                  \cup Said(lines, Misread_lines(lines, u), q)
<1> DEFINE own == Own_lines(lines, u)
           patterns == Pattern_lines(lines)
           misread == Misread_lines(lines, u)
<1>1. Role_lines(lines, u) = own \cup patterns \cup misread
  <2>1. \A i : i \in own => i \in DOMAIN lines /\ lines[i].word = "topic" /\ Section(lines, i) = u
    BY DEF Own_lines
  <2>2. \A i : i \in patterns <=> i \in DOMAIN lines /\ lines[i].word = "pattern"
    BY DEF Pattern_lines
  <2>3. \A i : i \in misread <=> /\ i \in DOMAIN lines /\ lines[i].word = "topic"
                                /\ Section(lines, i) \in {NoSection, u} /\ i \notin own
    BY DEF Misread_lines
  <2>4. \A i : i \in Role_lines(lines, u)
                 <=> /\ i \in DOMAIN lines /\ lines[i].word \in {"topic", "pattern"}
                     /\ lines[i].word = "pattern" \/ Section(lines, i) \in {NoSection, u}
    BY DEF Role_lines, Concerns, Rule
  <2> HIDE DEF own, patterns, misread
  <2> QED
    BY <2>1, <2>2, <2>3, <2>4
<1> HIDE DEF own, patterns, misread
<1>2. Said(lines, own \cup patterns \cup misread, q)
        = Said(lines, own, q) \cup Said(lines, patterns, q) \cup Said(lines, misread, q)
  BY DEF Said
<1> QED
  BY <1>1, <1>2 DEF own, patterns, misread

(* The two decisions on a message, compared.                                 *)
LEMMA DecisionsCompared ==
    ASSUME NEW lines, NEW u, NEW q
    PROVE  LET decided == Decides(Said(lines, Role_lines(lines, u), q))
               legacy == Legacy_decision(lines, u, q)
               own == Said(lines, Own_lines(lines, u), q)
               patterns == Said(lines, Pattern_lines(lines), q)
               misread == Said(lines, Misread_lines(lines, u), q)
           IN  /\ decided = "allow" /\ legacy = "deny" => misread \ {"deny"} # {}
               /\ decided = "deny" /\ legacy = "allow" => "deny" \in misread \cup patterns
               /\ "deny" \in own \cup patterns => decided = "deny"
<1> DEFINE own == Said(lines, Own_lines(lines, u), q)
           patterns == Said(lines, Pattern_lines(lines), q)
           misread == Said(lines, Misread_lines(lines, u), q)
           decisive == IF own # {} THEN own ELSE patterns
           all == Said(lines, Role_lines(lines, u), q)
<1>1. all = own \cup patterns \cup misread
  BY RoleSays
<1>2. Legacy_decision(lines, u, q) = Decides(decisive)
  BY DEF Legacy_decision, Decides
<1>3. \A accesses : /\ Decides(accesses) = "allow" <=> accesses # {} /\ "deny" \notin accesses
                    /\ Decides(accesses) = "deny" <=> ~ (accesses # {} /\ "deny" \notin accesses)
  BY DEF Decides, Verdict
<1> HIDE DEF own, patterns, misread, all
<1>4. Decides(all) = "allow" /\ Decides(decisive) = "deny" => misread \ {"deny"} # {}
  BY <1>1, <1>3
<1>5. Decides(all) = "deny" /\ Decides(decisive) = "allow" => "deny" \in misread \cup patterns
  BY <1>1, <1>3
<1>6. "deny" \in own \cup patterns => Decides(all) = "deny"
  BY <1>1, <1>3
<1> QED
  BY <1>2, <1>4, <1>5, <1>6 DEF own, patterns, misread, all

(* Whatever the files, what migrate_dynsec.py writes keeps every account, in *)
(* one group, and differs from Mosquitto's reading of the ACL file only where*)
(* a line that is read otherwise, or a pattern's denial, bears on a message. *)
THEOREM MigrationIsFaithful == Spec => []MigrationKeepsDecisions
<1>1. ASSUME NEW files \in LegacyFiles, Migrate(files).exit = 0
      PROVE  LET state == Migrate(files).state
                 usernames == Usernames(files.passwords)
             IN  /\ {c.name : c \in state.clients} = usernames \cup {"admin"}
                 /\ \A u \in usernames \ {"admin"} :
                       /\ Cardinality({g \in state.groups : u \in g.clients}) = 1
                       /\ \A q \in LegacyQueries :
                             LET asked == [q EXCEPT !.username = <<u>>]
                                 decided == Evaluate_permission(As_broker(state, u), asked)
                                 legacy == Legacy_decision(files.acls, u, asked)
                                 own == Said(files.acls, Own_lines(files.acls, u), asked)
                                 patterns == Said(files.acls, Pattern_lines(files.acls), asked)
                                 misread == Said(files.acls, Misread_lines(files.acls, u), asked)
                             IN  /\ decided = "allow" /\ legacy = "deny" => misread \ {"deny"} # {}
                                 /\ decided = "deny" /\ legacy = "allow" =>
                                       "deny" \in misread \cup patterns
                                 /\ "deny" \in own \cup patterns => decided = "deny"
  <2> DEFINE state == Migrated(files)
             usernames == Usernames(files.passwords)
  <2>1. Migrate(files).state = state /\ Usernames(files.owners) = usernames
    BY <1>1, Accepted
  <2>2. {c.name : c \in state.clients} = usernames \cup {"admin"}
    <3>1. PICK admin : /\ admin.name = "admin"
                       /\ state.clients = {admin} \cup {AccountOf(v) : v \in usernames}
      BY MigratedParts
    <3>2. \A v : AccountOf(v).name = v
      BY DEF AccountOf
    <3> HIDE DEF state, usernames
    <3> QED
      BY <3>1, <3>2
  <2>3. ASSUME NEW u \in usernames \ {"admin"}
        PROVE  Cardinality({g \in state.groups : u \in g.clients}) = 1
    <3>1. {g \in state.groups : u \in g.clients} = {GroupNamed(files, GroupOf(files, u))}
      BY <2>1, OneGroup
    <3> QED
      BY <3>1, FS_Singleton
  <2>4. ASSUME NEW u \in usernames \ {"admin"}, NEW q \in LegacyQueries
        PROVE  LET asked == [q EXCEPT !.username = <<u>>]
                   decided == Evaluate_permission(As_broker(state, u), asked)
                   legacy == Legacy_decision(files.acls, u, asked)
                   own == Said(files.acls, Own_lines(files.acls, u), asked)
                   patterns == Said(files.acls, Pattern_lines(files.acls), asked)
                   misread == Said(files.acls, Misread_lines(files.acls, u), asked)
               IN  /\ decided = "allow" /\ legacy = "deny" => misread \ {"deny"} # {}
                   /\ decided = "deny" /\ legacy = "allow" =>
                         "deny" \in misread \cup patterns
                   /\ "deny" \in own \cup patterns => decided = "deny"
    <3> DEFINE asked == [q EXCEPT !.username = <<u>>]
    <3>1. asked.action = q.action /\ q.action \in DOMAIN Permitting
      BY LegacyQueriesAssumption
    <3> HIDE DEF asked
    <3>2. asked.action \in DOMAIN Permitting
      BY <3>1
    <3>3. Evaluate_permission(As_broker(state, u), asked)
            = Decides(Said(files.acls, Role_lines(files.acls, u), asked))
      BY <2>1, <3>2, AccountDecides
    <3> HIDE DEF state
    <3> QED
      BY <3>3, DecisionsCompared DEF asked
  <2> HIDE DEF state
  <2> QED
    BY <2>1, <2>2, <2>3, <2>4
<1>2. MigrationKeepsDecisions
  BY <1>1 DEF MigrationKeepsDecisions
<1> QED
  BY <1>2, PTL

================================================================================
