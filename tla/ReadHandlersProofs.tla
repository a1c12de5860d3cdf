-------------------------- MODULE ReadHandlersProofs --------------------------
(***************************************************************************)
(* Proofs about ReadHandlers: for every number of reads and events, every  *)
(* set of topics and any number of outages, an export is a complete prefix *)
(* of the audit trail, an overview agrees with itself, and the verdict     *)
(* that comes with a history covers all the events that it shows.          *)
(*                                                                         *)
(* The first invariant, IInv, is about exports and overviews.  The second, *)
(* HInv, is about histories and is proved on top of it: it needs to know   *)
(* what the query of a history selects, which Passing computes recursively *)
(* along the log.  Facts about it are proved by minimal counterexample: a  *)
(* set of numbers that is not empty has a least element.                   *)
(***************************************************************************)
EXTENDS ReadHandlers, WellFoundedInduction, TLAPS

-------------------------------------------------------------------------------
(* Prefixes. *)

LEMMA PrefixElements ==
    ASSUME NEW S, NEW s \in Seq(S), NEW t \in Seq(S)
    PROVE  IsPrefix(s, t) <=> Len(s) <= Len(t) /\ \A i \in 1 .. Len(s) : s[i] = t[i]
<1>1. Len(s) <= Len(t) =>
          (SubSeq(s, 1, Len(s)) = SubSeq(t, 1, Len(s)) <=> \A i \in 1 .. Len(s) : s[i] = t[i])
  OBVIOUS
<1> QED
  BY <1>1 DEF IsPrefix

(* A prefix of the log stays one when the log grows.                         *)
LEMMA PrefixAppend ==
    ASSUME NEW S, NEW s \in Seq(S), NEW t \in Seq(S), NEW e \in S, IsPrefix(s, t)
    PROVE  IsPrefix(s, Append(t, e))
<1>1. Append(t, e) \in Seq(S) /\ Len(Append(t, e)) = Len(t) + 1
  OBVIOUS
<1>2. \A i \in 1 .. Len(t) : Append(t, e)[i] = t[i]
  OBVIOUS
<1>3. Len(s) <= Len(t) /\ \A i \in 1 .. Len(s) : s[i] = t[i]
  BY PrefixElements
<1>4. Len(s) <= Len(Append(t, e)) /\ \A i \in 1 .. Len(s) : s[i] = Append(t, e)[i]
  <2>1. Len(s) \in Nat /\ Len(t) \in Nat
    OBVIOUS
  <2>2. \A i \in 1 .. Len(s) : i \in 1 .. Len(t)
    BY <1>3, <2>1
  <2> QED
    BY <1>1, <1>2, <1>3, <2>1, <2>2
<1> QED
  BY <1>1, <1>4, PrefixElements

LEMMA PrefixReflexive ==
    ASSUME NEW S, NEW s \in Seq(S)
    PROVE  IsPrefix(s, s)
BY PrefixElements

-------------------------------------------------------------------------------
(* What a history lists. *)

LEMMA BelowIsWellFounded ==
    \E R : IsWellFoundedOn(R, Nat) /\ \A x, y \in Nat : y < x => <<y, x>> \in R
<1>1. IsWellFoundedOn(OpToRel(<, Nat), Nat)
  BY NatLessThanWellFounded
<1>2. \A x, y \in Nat : y < x => <<y, x>> \in OpToRel(<, Nat)
  BY DEF OpToRel
<1> QED
  BY <1>1, <1>2, Zenon

(* A set of numbers that is not empty has a least element.                   *)
LEMMA LeastElement ==
    ASSUME NEW T, T \subseteq Nat, T # {}
    PROVE  \E x \in T : \A y \in T : x <= y
<1>1. PICK R : IsWellFoundedOn(R, Nat) /\ \A x, y \in Nat : y < x => <<y, x>> \in R
  BY BelowIsWellFounded
<1>2. PICK x \in T : \A y \in T : ~ (<<y, x>> \in R)
  BY <1>1, WFMin
<1>3. ASSUME NEW y \in T PROVE x <= y
  <2>1. x \in Nat /\ y \in Nat /\ ~ (<<y, x>> \in R)
    BY <1>2
  <2>2. ~ (y < x)
    BY <1>1, <2>1, Zenon
  <2> QED
    BY <2>1, <2>2
<1> QED
  BY <1>3

(* The function that Passing computes, for the first n events.               *)
IsUpto(g, s, f, n) ==
    g = [i \in 0 .. n |-> IF i = 0 THEN <<>>
                          ELSE IF s[i] \in f THEN Append(g[i - 1], s[i]) ELSE g[i - 1]]

LEMMA UptoExists ==
    ASSUME NEW s, NEW f, NEW N \in Nat
    PROVE  \E g : IsUpto(g, s, f, N)
<1> DEFINE T == {n \in Nat : ~ \E g : IsUpto(g, s, f, n)}
<1>1. ASSUME T # {} PROVE FALSE
  <2>1. PICK n \in T : \A y \in T : n <= y
    <3>1. T \subseteq Nat
      OBVIOUS
    <3> HIDE DEF T
    <3> QED
      BY <1>1, <3>1, LeastElement
  <2>2. CASE n = 0
    <3>1. IsUpto([i \in 0 .. 0 |-> <<>>], s, f, 0)
      BY DEF IsUpto
    <3> QED
      BY <2>1, <2>2, <3>1
  <2>3. CASE n # 0
    <3>1. n - 1 \in Nat /\ n - 1 \notin T
      BY <2>1, <2>3
    <3>2. PICK g : IsUpto(g, s, f, n - 1)
      BY <3>1
    <3> DEFINE last == IF s[n] \in f THEN Append(g[n - 1], s[n]) ELSE g[n - 1]
               h == [i \in 0 .. n |-> IF i < n THEN g[i] ELSE last]
    <3>3. ASSUME NEW i \in 0 .. n
          PROVE  h[i] = IF i = 0 THEN <<>>
                        ELSE IF s[i] \in f THEN Append(h[i - 1], s[i]) ELSE h[i - 1]
      <4>1. CASE i < n
        <5>1. i \in 0 .. n - 1 /\ h[i] = g[i] /\ (i # 0 => h[i - 1] = g[i - 1])
          BY <3>1, <4>1
        <5> HIDE DEF h
        <5> QED
          BY <3>2, <5>1 DEF IsUpto
      <4>2. CASE i = n
        <5>1. h[i] = last /\ h[i - 1] = g[i - 1] /\ i # 0
          BY <3>1, <4>2, <2>3
        <5> HIDE DEF h
        <5> QED
          BY <4>2, <5>1
      <4> QED
        BY <4>1, <4>2, <2>1
    <3>4. IsUpto(h, s, f, n)
      <4>1. h = [i \in 0 .. n |-> h[i]]
        OBVIOUS
      <4> HIDE DEF h
      <4> QED
        BY <3>3, <4>1 DEF IsUpto
    <3> QED
      BY <2>1, <3>4
  <2> QED
    BY <2>2, <2>3
<1> QED
  BY <1>1

(* The places that the events of a selection have in the log.                *)
IsListing(p, s, f, n, at) ==
    /\ at \in [1 .. Len(p) -> 1 .. n]
    /\ \A k \in 1 .. Len(p) : p[k] = s[at[k]]
    /\ \A k, l \in 1 .. Len(p) : k < l => at[k] < at[l]
    /\ \A i \in 1 .. n : s[i] \in f => \E k \in 1 .. Len(p) : at[k] = i

LEMMA PassingPlaces ==
    ASSUME NEW S, NEW s \in Seq(S), NEW f
    PROVE  /\ Passing(s, f) \in Seq(S)
           /\ \E at : IsListing(Passing(s, f), s, f, Len(s), at)
<1> DEFINE N == Len(s)
           g == CHOOSE h : IsUpto(h, s, f, N)
<1>1. N \in Nat
  OBVIOUS
<1>2. IsUpto(g, s, f, N)
  BY <1>1, UptoExists
<1>3. Passing(s, f) = g[N]
  BY DEF Passing, IsUpto
<1> HIDE DEF g, N
<1>4. /\ g[0] = <<>>
      /\ \A i \in 1 .. N : g[i] = IF s[i] \in f THEN Append(g[i - 1], s[i]) ELSE g[i - 1]
  <2>1. \A i \in 0 .. N : g[i] = IF i = 0 THEN <<>>
                                 ELSE IF s[i] \in f THEN Append(g[i - 1], s[i]) ELSE g[i - 1]
    BY <1>2 DEF IsUpto
  <2> QED
    BY <1>1, <2>1
<1> DEFINE T == {n \in 0 .. N : ~ (g[n] \in Seq(S) /\ \E at : IsListing(g[n], s, f, n, at))}
<1>5. ASSUME T # {} PROVE FALSE
  <2>1. PICK n \in T : \A y \in T : n <= y
    <3>1. T \subseteq Nat
      BY <1>1
    <3> HIDE DEF T
    <3> QED
      BY <1>5, <3>1, LeastElement
  <2>2. CASE n = 0
    <3>1. g[0] \in Seq(S) /\ Len(g[0]) = 0
      BY <1>4
    <3>2. IsListing(g[0], s, f, 0, [k \in {} |-> k])
      BY <3>1 DEF IsListing
    <3> QED
      BY <2>1, <2>2, <3>1, <3>2
  <2>3. CASE n # 0
    <3>1. n - 1 \in 0 .. N /\ n \in 1 .. N /\ n - 1 \notin T
      BY <1>1, <2>1, <2>3
    <3>2. PICK at : g[n - 1] \in Seq(S) /\ IsListing(g[n - 1], s, f, n - 1, at)
      BY <3>1
    <3>3. s[n] \in S
      BY <3>1 DEF N
    <3>4. CASE s[n] \in f
      <4> DEFINE p == g[n - 1]
                 q == Append(p, s[n])
                 to == [k \in 1 .. Len(p) + 1 |-> IF k <= Len(p) THEN at[k] ELSE n]
      <4>1. g[n] = q
        BY <1>4, <3>1, <3>4
      <4>2. /\ q \in Seq(S) /\ Len(q) = Len(p) + 1 /\ Len(p) \in Nat
            /\ \A k \in 1 .. Len(p) : q[k] = p[k]
            /\ q[Len(p) + 1] = s[n]
        BY <3>2, <3>3
      <4> HIDE DEF p, q
      <4>3. IsListing(p, s, f, n - 1, at)
        BY <3>2 DEF p
      <4>4. to \in [1 .. Len(q) -> 1 .. n]
        BY <1>1, <3>1, <4>2, <4>3 DEF IsListing
      <4>5. \A k \in 1 .. Len(q) : q[k] = s[to[k]]
        BY <4>2, <4>3 DEF IsListing
      <4>6. \A k, l \in 1 .. Len(q) : k < l => to[k] < to[l]
        <5>1. ASSUME NEW k \in 1 .. Len(q), NEW l \in 1 .. Len(q), k < l PROVE to[k] < to[l]
          <6>1. CASE l <= Len(p)
            <7>1. k \in 1 .. Len(p) /\ l \in 1 .. Len(p) /\ to[k] = at[k] /\ to[l] = at[l]
              BY <4>2, <5>1, <6>1
            <7> HIDE DEF to
            <7> QED
              BY <4>3, <5>1, <7>1 DEF IsListing
          <6>2. CASE l = Len(p) + 1
            <7>1. k \in 1 .. Len(p) /\ to[k] = at[k] /\ to[l] = n
              BY <4>2, <5>1, <6>2
            <7>2. at[k] \in 1 .. n - 1
              BY <4>3, <7>1 DEF IsListing
            <7> HIDE DEF to
            <7> QED
              BY <3>1, <1>1, <7>1, <7>2
          <6> QED
            BY <4>2, <6>1, <6>2
        <5> QED
          BY <5>1
      <4>7. \A i \in 1 .. n : s[i] \in f => \E k \in 1 .. Len(q) : to[k] = i
        <5>1. ASSUME NEW i \in 1 .. n, s[i] \in f PROVE \E k \in 1 .. Len(q) : to[k] = i
          <6>1. CASE i = n
            <7>1. Len(p) + 1 \in 1 .. Len(q) /\ to[Len(p) + 1] = n
              BY <4>2
            <7> HIDE DEF to
            <7> QED
              BY <6>1, <7>1
          <6>2. CASE i # n
            <7>1. i \in 1 .. n - 1
              BY <1>1, <3>1, <6>2
            <7>2. PICK k \in 1 .. Len(p) : at[k] = i
              BY <4>3, <5>1, <7>1 DEF IsListing
            <7>3. k \in 1 .. Len(q) /\ to[k] = i
              BY <4>2, <7>2
            <7> HIDE DEF to
            <7> QED
              BY <7>3
          <6> QED
            BY <6>1, <6>2
        <5> QED
          BY <5>1
      <4>8. IsListing(q, s, f, n, to)
        BY <4>4, <4>5, <4>6, <4>7 DEF IsListing
      <4> QED
        BY <2>1, <4>1, <4>2, <4>8
    <3>5. CASE s[n] \notin f
      <4>1. g[n] = g[n - 1]
        BY <1>4, <3>1, <3>5
      <4>2. IsListing(g[n], s, f, n, at)
        BY <1>1, <3>1, <3>2, <3>5, <4>1 DEF IsListing
      <4> QED
        BY <2>1, <3>2, <4>1, <4>2
    <3> QED
      BY <3>4, <3>5
  <2> QED
    BY <2>2, <2>3
<1>6. N \notin T
  BY <1>5
<1> QED
  BY <1>1, <1>3, <1>6 DEF N

(* The listing of a history.  Whatever passes the filter and is not shown is *)
(* older than everything shown, and then the listing is full.                *)
LEMMA NewestOfPassing ==
    ASSUME NEW S, NEW s \in Seq(S), NEW f, NEW n \in Nat \ {0},
           \A i, j \in DOMAIN s : s[i] = s[j] => i = j
    PROVE  LET sel == Newest(Passing(s, f), n)
           IN  /\ sel \in Seq(S)
               /\ ToSet(sel) \subseteq {s[i] : i \in DOMAIN s}
               /\ \A i, j \in DOMAIN s :
                     s[i] \in f \ ToSet(sel)
                     => /\ Len(sel) = n
                        /\ s[j] \in ToSet(sel) => i < j
<1> DEFINE p == Passing(s, f)
           L == Len(p)
           a == IF L > n THEN L - n + 1 ELSE 1
           sel == Newest(p, n)
<1>1. p \in Seq(S)
  BY PassingPlaces
<1>2. PICK at : IsListing(p, s, f, Len(s), at)
  BY PassingPlaces
<1> HIDE DEF p
<1>3. L \in Nat /\ a \in 1 .. L + 1 /\ (L > n => L - a + 1 = n) /\ (L <= n => a = 1)
  BY <1>1
<1>4. /\ SubSeq(p, a, L) \in Seq(S)
      /\ Len(SubSeq(p, a, L)) = L - a + 1
      /\ \A k \in 1 .. L - a + 1 : SubSeq(p, a, L)[k] = p[a + k - 1]
  BY <1>1, <1>3
<1>5. /\ sel \in Seq(S)
      /\ Len(sel) = L - a + 1
      /\ \A k \in 1 .. L - a + 1 : sel[k] = p[L + 1 - k]
  <2> DEFINE t == SubSeq(p, a, L)
  <2>1. sel = [i \in 1 .. Len(t) |-> t[(Len(t) - i) + 1]]
    BY DEF Newest, Reverse
  <2>2. t \in Seq(S) /\ Len(t) = L - a + 1 /\ Len(t) \in Nat
        /\ \A k \in 1 .. L - a + 1 : t[k] = p[a + k - 1]
    <3> HIDE DEF L, a
    <3>1. t \in Seq(S) /\ Len(t) = L - a + 1
      BY <1>4
    <3>2. Len(t) \in Nat
      BY <3>1
    <3> QED
      BY <1>4, <3>1, <3>2
  <2> HIDE DEF t, sel, L, a
  <2>3. sel \in Seq(S) /\ Len(sel) = Len(t)
    <3> DEFINE N == Len(t)
               mirror(i) == t[(N - i) + 1]
    <3>1. ASSUME NEW i \in 1 .. N PROVE mirror(i) \in S
      <4>1. (N - i) + 1 \in 1 .. N
        BY <2>2
      <4>2. \A j \in 1 .. N : t[j] \in S
        BY <2>2
      <4> HIDE DEF N
      <4> QED
        BY <4>1, <4>2
    <3>2. N \in Nat /\ sel = [i \in 1 .. N |-> mirror(i)]
      BY <2>1, <2>2
    <3> HIDE DEF N, mirror
    <3>3. sel \in Seq(S) /\ Len(sel) = N
      BY <3>1, <3>2
    <3> QED
      BY <3>3 DEF N
  <2>4. ASSUME NEW k \in 1 .. L - a + 1 PROVE sel[k] = p[L + 1 - k]
    <3> DEFINE m == (Len(t) - k) + 1
    <3>1. L \in Nat /\ a \in Nat
      BY <1>3 DEF a, L
    <3>2. m \in 1 .. L - a + 1 /\ a + m - 1 = L + 1 - k
      BY <2>2, <3>1
    <3>3. sel[k] = t[m]
      BY <2>1, <2>2
    <3>4. t[m] = p[a + m - 1]
      BY <2>2, <3>2
    <3> QED
      BY <3>2, <3>3, <3>4
  <2> QED
    BY <2>2, <2>3, <2>4
<1> HIDE DEF sel, L, a
<1>6. \A k \in a .. L : p[k] \in ToSet(sel)
  <2>1. ASSUME NEW k \in a .. L PROVE p[k] \in ToSet(sel)
    <3>1. L + 1 - k \in 1 .. L - a + 1 /\ L + 1 - (L + 1 - k) = k
      BY <1>3
    <3>2. L + 1 - k \in DOMAIN sel /\ sel[L + 1 - k] = p[k]
      BY <1>5, <3>1
    <3> QED
      BY <3>2 DEF ToSet
  <2> QED
    BY <2>1
<1>7. \A e \in ToSet(sel) : \E k \in a .. L : e = p[k]
  <2>1. ASSUME NEW i \in DOMAIN sel PROVE \E k \in a .. L : sel[i] = p[k]
    <3>1. i \in 1 .. L - a + 1
      BY <1>5, <1>3
    <3>2. L + 1 - i \in a .. L /\ sel[i] = p[L + 1 - i]
      BY <1>3, <1>5, <3>1
    <3> QED
      BY <3>2
  <2> QED
    BY <2>1 DEF ToSet
<1>8. ASSUME NEW k \in 1 .. L
      PROVE  at[k] \in DOMAIN s /\ p[k] = s[at[k]]
  BY <1>2 DEF IsListing, L
<1>9. ToSet(sel) \subseteq {s[i] : i \in DOMAIN s}
  <2>1. \A k \in a .. L : k \in 1 .. L
    BY <1>3
  <2> QED
    BY <1>7, <1>8, <2>1
<1>10. ASSUME NEW i \in DOMAIN s, NEW j \in DOMAIN s, s[i] \in f \ ToSet(sel)
       PROVE  Len(sel) = n /\ (s[j] \in ToSet(sel) => i < j)
  <2>1. PICK k \in 1 .. L : at[k] = i
    BY <1>2, <1>10 DEF IsListing, L
  <2>2. k \notin a .. L
    BY <1>6, <1>8, <1>10, <2>1
  <2>3. Len(sel) = n
    BY <1>3, <1>5, <2>2
  <2>4. ASSUME s[j] \in ToSet(sel) PROVE i < j
    <3>1. PICK l \in a .. L : s[j] = p[l]
      BY <1>7, <2>4
    <3>2. l \in 1 .. L
      BY <1>3
    <3>3. at[l] = j
      BY <1>8, <3>1, <3>2
    <3>4. k < l
      BY <1>3, <2>2, <3>2
    <3> QED
      BY <1>2, <2>1, <3>2, <3>3, <3>4 DEF IsListing, L
  <2> QED
    BY <2>3, <2>4
<1> QED
  BY <1>5, <1>9, <1>10 DEF sel, p

-------------------------------------------------------------------------------
(* The invariant. *)

Places == {"idle", "dial", "wait", "stop", "audit", "recorded", "query", "verify", "answered",
           "failed"}

Typed ==
    /\ pc \in [Reads -> Places]
    /\ kind \in [Reads -> Kinds \cup {"none"}]
    /\ metrics \in [Reads -> SUBSET Topics]
    /\ reachable \in [Reads -> BOOLEAN]
    /\ status \in [Reads -> [state : {"none", "healthy", "degraded", "unavailable"},
                             reachable : BOOLEAN, shown : SUBSET Topics]]
    /\ settled \in [Reads -> SUBSET Events]
    /\ shown = [r \in Reads |-> shown[r]]
    /\ Audit!TypeOK

\* What the trail holds of a request.
InTrail(r) ==
    /\ settled[r] \subseteq Audit!Recorded
    /\ pc[r] = "recorded" => r \in Audit!Recorded
    /\ kind[r] = "export" /\ pc[r] \in {"query", "answered"} => r \in Audit!Recorded

\* An answered export.
Exported(r) ==
    kind[r] = "export" /\ pc[r] = "answered" =>
        /\ shown[r] \in Seq(Events)
        /\ IsPrefix(shown[r], log)
        /\ settled[r] \cup {r} \subseteq ToSet(shown[r])

\* What overview has decided is still true while it stops its network loop.
Decided(r) == reachable[r] => pc[r] = "stop" /\ Version \in metrics[r]

Coherent(r) ==
    /\ status[r].reachable => Version \in status[r].shown
    /\ status[r].state = "healthy" => status[r].shown = Topics

\* Only history and export query, only history asks for a verdict.
Started(r) ==
    /\ kind[r] = "none" <=> pc[r] = "idle"
    /\ pc[r] = "query" => kind[r] # "overview"
    /\ pc[r] = "verify" => kind[r] = "history"

IInv ==
    /\ Typed
    /\ acknowledged \subseteq Audit!Recorded
    /\ \A r \in Reads : InTrail(r) /\ Exported(r) /\ Decided(r) /\ Coherent(r) /\ Started(r)

-------------------------------------------------------------------------------
(* The trail under a step. *)

LEMMA RecordStep ==
    ASSUME Typed, NEW e \in Events, Audit!Record(e)
    PROVE  /\ Audit!TypeOK'
           /\ Audit!Recorded' = Audit!Recorded \cup {e}
           /\ log' = Append(log, e)
           /\ acknowledged' = acknowledged
<1>1. log \in Seq(Events) /\ log' = Append(log, e)
  BY DEF Typed, Audit!TypeOK, Audit!Record
<1>2. DOMAIN log' = DOMAIN log \cup {Len(log) + 1}
  BY <1>1
<1>3. (\A i \in DOMAIN log : log'[i] = log[i]) /\ log'[Len(log) + 1] = e
  BY <1>1
<1>4. Audit!Recorded' = Audit!Recorded \cup {e}
  BY <1>2, <1>3 DEF Audit!Recorded
<1>5. log' \in Seq(Events)
  BY <1>1
<1> QED
  BY <1>1, <1>4, <1>5 DEF Typed, Audit!TypeOK, Audit!Record

LEMMA AcknowledgeStep ==
    ASSUME Typed, NEW e \in Events, Audit!Acknowledge(e)
    PROVE  /\ Audit!TypeOK'
           /\ Audit!Recorded' = Audit!Recorded
           /\ log' = log
           /\ acknowledged' = acknowledged \cup {e} /\ e \in Audit!Recorded
BY DEF Typed, Audit!TypeOK, Audit!Acknowledge, Audit!Recorded

LEMMA SameTrail ==
    ASSUME Typed, UNCHANGED auditVars
    PROVE  Audit!TypeOK' /\ Audit!Recorded' = Audit!Recorded /\ log' = log
           /\ acknowledged' = acknowledged
BY DEF Typed, auditVars, Audit!TypeOK, Audit!Recorded

(* An answered export survives whatever the trail does.                      *)
LEMMA ExportKept ==
    ASSUME Typed, NEW r \in Reads, Exported(r), UNCHANGED <<kind[r], pc[r], shown[r], settled[r]>>,
           log' = log \/ \E e \in Events : log' = Append(log, e)
    PROVE  Exported(r)'
<1>1. CASE log' = log
  BY <1>1 DEF Exported
<1>2. CASE \E e \in Events : log' = Append(log, e)
  BY <1>2, PrefixAppend DEF Exported, Typed, Audit!TypeOK
<1> QED
  BY <1>1, <1>2

-------------------------------------------------------------------------------
LEMMA InitInvariant ==
    ASSUME Init
    PROVE  IInv
<1>1. Audit!TypeOK /\ Audit!Recorded = {} /\ acknowledged = {}
  BY DEF Init, Audit!Init, Audit!TypeOK, Audit!Recorded
<1> QED
  BY <1>1 DEF Init, IInv, Typed, Places, Kinds, Nothing, InTrail, Exported, Decided, Coherent,
              Started

LEMMA NextInvariant ==
    ASSUME IInv, [Next]_vars
    PROVE  IInv'
<1> USE DEF Goto, Places
<1>1. ASSUME NEW r \in Reads, NEW k \in Kinds, Receive(r, k) PROVE IInv'
  <2>1. Audit!TypeOK' /\ Audit!Recorded' = Audit!Recorded /\ log' = log
        /\ acknowledged' = acknowledged
    BY <1>1, SameTrail DEF IInv, Receive
  <2>2. First[k] \in {"dial", "query", "audit"} /\ (First[k] = "query" => k = "history")
    BY DEF First, Kinds
  <2>3. Typed'
    BY <1>1, <2>1, <2>2 DEF Receive, IInv, Typed, overviewVars, queryVars, Audit!TypeOK, Kinds
  <2>4. ASSUME NEW q \in Reads
        PROVE  (InTrail(q) /\ Exported(q) /\ Decided(q) /\ Coherent(q) /\ Started(q))'
    <3>1. CASE q = r
      BY <1>1, <2>1, <2>2, <3>1
         DEF Receive, IInv, Typed, overviewVars, queryVars, InTrail, Exported, Decided,
             Coherent, Started, Kinds
    <3>2. CASE q # r
      BY <1>1, <2>1, <3>2
         DEF Receive, IInv, Typed, overviewVars, queryVars, InTrail, Exported, Decided,
             Coherent, Started
    <3> QED
      BY <3>1, <3>2
  <2> QED
    BY <2>1, <2>3, <2>4 DEF IInv
<1>2. ASSUME NEW r \in Reads, Dial(r) \/ Wake(r) \/ Fails(r) PROVE IInv'
  <2>1. Audit!TypeOK' /\ Audit!Recorded' = Audit!Recorded /\ log' = log
        /\ acknowledged' = acknowledged
    BY <1>2, SameTrail DEF IInv, Dial, Wake, Fails
  <2>2. UNCHANGED <<kind, settled, metrics, status, shown>>
    BY <1>2 DEF Dial, Wake, Fails, requestVars, overviewVars, queryVars
  <2>3. /\ pc' \in [Reads -> Places] /\ \A q \in Reads \ {r} : pc'[q] = pc[q]
        /\ pc[r] # "idle" /\ pc'[r] \in {"wait", "stop", "failed"}
    BY <1>2 DEF Dial, Wake, Fails, IInv, Typed
  <2>4. /\ reachable' \in [Reads -> BOOLEAN]
        /\ \A q \in Reads \ {r} : reachable'[q] = reachable[q]
        /\ reachable'[r] => pc'[r] = "stop" /\ Version \in metrics[r]
    <3>1. CASE Wake(r)
      <4>1. reachable \in [Reads -> BOOLEAN] /\ pc \in [Reads -> Places]
        BY DEF IInv, Typed
      <4>2. /\ reachable' = [reachable EXCEPT ![r] = Version \in metrics[r]]
            /\ pc'[r] = "stop"
        BY <3>1, <4>1 DEF Wake
      <4>3. (Version \in metrics[r]) \in BOOLEAN
        OBVIOUS
      <4>4. reachable' \in [Reads -> BOOLEAN]
        BY <4>1, <4>2, <4>3, Zenon
      <4>5. \A q \in Reads \ {r} : reachable'[q] = reachable[q]
        BY <4>1, <4>2
      <4>6. reachable'[r] = (Version \in metrics[r])
        BY <4>1, <4>2, Zenon
      <4> QED
        BY <4>2, <4>4, <4>5, <4>6
    <3>2. CASE Dial(r) \/ Fails(r)
      <4>1. reachable' = reachable /\ pc[r] # "stop"
        BY <3>2 DEF Dial, Fails, overviewVars
      <4>2. ~reachable[r]
        BY <4>1 DEF IInv, Decided
      <4> QED
        BY <4>1, <4>2 DEF IInv, Typed
    <3> QED
      BY <1>2, <3>1, <3>2
  <2>5. Typed'
    BY <2>1, <2>2, <2>3, <2>4 DEF IInv, Typed
  <2>6. ASSUME NEW q \in Reads
        PROVE  (InTrail(q) /\ Exported(q) /\ Decided(q) /\ Coherent(q) /\ Started(q))'
    BY <2>1, <2>2, <2>3, <2>4 DEF IInv, InTrail, Exported, Decided, Coherent, Started
  <2> QED
    BY <2>1, <2>5, <2>6 DEF IInv
<1>3. ASSUME NEW r \in Reads, Stop(r) PROVE IInv'
  <2>1. Audit!TypeOK' /\ Audit!Recorded' = Audit!Recorded /\ log' = log
        /\ acknowledged' = acknowledged
    BY <1>3, SameTrail DEF IInv, Stop
  <2>2. Typed'
    BY <1>3, <2>1 DEF Stop, IInv, Typed, requestVars, queryVars
  <2>3. Coherent(r)'
    BY <1>3 DEF Stop, IInv, Typed, Decided, Coherent
  <2> QED
    BY <1>3, <2>1, <2>2, <2>3
       DEF Stop, IInv, Typed, requestVars, queryVars, InTrail, Exported, Decided, Coherent,
           Started
<1>4. ASSUME NEW r \in Reads, NetworkLoop(r) PROVE IInv'
  <2>1. Audit!TypeOK' /\ Audit!Recorded' = Audit!Recorded /\ log' = log
        /\ acknowledged' = acknowledged
    BY <1>4, SameTrail DEF IInv, NetworkLoop, OnConnect, OnMessage, Reconnect
  <2>2. /\ UNCHANGED <<pc, kind, filter, settled, reachable, status, shown, verified>>
        /\ metrics' \in [Reads -> SUBSET Topics]
        /\ \A q \in Reads : metrics[q] \subseteq metrics'[q]
    BY <1>4 DEF IInv, Typed, NetworkLoop, OnConnect, OnMessage, Reconnect, requestVars, queryVars
  <2> QED
    BY <2>1, <2>2 DEF IInv, Typed, InTrail, Exported, Decided, Coherent, Started
<1>5. ASSUME NEW r \in Reads, AuditRecords(r) PROVE IInv'
  <2>1. r \in Events
    BY DEF Events
  <2>2. Audit!TypeOK' /\ Audit!Recorded' = Audit!Recorded \cup {r} /\ log' = Append(log, r)
        /\ acknowledged' = acknowledged
    BY <1>5, <2>1, RecordStep DEF IInv, AuditRecords
  <2>3. Typed'
    BY <1>5, <2>2 DEF AuditRecords, IInv, Typed, requestVars, overviewVars, queryVars
  <2>4. ASSUME NEW q \in Reads
        PROVE  (InTrail(q) /\ Exported(q) /\ Decided(q) /\ Coherent(q) /\ Started(q))'
    <3>1. CASE q = r
      BY <1>5, <2>2, <3>1
         DEF AuditRecords, IInv, Typed, requestVars, overviewVars, queryVars, InTrail, Exported,
             Decided, Coherent, Started
    <3>2. CASE q # r
      <4>1. UNCHANGED <<kind[q], pc[q], shown[q], settled[q]>>
        BY <1>5, <3>2 DEF AuditRecords, IInv, Typed, requestVars, queryVars
      <4>2. Exported(q)'
        BY <2>1, <2>2, <4>1, ExportKept DEF IInv
      <4> QED
        BY <1>5, <2>2, <3>2, <4>1, <4>2
           DEF AuditRecords, IInv, Typed, overviewVars, InTrail, Decided, Coherent, Started
    <3> QED
      BY <3>1, <3>2
  <2> QED
    BY <2>2, <2>3, <2>4 DEF IInv
<1>6. ASSUME NEW r \in Reads, AuditReturns(r) PROVE IInv'
  <2>1. r \in Events
    BY DEF Events
  <2>2. Audit!TypeOK' /\ Audit!Recorded' = Audit!Recorded /\ log' = log
        /\ acknowledged' = acknowledged \cup {r} /\ r \in Audit!Recorded
    BY <1>6, <2>1, AcknowledgeStep DEF IInv, AuditReturns
  <2>3. Typed'
    BY <1>6, <2>2 DEF AuditReturns, IInv, Typed, requestVars, overviewVars, queryVars
  <2> QED
    BY <1>6, <2>2, <2>3
       DEF AuditReturns, IInv, Typed, requestVars, overviewVars, queryVars, InTrail, Exported,
           Decided, Coherent, Started
<1>7. ASSUME NEW r \in Reads, Query(r) PROVE IInv'
  <2>1. Audit!TypeOK' /\ Audit!Recorded' = Audit!Recorded /\ log' = log
        /\ acknowledged' = acknowledged
    BY <1>7, SameTrail DEF IInv, Query
  <2>2. Typed'
    BY <1>7, <2>1 DEF Query, IInv, Typed, requestVars, overviewVars
  <2>3. kind[r] = "export" => shown'[r] = log
    BY <1>7 DEF Query, IInv, Typed
  <2>4. Exported(r)'
    <3> SUFFICES ASSUME kind[r] = "export" PROVE Exported(r)'
      BY <1>7 DEF Exported, Query, requestVars
    <3>1. log \in Seq(Events) /\ IsPrefix(log, log)
      BY PrefixReflexive DEF IInv, Typed, Audit!TypeOK
    <3>2. settled[r] \cup {r} \subseteq ToSet(log)
      BY <1>7 DEF Query, IInv, InTrail, Audit!Recorded, ToSet
    <3> QED
      BY <1>7, <2>1, <2>3, <3>1, <3>2 DEF Exported, Query, requestVars
  <2>5. \A q \in Reads \ {r} : Exported(q)'
    BY <1>7, <2>1 DEF Query, IInv, Typed, requestVars, Exported
  <2>6. \A q \in Reads : (InTrail(q) /\ Decided(q) /\ Coherent(q) /\ Started(q))'
    <3>1. UNCHANGED <<kind, settled, metrics, reachable, status>>
      BY <1>7 DEF Query, requestVars, overviewVars
    <3>2. /\ \A q \in Reads \ {r} : pc'[q] = pc[q]
          /\ pc[r] = "query" /\ kind[r] \in {"history", "export"}
          /\ pc'[r] = IF kind[r] = "export" THEN "answered" ELSE "verify"
      BY <1>7 DEF Query, IInv, Typed, Kinds, Started
    <3> QED
      BY <2>1, <3>1, <3>2 DEF IInv, InTrail, Decided, Coherent, Started
  <2> QED
    BY <2>1, <2>2, <2>4, <2>5, <2>6 DEF IInv
<1>8. ASSUME NEW r \in Reads, Verify(r) PROVE IInv'
  <2>1. Audit!TypeOK' /\ Audit!Recorded' = Audit!Recorded /\ log' = log
        /\ acknowledged' = acknowledged
    BY <1>8, SameTrail DEF IInv, Verify
  <2>2. UNCHANGED <<kind, settled, metrics, reachable, status, shown>>
    BY <1>8 DEF Verify, requestVars, overviewVars
  <2>3. /\ pc' \in [Reads -> Places] /\ \A q \in Reads \ {r} : pc'[q] = pc[q]
        /\ pc[r] = "verify" /\ pc'[r] = "answered" /\ kind[r] # "export"
    BY <1>8 DEF Verify, IInv, Typed, Started
  <2> QED
    BY <2>1, <2>2, <2>3 DEF IInv, Typed, InTrail, Exported, Decided, Coherent, Started
<1>9. ASSUME NEW e \in Others, OtherRecords(e) PROVE IInv'
  <2>1. e \in Events
    BY DEF Events
  <2>2. UNCHANGED <<pc, kind, filter, settled, metrics, event, link, reachable, status, shown,
                    verified>>
    BY <1>9 DEF OtherRecords, requestVars, overviewVars, queryVars
  <2>3. /\ Audit!TypeOK' /\ Audit!Recorded \subseteq Audit!Recorded'
        /\ acknowledged' \subseteq Audit!Recorded'
        /\ log' = log \/ log' = Append(log, e)
    BY <1>9, <2>1, RecordStep, AcknowledgeStep DEF IInv, OtherRecords
  <2>4. \A q \in Reads : Exported(q)'
    BY <2>1, <2>2, <2>3, ExportKept DEF IInv
  <2> QED
    BY <2>2, <2>3, <2>4 DEF IInv, Typed, InTrail, Decided, Coherent, Started
<1>10. CASE Outage \/ Recover \/ UNCHANGED vars
  <2>1. Audit!TypeOK' /\ Audit!Recorded' = Audit!Recorded /\ log' = log
        /\ acknowledged' = acknowledged
    BY <1>10, SameTrail DEF IInv, Outage, Recover, vars
  <2>2. UNCHANGED <<pc, kind, filter, settled, metrics, reachable, status, shown, verified>>
    BY <1>10 DEF Outage, Recover, vars, requestVars, overviewVars, queryVars
  <2> QED
    BY <2>1, <2>2 DEF IInv, Typed, InTrail, Exported, Decided, Coherent, Started
<1> QED
  BY <1>1, <1>2, <1>3, <1>4, <1>5, <1>6, <1>7, <1>8, <1>9, <1>10 DEF Next, Handle

LEMMA Inductive == Spec => []IInv
BY InitInvariant, NextInvariant, PTL DEF Spec

-------------------------------------------------------------------------------
(* The second invariant, about histories. *)

Shapes ==
    /\ filter \in [Reads -> SUBSET Events]
    /\ shown \in [Reads -> Seq(Events)]
    /\ verified \in [Reads -> SUBSET Events]

\* No event is recorded twice.
Distinct == \A i, j \in DOMAIN log : log[i] = log[j] => i = j

\* A settled event that passes the filter and is not shown has given way.
GivesWay(r, i, j) ==
    log[i] \in (settled[r] \cap filter[r]) \ ToSet(shown[r])
    => /\ Len(shown[r]) = Limit
       /\ log[j] \in ToSet(shown[r]) => i < j

\* A history that has queried; its verdict, once it has one, is of a later trail.
Listed(r) ==
    kind[r] = "history" /\ pc[r] \in {"verify", "answered"} =>
        /\ ToSet(shown[r]) \subseteq Audit!Recorded
        /\ \A i, j \in DOMAIN log : GivesWay(r, i, j)
        /\ pc[r] = "answered" => ToSet(shown[r]) \subseteq verified[r]

\* A history goes to its query at once: it records no event of its own.
Straight(r) == kind[r] = "history" => pc[r] \in {"query", "verify", "answered", "failed"}

HInv == IInv /\ Shapes /\ Distinct /\ \A r \in Reads : Listed(r) /\ Straight(r)

LEMMA InitHistory ==
    ASSUME Init
    PROVE  HInv
<1>1. IInv
  BY InitInvariant
<1>2. log = <<>>
  BY DEF Init, Audit!Init
<1> QED
  BY <1>1, <1>2 DEF Init, HInv, Shapes, Distinct, Listed, Straight

(* What a new event leaves true.                                             *)
LEMMA HistoryAppend ==
    ASSUME HInv, NEW e \in Events, Audit!Record(e)
    PROVE  /\ Distinct'
           /\ \A r \in Reads :
                 Listed(r) /\ UNCHANGED <<kind[r], filter[r], settled[r], shown[r], verified[r], pc[r]>>
                 => Listed(r)'
<1>1. log \in Seq(Events) /\ log' = Append(log, e) /\ e \notin Audit!Recorded
  BY DEF HInv, IInv, Typed, Audit!TypeOK, Audit!Record
<1>2. Audit!Recorded' = Audit!Recorded \cup {e}
  BY RecordStep DEF HInv, IInv
<1>3. ASSUME NEW i \in DOMAIN log'
      PROVE  \/ i \in DOMAIN log /\ log'[i] = log[i] /\ log[i] \in Audit!Recorded
             \/ i = Len(log) + 1 /\ log'[i] = e
  BY <1>1 DEF Audit!Recorded
<1>4. Distinct'
  BY <1>1, <1>3 DEF HInv, Distinct
<1>5. ASSUME NEW r \in Reads, Listed(r),
             UNCHANGED <<kind[r], filter[r], settled[r], shown[r], verified[r], pc[r]>>
      PROVE  Listed(r)'
  <2> SUFFICES ASSUME kind[r] = "history", pc[r] \in {"verify", "answered"} PROVE Listed(r)'
    BY <1>5 DEF Listed
  <2>1. ToSet(shown[r]) \subseteq Audit!Recorded /\ settled[r] \subseteq Audit!Recorded
    BY <1>5 DEF Listed, HInv, IInv, InTrail
  <2>2. ASSUME NEW i \in DOMAIN log', NEW j \in DOMAIN log' PROVE GivesWay(r, i, j)'
    <3>1. CASE i \in DOMAIN log /\ log'[i] = log[i] /\ j \in DOMAIN log /\ log'[j] = log[j]
      BY <1>5, <3>1 DEF Listed, GivesWay
    <3>2. CASE log'[i] = e
      BY <1>1, <1>5, <2>1, <3>2 DEF GivesWay
    <3>3. CASE i \in DOMAIN log /\ log'[i] = log[i] /\ log'[j] = e
      <4>1. GivesWay(r, i, i)
        BY <1>5, <3>3 DEF Listed
      <4>2. e \notin ToSet(shown[r])
        BY <1>1, <2>1
      <4> QED
        BY <1>5, <3>3, <4>1, <4>2 DEF GivesWay
    <3> QED
      BY <1>3, <3>1, <3>2, <3>3
  <2> QED
    BY <1>2, <1>5, <2>1, <2>2 DEF Listed
<1> QED
  BY <1>4, <1>5

(* What a step that leaves the trail's events alone leaves true.             *)
LEMMA HistorySame ==
    ASSUME HInv, log' = log, Audit!Recorded' = Audit!Recorded
    PROVE  /\ Distinct'
           /\ \A r \in Reads :
                 /\ Listed(r)
                 /\ UNCHANGED <<kind[r], filter[r], settled[r], shown[r], verified[r]>>
                 /\ pc'[r] = pc[r] \/ pc'[r] \notin {"verify", "answered"}
                 => Listed(r)'
BY DEF HInv, Distinct, Listed, GivesWay

LEMMA NextStraight ==
    ASSUME HInv, [Next]_vars
    PROVE  \A r \in Reads : Straight(r)'
<1> USE DEF Goto, Places, HInv, IInv, Typed, Straight
<1>1. ASSUME NEW r \in Reads, NEW k \in Kinds, Receive(r, k) PROVE \A q \in Reads : Straight(q)'
  <2>1. First[k] = "query" \/ k # "history"
    BY DEF First, Kinds
  <2> QED
    BY <1>1, <2>1 DEF Receive
<1>2. ASSUME NEW r \in Reads,
             Dial(r) \/ Wake(r) \/ Stop(r) \/ Fails(r) \/ AuditRecords(r) \/ AuditReturns(r)
             \/ Query(r) \/ Verify(r) \/ NetworkLoop(r)
      PROVE  \A q \in Reads : Straight(q)'
  <2>1. kind' = kind
    BY <1>2 DEF Dial, Wake, Stop, Fails, AuditRecords, AuditReturns, Query, Verify, NetworkLoop,
                OnConnect, OnMessage, Reconnect, requestVars
  <2>2. \A q \in Reads \ {r} : pc'[q] = pc[q]
    BY <1>2 DEF Dial, Wake, Stop, Fails, AuditRecords, AuditReturns, Query, Verify, NetworkLoop,
                OnConnect, OnMessage, Reconnect
  <2>3. /\ pc'[r] = pc[r] \/ pc[r] \in {"dial", "wait", "stop", "audit", "recorded"}
           \/ pc'[r] \in {"verify", "answered", "failed"}
    BY <1>2 DEF Dial, Wake, Stop, Fails, AuditRecords, AuditReturns, Query, Verify, NetworkLoop,
                OnConnect, OnMessage, Reconnect
  <2> QED
    BY <2>1, <2>2, <2>3
<1>3. CASE UNCHANGED vars \/ Outage \/ Recover \/ \E e \in Others : OtherRecords(e)
  BY <1>3 DEF vars, Outage, Recover, OtherRecords, requestVars
<1> QED
  BY <1>1, <1>2, <1>3 DEF Next, Handle

LEMMA NextHistory ==
    ASSUME HInv, [Next]_vars
    PROVE  HInv'
<1>0. IInv' /\ Typed /\ \A r \in Reads : Straight(r)'
  BY NextInvariant, NextStraight DEF HInv, IInv
<1> USE DEF Goto, Places
<1>1. ASSUME NEW r \in Reads, NEW k \in Kinds, Receive(r, k) PROVE HInv'
  <2>1. Audit!Recorded' = Audit!Recorded /\ log' = log
    BY <1>0, <1>1, SameTrail DEF Receive
  <2>2. First[k] \in {"dial", "query", "audit"}
    BY DEF First, Kinds
  <2>3. UNCHANGED <<shown, verified>>
    BY <1>1 DEF Receive, queryVars
  <2>4. Shapes'
    <3>1. PICK x \in Filters : filter' = [filter EXCEPT ![r] = IF k = "history" THEN x ELSE Events]
      BY <1>1 DEF Receive
    <3>2. x \subseteq Events
      BY FiltersAssumption
    <3> QED
      BY <2>3, <3>1, <3>2 DEF HInv, Shapes
  <2>5. Listed(r)'
    BY <1>0, <1>1, <2>2 DEF Receive, Typed, Listed
  <2>6. ASSUME NEW q \in Reads \ {r} PROVE Listed(q)'
    <3>1. UNCHANGED <<kind[q], filter[q], settled[q], pc[q]>>
      BY <1>0, <1>1 DEF Receive, Typed, HInv, Shapes
    <3> QED
      BY <2>1, <2>3, <3>1, HistorySame DEF HInv
  <2> QED
    BY <1>0, <2>1, <2>4, <2>5, <2>6, HistorySame DEF HInv
<1>2. ASSUME NEW r \in Reads, Dial(r) \/ Wake(r) \/ Stop(r) \/ Fails(r) \/ NetworkLoop(r) PROVE HInv'
  <2>1. Audit!Recorded' = Audit!Recorded /\ log' = log
    BY <1>0, <1>2, SameTrail
       DEF Dial, Wake, Stop, Fails, NetworkLoop, OnConnect, OnMessage, Reconnect
  <2>2. UNCHANGED <<kind, filter, settled, shown, verified>>
    BY <1>2 DEF Dial, Wake, Stop, Fails, NetworkLoop, OnConnect, OnMessage, Reconnect,
                requestVars, queryVars
  <2>3. \A q \in Reads : pc'[q] = pc[q] \/ pc'[q] \notin {"verify", "answered"}
    BY <1>0, <1>2 DEF Typed, Dial, Wake, Stop, Fails, NetworkLoop, OnConnect, OnMessage, Reconnect
  <2> QED
    BY <1>0, <2>1, <2>2, <2>3, HistorySame DEF HInv, Shapes
<1>3. ASSUME NEW r \in Reads, AuditRecords(r) PROVE HInv'
  <2>1. r \in Events /\ Audit!Record(r)
    BY <1>3 DEF Events, AuditRecords
  <2>2. UNCHANGED <<kind, filter, settled, shown, verified>>
    BY <1>3 DEF AuditRecords, requestVars, queryVars
  <2>3. Listed(r)'
    BY <1>0, <1>3 DEF AuditRecords, Typed, Listed
  <2>4. \A q \in Reads \ {r} : pc'[q] = pc[q]
    BY <1>0, <1>3 DEF AuditRecords, Typed
  <2> QED
    BY <1>0, <2>1, <2>2, <2>3, <2>4, HistoryAppend DEF HInv, Shapes
<1>4. ASSUME NEW r \in Reads, AuditReturns(r) PROVE HInv'
  <2>1. r \in Events
    BY DEF Events
  <2>2. Audit!Recorded' = Audit!Recorded /\ log' = log
    BY <1>0, <1>4, <2>1, AcknowledgeStep DEF AuditReturns
  <2>3. UNCHANGED <<kind, filter, settled, shown, verified>>
    BY <1>4 DEF AuditReturns, requestVars, queryVars
  <2>4. Listed(r)'
    BY <1>0, <1>4, <2>3 DEF AuditReturns, Typed, Listed, Straight, HInv
  <2>5. \A q \in Reads \ {r} : pc'[q] = pc[q]
    BY <1>0, <1>4 DEF AuditReturns, Typed
  <2> QED
    BY <1>0, <2>2, <2>3, <2>4, <2>5, HistorySame DEF HInv, Shapes
<1>5. ASSUME NEW r \in Reads, Query(r) PROVE HInv'
  <2>1. Audit!Recorded' = Audit!Recorded /\ log' = log /\ log \in Seq(Events)
    BY <1>0, <1>5, SameTrail DEF Query, Typed, Audit!TypeOK
  <2>2. UNCHANGED <<kind, filter, settled, verified>>
    BY <1>5 DEF Query, requestVars
  <2> DEFINE sel == Newest(Passing(log, filter[r]), Limit)
  <2>3. /\ sel \in Seq(Events)
        /\ ToSet(sel) \subseteq Audit!Recorded
        /\ \A i, j \in DOMAIN log :
              log[i] \in filter[r] \ ToSet(sel)
              => /\ Len(sel) = Limit
                 /\ log[j] \in ToSet(sel) => i < j
    BY <2>1, NewestOfPassing, LimitAssumption DEF HInv, Distinct, Audit!Recorded
  <2>4. shown' = [shown EXCEPT ![r] = IF kind[r] = "export" THEN log ELSE sel]
    BY <1>5 DEF Query
  <2> HIDE DEF sel
  <2>5. Shapes'
    BY <2>1, <2>2, <2>3, <2>4 DEF HInv, Shapes
  <2>6. Listed(r)'
    <3> SUFFICES ASSUME kind[r] = "history" PROVE Listed(r)'
      BY <2>2 DEF Listed
    <3>1. shown'[r] = sel /\ pc'[r] = "verify"
      BY <1>0, <1>5, <2>4 DEF Query, Typed, HInv, Shapes
    <3> QED
      BY <2>1, <2>2, <2>3, <3>1 DEF Listed, GivesWay
  <2>7. \A q \in Reads \ {r} : pc'[q] = pc[q] /\ shown'[q] = shown[q]
    BY <1>0, <1>5, <2>4 DEF Query, Typed, HInv, Shapes
  <2> QED
    BY <1>0, <2>1, <2>2, <2>5, <2>6, <2>7, HistorySame DEF HInv
<1>6. ASSUME NEW r \in Reads, Verify(r) PROVE HInv'
  <2>1. Audit!Recorded' = Audit!Recorded /\ log' = log /\ Audit!Recorded \subseteq Events
    BY <1>0, <1>6, SameTrail DEF Verify, Typed, Audit!TypeOK, Audit!Recorded
  <2>2. UNCHANGED <<kind, filter, settled, shown>>
    BY <1>6 DEF Verify, requestVars
  <2>3. Shapes'
    BY <1>6, <2>1, <2>2 DEF HInv, Shapes, Verify
  <2>4. Listed(r)'
    <3>1. verified'[r] = Audit!Recorded /\ pc[r] = "verify"
      BY <1>6 DEF Verify, HInv, Shapes
    <3> QED
      BY <2>1, <2>2, <3>1 DEF HInv, Listed, GivesWay
  <2>5. \A q \in Reads \ {r} : pc'[q] = pc[q] /\ verified'[q] = verified[q]
    BY <1>0, <1>6 DEF Verify, Typed, HInv, Shapes
  <2> QED
    BY <1>0, <2>1, <2>2, <2>3, <2>4, <2>5, HistorySame DEF HInv
<1>7. ASSUME NEW e \in Others, OtherRecords(e) PROVE HInv'
  <2>1. e \in Events
    BY DEF Events
  <2>2. UNCHANGED <<pc, kind, filter, settled, shown, verified>>
    BY <1>7 DEF OtherRecords, requestVars, queryVars
  <2>3. CASE Audit!Record(e)
    BY <1>0, <2>1, <2>2, <2>3, HistoryAppend DEF HInv, Shapes
  <2>4. CASE Audit!Acknowledge(e)
    <3>1. Audit!Recorded' = Audit!Recorded /\ log' = log
      BY <1>0, <2>1, <2>4, AcknowledgeStep
    <3> QED
      BY <1>0, <2>2, <3>1, HistorySame DEF HInv, Shapes
  <2> QED
    BY <1>7, <2>3, <2>4 DEF OtherRecords
<1>8. CASE Outage \/ Recover \/ UNCHANGED vars
  <2>1. Audit!Recorded' = Audit!Recorded /\ log' = log
    BY <1>0, <1>8, SameTrail DEF Outage, Recover, vars
  <2>2. UNCHANGED <<pc, kind, filter, settled, shown, verified>>
    BY <1>8 DEF Outage, Recover, vars, requestVars, queryVars
  <2> QED
    BY <1>0, <2>1, <2>2, HistorySame DEF HInv, Shapes
<1> QED
  BY <1>1, <1>2, <1>3, <1>4, <1>5, <1>6, <1>7, <1>8 DEF Next, Handle

LEMMA HistoryInductive == Spec => []HInv
BY InitHistory, NextHistory, PTL DEF Spec

-------------------------------------------------------------------------------
(* Every export is a gap-free beginning of the trail that holds everything   *)
(* acknowledged before it was asked for, and its own event.                  *)
THEOREM ExportsAreComplete == Spec => []ExportIsCompletePrefix
<1>1. IInv => ExportIsCompletePrefix
  BY DEF IInv, Exported, ExportIsCompletePrefix
<1> QED
  BY <1>1, Inductive, PTL

(* No overview contradicts itself, whatever arrives between the decision and *)
(* the end of the network loop.                                              *)
THEOREM OverviewsAreCoherent == Spec => []OverviewIsCoherent
<1>1. IInv => OverviewIsCoherent
  BY DEF IInv, Coherent, OverviewIsCoherent
<1> QED
  BY <1>1, Inductive, PTL

(* The verdict of a history covers what it shows, although the two are read  *)
(* one after the other while other handlers append; and an event of the      *)
(* filter that was acknowledged before the request is only missing from a    *)
(* full list of newer ones.                                                  *)
THEOREM ShownIsVerified == Spec => []ShownEventsAreVerified
<1>1. HInv => ShownEventsAreVerified
  BY DEF HInv, Listed, GivesWay, ShownEventsAreVerified
<1> QED
  BY <1>1, HistoryInductive, PTL

-------------------------------------------------------------------------------
(* The variables that neither invariant needs. *)

Network ==
    /\ event \in [Reads -> BOOLEAN]
    /\ link \in [Reads -> {"none", "down", "up", "subscribed"}]
    /\ brokerUp \in BOOLEAN /\ outages \in 0 .. MaxOutages

LEMMA NextNetwork ==
    ASSUME Network, Typed, [Next]_vars
    PROVE  Network'
<1>1. UNCHANGED <<event, link, brokerUp, outages>> => Network'
  BY DEF Network
<1>2. ASSUME NEW r \in Reads, Handle(r) \/ Fails(r) \/ \E k \in Kinds : Receive(r, k) PROVE Network'
  <2>1. UNCHANGED brokerVars
    BY <1>2 DEF Handle, Fails, Receive, Dial, Wake, Stop, AuditRecords, AuditReturns, Query, Verify
  <2>2. CASE Stop(r)
    <3>1. event' = [event EXCEPT ![r] = FALSE] /\ link' = [link EXCEPT ![r] = "none"]
      BY <2>2 DEF Stop
    <3> QED
      BY <2>1, <3>1 DEF Network, brokerVars
  <2>3. CASE Dial(r)
    <3>1. event' = event /\ (link' = link \/ link' = [link EXCEPT ![r] = "up"])
      BY <2>3 DEF Dial
    <3> QED
      BY <2>1, <3>1 DEF Network, brokerVars
  <2>4. CASE ~Stop(r) /\ ~Dial(r)
    <3>1. event' = event /\ link' = link
      BY <1>2, <2>4 DEF Handle, Fails, Receive, Wake, AuditRecords, AuditReturns, Query, Verify,
                        overviewVars
    <3> QED
      BY <1>1, <2>1, <3>1 DEF brokerVars
  <2> QED
    BY <2>2, <2>3, <2>4
<1>3. ASSUME NEW r \in Reads, NetworkLoop(r) PROVE Network'
  <2>1. UNCHANGED brokerVars
    BY <1>3 DEF NetworkLoop, OnConnect, OnMessage, Reconnect
  <2>2. link' \in [Reads -> {"none", "down", "up", "subscribed"}]
    BY <1>3 DEF NetworkLoop, OnConnect, OnMessage, Reconnect, Network
  <2>3. event' \in [Reads -> BOOLEAN]
    <3>1. CASE OnConnect(r) \/ Reconnect(r)
      <4>1. event' = event \/ event' = [event EXCEPT ![r] = TRUE]
        BY <3>1 DEF OnConnect, Reconnect
      <4> QED
        BY <4>1 DEF Network
    <3>2. ASSUME NEW topic \in Topics, OnMessage(r, topic) PROVE event' \in [Reads -> BOOLEAN]
      <4> DEFINE full == event[r] \/ metrics'[r] = Topics
      <4>1. event' = [event EXCEPT ![r] = full]
        BY <3>2 DEF OnMessage
      <4>2. full \in BOOLEAN
        OBVIOUS
      <4> HIDE DEF full
      <4>3. event \in [Reads -> BOOLEAN]
        BY DEF Network
      <4> QED
        BY <4>1, <4>2, <4>3, Zenon
    <3> QED
      BY <1>3, <3>1, <3>2 DEF NetworkLoop
  <2> QED
    BY <2>1, <2>2, <2>3 DEF Network, brokerVars
<1>4. CASE \E e \in Others : OtherRecords(e)
  BY <1>1, <1>4 DEF OtherRecords, overviewVars, brokerVars
<1>5. CASE Outage
  <2>1. link' = [r \in Reads |-> IF link[r] = "none" THEN "none" ELSE "down"]
        /\ event' = event /\ brokerUp' = FALSE /\ outages' = outages + 1 /\ outages < MaxOutages
    BY <1>5 DEF Outage
  <2>2. link' \in [Reads -> {"none", "down", "up", "subscribed"}]
    BY <2>1
  <2>3. outages' \in 0 .. MaxOutages
    BY <2>1, MaxOutagesAssumption DEF Network
  <2> QED
    BY <2>1, <2>2, <2>3 DEF Network
<1>6. CASE Recover
  BY <1>6 DEF Recover, overviewVars, Network
<1>7. CASE UNCHANGED vars
  BY <1>1, <1>7 DEF vars, overviewVars, brokerVars
<1> QED
  BY <1>2, <1>3, <1>4, <1>5, <1>6, <1>7 DEF Next

(* Every variable keeps its type.                                            *)
THEOREM TypeCorrect == Spec => []TypeOK
<1>1. Init => Network
  BY MaxOutagesAssumption DEF Init, Network
<1>2. HInv /\ Network /\ [Next]_vars => Network'
  BY NextNetwork DEF HInv, IInv
<1>3. HInv /\ Network => TypeOK
  BY DEF HInv, IInv, Typed, Shapes, Network, TypeOK, Places
<1> QED
  BY <1>1, <1>2, <1>3, HistoryInductive, PTL DEF Spec

===============================================================================
