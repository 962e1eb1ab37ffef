---------------------------- MODULE FoldTheorems ----------------------------
(***************************************************************************)
(* What holds of every turn of a loop over a sequence holds of its result. *)
(* A loop is FoldLeft (SequencesExt) with a body Op; the fact about it is  *)
(* an operator Rel, because the loops of the model change records of no    *)
(* particular type. A proof instantiates the module once for each loop and *)
(* fact.                                                                   *)
(***************************************************************************)
EXTENDS Integers, Sequences, SequencesExt, MinTheorems, TLAPS

CONSTANTS Op(_, _),           \* the body: from the value so far and an element
          Rel(_, _, _, _)     \* start, sequence, number of turns, value so far

Folded(b, s) == FoldLeft(Op, b, s)

\* FoldLeft takes the elements away from the end: g is the value for every set of
\* positions.
Values(g, b, s, n) ==
  g = [t \in SUBSET (1 .. n) |-> IF t = {} THEN b ELSE Op(g[t \ {Max(t)}], s[Max(t)])]

LEMMA MaxIsLast ==
  ASSUME NEW n \in Nat, NEW t \in SUBSET (1 .. n), n \in t
  PROVE  Max(t) = n
<1>1. \A y \in t : n >= y
  OBVIOUS
<1>2. \A x \in t : (\A y \in t : x >= y) => x = n
  OBVIOUS
<1> QED BY <1>1, <1>2 DEF Max

\* There is such a function for every number of positions.
LEMMA ValuesExist ==
  ASSUME NEW b, NEW s, NEW n \in Nat
  PROVE  \E g : Values(g, b, s, n)
<1> DEFINE T == {m \in Nat : \E g : Values(g, b, s, m)}
<1>1. 0 \in T
  <2> DEFINE g == [t \in SUBSET (1 .. 0) |-> b]
  <2>1. \A t \in SUBSET (1 .. 0) : t = {}
    OBVIOUS
  <2>2. Values(g, b, s, 0)
    BY <2>1 DEF Values
  <2> QED BY <2>2
<1>2. ASSUME NEW m \in Nat, NEW g, Values(g, b, s, m)
      PROVE  \E h : Values(h, b, s, m + 1)
  <2> DEFINE h == [t \in SUBSET (1 .. (m + 1)) |->
                     IF m + 1 \in t THEN Op(g[t \ {m + 1}], s[m + 1]) ELSE g[t]]
             k == [t \in SUBSET (1 .. (m + 1)) |->
                     IF t = {} THEN b ELSE Op(h[t \ {Max(t)}], s[Max(t)])]
  <2>1. ASSUME NEW t \in SUBSET (1 .. (m + 1)) PROVE h[t] = k[t]
    <3>1. CASE m + 1 \in t
      <4>1. Max(t) = m + 1
        BY <3>1, MaxIsLast
      <4>2. t \ {m + 1} \in SUBSET (1 .. (m + 1)) /\ m + 1 \notin t \ {m + 1}
        OBVIOUS
      <4>3. h[t \ {m + 1}] = g[t \ {m + 1}]
        BY <4>2
      <4>4. h[t] = Op(g[t \ {m + 1}], s[m + 1])
        BY <3>1
      <4> HIDE DEF h
      <4> QED BY <3>1, <4>1, <4>3, <4>4
    <3>2. CASE m + 1 \notin t
      <4>1. t \in SUBSET (1 .. m)
        BY <3>2
      <4>2. h[t] = g[t]
        BY <3>2
      <4>3. t \ {Max(t)} \in SUBSET (1 .. (m + 1)) /\ m + 1 \notin t \ {Max(t)}
        BY <3>2
      <4>4. h[t \ {Max(t)}] = g[t \ {Max(t)}]
        BY <4>3
      <4>5. g[t] = IF t = {} THEN b ELSE Op(g[t \ {Max(t)}], s[Max(t)])
        BY <1>2, <4>1 DEF Values
      <4> HIDE DEF h
      <4> QED BY <4>2, <4>4, <4>5
    <3> QED BY <3>1, <3>2
  <2>2. h = k
    <3> HIDE DEF T
    <3> QED BY <2>1
  <2>3. Values(h, b, s, m + 1)
    BY <2>2 DEF Values
  <2> QED BY <2>3
<1>3. T = Nat
  <2>1. T \in SUBSET Nat /\ \A m \in T : m + 1 \in T
    BY <1>2
  <2> HIDE DEF T
  <2> QED BY <1>1, <2>1, NatBySuccessor
<1> QED BY <1>3

\* A fact that holds before the loop, and that every turn keeps, holds after it.
LEMMA FoldKeeps ==
  ASSUME NEW b, NEW E, NEW s \in Seq(E),
         Rel(b, s, 0, b),
         \A n \in Nat : \A x :
           n + 1 <= Len(s) /\ Rel(b, s, n, x) => Rel(b, s, n + 1, Op(x, s[n + 1]))
  PROVE  Rel(b, s, Len(s), Folded(b, s))
<1> DEFINE g == CHOOSE h : Values(h, b, s, Len(s))
           T == {n \in Nat : n <= Len(s) => Rel(b, s, n, g[1 .. n])}
<1>1. Len(s) \in Nat /\ DOMAIN s = 1 .. Len(s)
  OBVIOUS
<1>2. Values(g, b, s, Len(s))
  BY <1>1, ValuesExist
<1>3. Folded(b, s) = g[1 .. Len(s)]
  BY <1>1, Zenon DEF Folded, FoldLeft, MapThenFoldSet, Values
<1> HIDE DEF g
<1>4. 0 \in T
  <2>1. 1 .. 0 = {} /\ {} \in SUBSET (1 .. Len(s))
    OBVIOUS
  <2>2. g[{}] = b
    BY <1>2, <2>1 DEF Values
  <2> QED BY <2>1, <2>2
<1>5. ASSUME NEW n \in Nat, n + 1 <= Len(s), Rel(b, s, n, g[1 .. n])
      PROVE  Rel(b, s, n + 1, g[1 .. (n + 1)])
  <2>1. /\ 1 .. (n + 1) \in SUBSET (1 .. Len(s))
        /\ 1 .. (n + 1) # {}
        /\ (1 .. (n + 1)) \ {n + 1} = 1 .. n
    <3> HIDE DEF T
    <3>1. \A k : k \in 1 .. (n + 1) => k \in 1 .. Len(s)
      BY <1>1, <1>5
    <3>2. \A k : k \in 1 .. n <=> k \in (1 .. (n + 1)) \ {n + 1}
      OBVIOUS
    <3>3. 1 \in 1 .. (n + 1)
      OBVIOUS
    <3> QED BY <3>1, <3>2, <3>3
  <2>2. Max(1 .. (n + 1)) = n + 1
    BY MaxIsLast
  <2> DEFINE I == 1 .. (n + 1)
  <2>3. g[I] = IF I = {} THEN b ELSE Op(g[I \ {Max(I)}], s[Max(I)])
    <3>1. I \in SUBSET (1 .. Len(s))
      BY <2>1
    <3> HIDE DEF I
    <3> QED BY <1>2, <3>1 DEF Values
  <2>4. g[1 .. (n + 1)] = Op(g[1 .. n], s[n + 1])
    BY <2>1, <2>2, <2>3
  <2> QED BY <1>5, <2>4
<1>6. T = Nat
  <2>1. T \in SUBSET Nat
    OBVIOUS
  <2>2. \A n \in T : n + 1 \in T
    BY <1>1, <1>5
  <2> HIDE DEF T
  <2> QED BY <1>4, <2>1, <2>2, NatBySuccessor
<1> QED BY <1>1, <1>3, <1>6
=============================================================================
