------------------------- MODULE MatrixExpandProofs -------------------------
(***************************************************************************)
(* That ExpandMatrix lists what it should, for any axes, exclude and       *)
(* include entries.                                                        *)
(*                                                                         *)
(* The list of combinations is followed by a list of picks: the pick at a  *)
(* place says which places of the axis lists the values of the combination *)
(* there were taken from.  Each pass builds the list of picks of the next  *)
(* one along with its combinations, so the invariant says of each phase    *)
(* which set of picks is listed, in order and without a gap, so far.       *)
(***************************************************************************)
EXTENDS MatrixExpand, FiniteSetTheorems, SequenceTheorems, TLAPS

Sequence(s) == \E S : s \in Seq(S)

\* The picks of MatrixExpand, for the strategy s.
PicksIn(s, D) ==
  {p \in [D -> UNION {DOMAIN s.axes[k] : k \in D}] :
     \A k \in D : p[k] \in DOMAIN s.axes[k]}

UpTo(s, n) == {k \in DOMAIN s.axes : \E m \in 1..n : Keys[m] = k}

OriginalOf(s) ==
  IF DOMAIN s.axes = {} THEN {}
  ELSE {p \in PicksIn(s, DOMAIN s.axes) :
          \A e \in ToSet(s.exclude) : \E k \in DOMAIN e : s.axes[k][p[k]] # e[k]}

\* The combination c has the values p picks.
Stands(s, c, p) == \A k \in DOMAIN p : k \in DOMAIN c /\ c[k] = s.axes[k][p[k]]

\* pick goes through S once, in the order of the combinations.
Ordered(n, pick, S) ==
  /\ pick \in [1..n -> S]
  /\ \A p \in S : \E i \in 1..n : pick[i] = p
  /\ \A i, j \in 1..n : i < j => Precedes(pick[i], pick[j])

\* The first n combinations are those of the picks in S, in order.
Lists(s, cs, n, pick, S) ==
  /\ Ordered(n, pick, S)
  /\ \A i \in 1..n : Stands(s, cs[i], pick[i])

Agrees(q, p) == \A k \in DOMAIN p : q[k] = p[k]

\* The picks over D that continue one of the first h picks.
Continuing(s, D, pick, h) == {q \in PicksIn(s, D) : \E i \in 1..h : Agrees(q, pick[i])}

\* The picks among the first h that no exclude entry matches.
Kept(s, pick, h) == {p \in OriginalOf(s) : \E i \in 1..h : pick[i] = p}

-----------------------------------------------------------------------------
(* Sequences and lists.                                                    *)

LEMMA EmptySequence == Sequence(<<>>) /\ Len(<<>>) = 0
<1>1. <<>> \in Seq({})
  OBVIOUS
<1> QED
  BY <1>1 DEF Sequence

LEMMA SingleSequence ==
  ASSUME NEW x
  PROVE  Sequence(<<x>>)
<1>1. <<x>> \in Seq({x})
  OBVIOUS
<1> QED
  BY <1>1 DEF Sequence

LEMMA LenOfSequence ==
  ASSUME NEW s, Sequence(s)
  PROVE  Len(s) \in Nat /\ DOMAIN s = 1..Len(s)
BY DEF Sequence

LEMMA Appended ==
  ASSUME NEW s, Sequence(s), NEW x
  PROVE  /\ Sequence(Append(s, x))
         /\ Len(Append(s, x)) = Len(s) + 1
         /\ \A i \in 1..Len(s) : Append(s, x)[i] = s[i]
         /\ Append(s, x)[Len(s) + 1] = x
<1>1. PICK S : s \in Seq(S)
  BY DEF Sequence
<1>2. s \in Seq(S \cup {x}) /\ x \in S \cup {x}
  BY <1>1
<1>3. Append(s, x) \in Seq(S \cup {x})
  BY <1>2
<1> QED
  BY <1>2, <1>3 DEF Sequence

LEMMA Joined ==
  ASSUME NEW s, Sequence(s), NEW t, Sequence(t)
  PROVE  /\ Sequence(s \o t)
         /\ Len(s \o t) = Len(s) + Len(t)
         /\ \A i \in 1..Len(s) : (s \o t)[i] = s[i]
         /\ \A i \in 1..Len(t) : (s \o t)[Len(s) + i] = t[i]
<1>1. PICK S : s \in Seq(S)
  BY DEF Sequence
<1>2. PICK T : t \in Seq(T)
  BY DEF Sequence
<1>3. s \in Seq(S \cup T) /\ t \in Seq(S \cup T)
  BY <1>1, <1>2
<1>4. s \o t \in Seq(S \cup T)
  BY <1>3
<1>5. Len(s \o t) = Len(s) + Len(t)
  BY <1>3
<1>6. \A i \in 1..Len(s) : (s \o t)[i] = s[i]
  BY <1>3
<1>7. \A i \in 1..Len(t) : (s \o t)[Len(s) + i] = t[i]
  BY <1>3
<1> QED
  BY <1>4, <1>5, <1>6, <1>7 DEF Sequence

LEMMA Crossings ==
  ASSUME NEW c, NEW key, NEW values, IsList(values)
  PROVE  /\ Sequence(Crossed(c, key, values))
         /\ Len(Crossed(c, key, values)) = Len(values)
         /\ \A n \in 1..Len(values) :
              /\ key \in DOMAIN Crossed(c, key, values)[n]
              /\ Crossed(c, key, values)[n][key] = values[n]
              /\ \A k \in DOMAIN c \ {key} :
                   /\ k \in DOMAIN Crossed(c, key, values)[n]
                   /\ Crossed(c, key, values)[n][k] = c[k]
<1> DEFINE C(n) == Merged([k \in {key} |-> values[n]], c)
<1>1. Crossed(c, key, values) = [n \in 1..Len(values) |-> C(n)]
  BY DEF Crossed
<1>2. \A n \in 1..Len(values) : Crossed(c, key, values)[n] = C(n)
  BY <1>1
<1>3. \A n : /\ key \in DOMAIN C(n) /\ C(n)[key] = values[n]
             /\ \A k \in DOMAIN c \ {key} : k \in DOMAIN C(n) /\ C(n)[k] = c[k]
  BY DEF Merged
<1>4. Len(values) \in Nat
  BY DEF IsList
<1> HIDE DEF C
<1>5. Crossed(c, key, values) \in Seq({C(n) : n \in 1..Len(values)})
  BY <1>1, <1>4
<1>6. Len(Crossed(c, key, values)) = Len(values)
  BY <1>1, <1>4
<1> QED
  BY <1>2, <1>3, <1>5, <1>6 DEF Sequence

-----------------------------------------------------------------------------
(* Picks.                                                                  *)

LEMMA PickOf ==
  ASSUME NEW s, NEW D, NEW p, p \in PicksIn(s, D)
  PROVE  /\ DOMAIN p = D /\ p = [k \in D |-> p[k]]
         /\ \A k \in D : p[k] \in DOMAIN s.axes[k]
BY DEF PicksIn

LEMMA PickMade ==
  ASSUME NEW s, NEW D, NEW p, p = [k \in D |-> p[k]],
         \A k \in D : p[k] \in DOMAIN s.axes[k]
  PROVE  p \in PicksIn(s, D)
<1>1. \A k \in D : p[k] \in UNION {DOMAIN s.axes[j] : j \in D}
  OBVIOUS
<1>2. p \in [D -> UNION {DOMAIN s.axes[j] : j \in D}]
  BY <1>1
<1> QED
  BY <1>2 DEF PicksIn

LEMMA SamePick ==
  ASSUME NEW s, NEW D, NEW p \in PicksIn(s, D), NEW q \in PicksIn(s, D),
         \A k \in D : p[k] = q[k]
  PROVE  p = q
<1>1. p = [k \in D |-> p[k]] /\ q = [k \in D |-> q[k]]
  BY DEF PicksIn
<1> QED
  BY <1>1

LEMMA NoPick == \A s : PicksIn(s, {}) = {Empty}
<1> TAKE s
<1>1. Empty \in PicksIn(s, {})
  BY DEF PicksIn, Empty
<1>2. ASSUME NEW p \in PicksIn(s, {})
      PROVE  p = Empty
  BY <1>1, SamePick
<1> QED
  BY <1>1, <1>2

\* Two picks are told apart by the first axis, in the order of Keys, at which
\* they differ; what they pick behind it is of no account.
LEMMA ContinuationsOrdered ==
  ASSUME NEW s, NEW a \in 1..Len(Keys), NEW p, NEW q, NEW pp, NEW qq,
         p \in PicksIn(s, UpTo(s, a - 1)), q \in PicksIn(s, UpTo(s, a - 1)),
         pp \in PicksIn(s, UpTo(s, a)), qq \in PicksIn(s, UpTo(s, a)),
         Agrees(pp, p), Agrees(qq, q), Precedes(p, q)
  PROVE  Precedes(pp, qq)
<1>1. DOMAIN p = UpTo(s, a - 1) /\ DOMAIN q = UpTo(s, a - 1) /\ DOMAIN pp = UpTo(s, a)
  BY PickOf, Zenon
<1>2. PICK n \in 1..Len(Keys) :
        /\ Keys[n] \in DOMAIN p /\ p[Keys[n]] < q[Keys[n]]
        /\ \A m \in 1..n - 1 : Keys[m] \in DOMAIN p => p[Keys[m]] = q[Keys[m]]
  BY DEF Precedes
<1>0. Len(Keys) \in Nat
  BY KeysAssumption DEF IsList
<1>3. PICK l \in 1..a - 1 : Keys[l] = Keys[n]
  BY <1>1, <1>2 DEF UpTo
<1>4. n = l
  BY <1>0, <1>3, KeysAssumption DEF IsList
<1>5. UpTo(s, a - 1) \subseteq UpTo(s, a)
  BY <1>0 DEF UpTo
<1>6. Keys[n] \in DOMAIN pp /\ pp[Keys[n]] < qq[Keys[n]]
  BY <1>1, <1>2, <1>5 DEF Agrees
<1>7. ASSUME NEW m \in 1..n - 1, Keys[m] \in DOMAIN pp
      PROVE  pp[Keys[m]] = qq[Keys[m]]
  <2>1. m \in 1..a - 1
    BY <1>3, <1>4, <1>0
  <2>2. Keys[m] \in UpTo(s, a - 1)
    BY <1>1, <1>7, <2>1 DEF UpTo
  <2> QED
    BY <1>1, <1>2, <2>2 DEF Agrees
<1> QED
  BY <1>6, <1>7 DEF Precedes

\* The pick p, and v for one more axis.
Extended(p, key, v) == [k \in DOMAIN p \cup {key} |-> IF k = key THEN v ELSE p[k]]

LEMMA OneMoreAxis ==
  ASSUME NEW s, NEW a \in 1..Len(Keys), Keys[a] \in DOMAIN s.axes
  PROVE  UpTo(s, a) = UpTo(s, a - 1) \cup {Keys[a]} /\ Keys[a] \notin UpTo(s, a - 1)
<1>1. Len(Keys) \in Nat
  BY KeysAssumption DEF IsList
<1>2. 1..a = (1..a - 1) \cup {a}
  BY <1>1
<1>3. UpTo(s, a) = UpTo(s, a - 1) \cup {Keys[a]}
  BY <1>2 DEF UpTo
<1>4. \A m \in 1..a - 1 : Keys[m] # Keys[a]
  BY <1>1, KeysAssumption DEF IsList
<1> QED
  BY <1>3, <1>4 DEF UpTo

LEMMA ExtendedPick ==
  ASSUME NEW s, NEW a \in 1..Len(Keys), Keys[a] \in DOMAIN s.axes,
         NEW p, p \in PicksIn(s, UpTo(s, a - 1)), NEW v, v \in DOMAIN s.axes[Keys[a]]
  PROVE  /\ Extended(p, Keys[a], v) \in PicksIn(s, UpTo(s, a))
         /\ Agrees(Extended(p, Keys[a], v), p)
         /\ Extended(p, Keys[a], v)[Keys[a]] = v
<1> DEFINE q == Extended(p, Keys[a], v)
<1>1. DOMAIN p = UpTo(s, a - 1) /\ \A k \in DOMAIN p : p[k] \in DOMAIN s.axes[k]
  BY PickOf
<1>2. q = [k \in UpTo(s, a) |-> IF k = Keys[a] THEN v ELSE p[k]]
  BY <1>1, OneMoreAxis DEF Extended
<1>3. Keys[a] \in UpTo(s, a) /\ Keys[a] \notin DOMAIN p /\ DOMAIN p \subseteq UpTo(s, a)
  BY <1>1, OneMoreAxis
<1>4. q[Keys[a]] = v /\ \A k \in DOMAIN p : q[k] = p[k]
  BY <1>2, <1>3
<1>5. q = [k \in UpTo(s, a) |-> q[k]]
  BY <1>2
<1>6. \A k \in UpTo(s, a) : k = Keys[a] \/ k \in DOMAIN p
  BY <1>1, OneMoreAxis
<1>7. \A k \in UpTo(s, a) : q[k] \in DOMAIN s.axes[k]
  BY <1>1, <1>4, <1>6
<1> HIDE DEF q
<1>8. q \in PicksIn(s, UpTo(s, a))
  BY <1>5, <1>7, PickMade
<1> QED
  BY <1>4, <1>8 DEF q, Agrees

LEMMA PickExtended ==
  ASSUME NEW s, NEW a \in 1..Len(Keys), Keys[a] \in DOMAIN s.axes,
         NEW p, p \in PicksIn(s, UpTo(s, a - 1)), NEW q, q \in PicksIn(s, UpTo(s, a)),
         Agrees(q, p)
  PROVE  q[Keys[a]] \in DOMAIN s.axes[Keys[a]] /\ q = Extended(p, Keys[a], q[Keys[a]])
<1>1. DOMAIN p = UpTo(s, a - 1)
  BY PickOf
<1>2. /\ q = [k \in UpTo(s, a) |-> q[k]]
      /\ \A k \in UpTo(s, a) : q[k] \in DOMAIN s.axes[k]
  BY PickOf
<1>3. UpTo(s, a) = DOMAIN p \cup {Keys[a]}
  BY <1>1, OneMoreAxis
<1>4. \A k \in UpTo(s, a) : q[k] = IF k = Keys[a] THEN q[Keys[a]] ELSE p[k]
  BY <1>3 DEF Agrees
<1> QED
  BY <1>2, <1>3, <1>4 DEF Extended

LEMMA ValuesOrdered ==
  ASSUME NEW s, NEW a \in 1..Len(Keys), Keys[a] \in DOMAIN s.axes,
         NEW p, p \in PicksIn(s, UpTo(s, a - 1)), NEW v \in Nat, NEW w \in Nat, v < w
  PROVE  Precedes(Extended(p, Keys[a], v), Extended(p, Keys[a], w))
<1>1. Len(Keys) \in Nat
  BY KeysAssumption DEF IsList
<1>2. \A m \in 1..a - 1 : Keys[m] # Keys[a]
  BY <1>1, KeysAssumption DEF IsList
<1>3. /\ Keys[a] \in DOMAIN Extended(p, Keys[a], v)
      /\ Extended(p, Keys[a], v)[Keys[a]] = v
      /\ Extended(p, Keys[a], w)[Keys[a]] = w
  BY DEF Extended
<1>4. \A m \in 1..a - 1 :
        Keys[m] \in DOMAIN Extended(p, Keys[a], v) =>
          Extended(p, Keys[a], v)[Keys[m]] = Extended(p, Keys[a], w)[Keys[m]]
  BY <1>2 DEF Extended
<1> QED
  BY <1>3, <1>4 DEF Precedes

-----------------------------------------------------------------------------
(* What a pass does with one combination, and what it has done at its end. *)

LEMMA CrossOne ==
  ASSUME NEW s, NEW a \in 1..Len(Keys), Keys[a] \in DOMAIN s.axes,
         IsList(s.axes[Keys[a]]),
         NEW cs, NEW n \in Nat, NEW h \in Nat, h < n,
         NEW pick, Lists(s, cs, n, pick, PicksIn(s, UpTo(s, a - 1))),
         NEW bs, Sequence(bs), NEW ext,
         Lists(s, bs, Len(bs), ext, Continuing(s, UpTo(s, a), pick, h)),
         NEW t, t = bs \o Crossed(cs[h + 1], Keys[a], s.axes[Keys[a]])
  PROVE  /\ Sequence(t)
         /\ \E next : Lists(s, t, Len(t), next, Continuing(s, UpTo(s, a), pick, h + 1))
<1> DEFINE key == Keys[a]
           values == s.axes[key]
           b == Len(bs)
           V == Len(values)
           p == pick[h + 1]
           S == Continuing(s, UpTo(s, a), pick, h)
           T == Continuing(s, UpTo(s, a), pick, h + 1)
           next == [i \in 1..b + V |-> IF i <= b THEN ext[i] ELSE Extended(p, key, i - b)]
<1>1. V \in Nat /\ DOMAIN values = 1..V /\ b \in Nat /\ h + 1 \in 1..n
  BY LenOfSequence DEF IsList
<1>2. /\ pick \in [1..n -> PicksIn(s, UpTo(s, a - 1))]
      /\ \A i, j \in 1..n : i < j => Precedes(pick[i], pick[j])
      /\ \A i \in 1..n : Stands(s, cs[i], pick[i])
  BY DEF Lists, Ordered
<1>3. /\ ext \in [1..b -> S]
      /\ \A q \in S : \E i \in 1..b : ext[i] = q
      /\ \A i, j \in 1..b : i < j => Precedes(ext[i], ext[j])
      /\ \A i \in 1..b : Stands(s, bs[i], ext[i])
  BY DEF Lists, Ordered
<1>4. p \in PicksIn(s, UpTo(s, a - 1)) /\ Stands(s, cs[h + 1], p)
  BY <1>1, <1>2
<1>5. \A v \in 1..V : /\ Extended(p, key, v) \in PicksIn(s, UpTo(s, a))
                      /\ Agrees(Extended(p, key, v), p)
                      /\ Extended(p, key, v)[key] = v
  BY <1>1, <1>4, ExtendedPick
<1>6. S \subseteq T
  BY DEF Continuing
<1>7. \A v \in 1..V : Extended(p, key, v) \in T
  BY <1>1, <1>5 DEF Continuing
<1>8. /\ Sequence(t) /\ Len(t) = b + V
      /\ \A i \in 1..b : t[i] = bs[i]
      /\ \A i \in 1..V : t[b + i] = Crossed(cs[h + 1], key, values)[i]
  <2> DEFINE new == Crossed(cs[h + 1], key, values)
  <2>1. Sequence(new) /\ Len(new) = V
    BY Crossings
  <2> HIDE DEF next, p, S, T, V, values, key, new
  <2>2. Sequence(bs) /\ Sequence(new)
    BY <2>1
  <2>3. Sequence(bs \o new)
    BY <2>2, Joined
  <2>4. Len(bs \o new) = b + Len(new)
    BY <2>2, Joined
  <2>5. \A i \in 1..b : (bs \o new)[i] = bs[i]
    BY <2>2, Joined
  <2>6. \A i \in 1..Len(new) : (bs \o new)[b + i] = new[i]
    <3> SUFFICES ASSUME NEW i \in 1..Len(new)
                 PROVE  (bs \o new)[b + i] = new[i]
      OBVIOUS
    <3>1. \A j \in 1..Len(new) : (bs \o new)[Len(bs) + j] = new[j]
      BY <2>2, Joined, SMTT(30)
    <3> QED
      BY <3>1
  <2>7. t = bs \o new
    BY DEF new, key, values
  <2> QED
    BY <2>1, <2>3, <2>4, <2>5, <2>6, <2>7 DEF new
<1>9. /\ \A i \in 1..b : next[i] = ext[i]
      /\ \A i \in 1..V : next[b + i] = Extended(p, key, i)
      /\ DOMAIN next = 1..b + V /\ next = [i \in 1..b + V |-> next[i]]
  BY <1>1
<1>10. \A i \in 1..b + V : i \in 1..b \/ \E v \in 1..V : i = b + v
  <2> SUFFICES ASSUME NEW i \in 1..b + V, i \notin 1..b
               PROVE  \E v \in 1..V : i = b + v
    OBVIOUS
  <2>1. i - b \in 1..V /\ i = b + (i - b)
    BY <1>1
  <2> QED
    BY <2>1
<1> HIDE DEF next, p, S, T, V, b, values, key
<1>11. next \in [1..b + V -> T]
  <2>1. \A i \in 1..b + V : next[i] \in T
    <3> SUFFICES ASSUME NEW i \in 1..b + V
                 PROVE  next[i] \in T
      OBVIOUS
    <3>1. CASE i \in 1..b
      BY <3>1, <1>3, <1>6, <1>9
    <3>2. CASE \E v \in 1..V : i = b + v
      BY <3>2, <1>7, <1>9
    <3> QED
      BY <3>1, <3>2, <1>10
  <2> QED
    BY <2>1, <1>9
<1>12. ASSUME NEW q \in T
       PROVE  \E i \in 1..b + V : next[i] = q
  <2>1. PICK i \in 1..h + 1 : Agrees(q, pick[i])
    BY <1>12 DEF T, Continuing
  <2>2. q \in PicksIn(s, UpTo(s, a))
    BY <1>12 DEF T, Continuing
  <2>3. CASE i \in 1..h
    <3>1. q \in S
      BY <2>1, <2>2, <2>3 DEF S, Continuing
    <3>2. PICK j \in 1..b : ext[j] = q
      BY <3>1, <1>3
    <3>3. j \in 1..b + V
      BY <1>1
    <3>4. next[j] = q
      BY <3>2, <1>9
    <3> QED
      BY <3>3, <3>4
  <2>4. CASE i = h + 1
    <3>1. q[key] \in 1..V /\ q = Extended(p, key, q[key])
      BY <2>1, <2>2, <2>4, <1>1, <1>4, PickExtended DEF p, key, values
    <3>2. b + q[key] \in 1..b + V
      BY <3>1, <1>1
    <3> QED
      BY <3>1, <3>2, <1>9
  <2> QED
    BY <2>3, <2>4
<1>13. ASSUME NEW i \in 1..b + V, NEW j \in 1..b + V, i < j
       PROVE  Precedes(next[i], next[j])
  <2>1. CASE i \in 1..b /\ j \in 1..b
    BY <2>1, <1>3, <1>9, <1>13
  <2>2. ASSUME i \in 1..b, NEW w \in 1..V, j = b + w
        PROVE  Precedes(next[i], next[j])
    <3>1. ext[i] \in PicksIn(s, UpTo(s, a)) /\ \E m \in 1..h : Agrees(ext[i], pick[m])
      BY <2>2, <1>3 DEF S, Continuing
    <3>2. PICK m \in 1..h : Agrees(ext[i], pick[m])
      BY <3>1
    <3>3. m \in 1..n /\ m < h + 1
      BY <1>1
    <3>4. Precedes(pick[m], p) /\ pick[m] \in PicksIn(s, UpTo(s, a - 1))
      BY <3>3, <1>1, <1>2 DEF p
    <3>5. Precedes(ext[i], Extended(p, key, w))
      BY <3>1, <3>2, <3>4, <1>4, <1>5, ContinuationsOrdered
    <3> QED
      BY <3>5, <2>2, <1>9
  <2>3. ASSUME NEW v \in 1..V, NEW w \in 1..V, i = b + v, j = b + w
        PROVE  Precedes(next[i], next[j])
    <3>1. v \in Nat /\ w \in Nat /\ v < w
      BY <2>3, <1>1, <1>13
    <3>2. Precedes(Extended(p, key, v), Extended(p, key, w))
      BY <3>1, <1>4, ValuesOrdered DEF key
    <3> QED
      BY <3>2, <2>3, <1>9
  <2>4. ~(i \notin 1..b /\ j \in 1..b)
    BY <1>1, <1>13
  <2> QED
    BY <2>1, <2>2, <2>3, <2>4, <1>10
<1>14. ASSUME NEW i \in 1..b + V
       PROVE  Stands(s, t[i], next[i])
  <2>1. CASE i \in 1..b
    BY <2>1, <1>3, <1>8, <1>9
  <2>2. ASSUME NEW v \in 1..V, i = b + v
        PROVE  Stands(s, t[i], next[i])
    <3>1. t[i] = Crossed(cs[h + 1], key, values)[v] /\ next[i] = Extended(p, key, v)
      BY <2>2, <1>8, <1>9
    <3>2. /\ key \in DOMAIN t[i] /\ t[i][key] = values[v]
          /\ \A k \in DOMAIN cs[h + 1] \ {key} :
               k \in DOMAIN t[i] /\ t[i][k] = cs[h + 1][k]
      BY <3>1, Crossings DEF V, values, key
    <3>3. \A k \in DOMAIN p : k \in DOMAIN cs[h + 1] /\ cs[h + 1][k] = s.axes[k][p[k]]
      BY <1>4 DEF Stands
    <3>4. /\ DOMAIN next[i] = DOMAIN p \cup {key}
          /\ next[i][key] = v
          /\ \A k \in DOMAIN p \ {key} : next[i][k] = p[k]
      BY <3>1 DEF Extended
    <3> QED
      BY <3>2, <3>3, <3>4 DEF Stands, values
  <2> QED
    BY <2>1, <2>2, <1>10
<1>15. Lists(s, t, Len(t), next, T)
  BY <1>8, <1>11, <1>12, <1>13, <1>14 DEF Lists, Ordered
<1> QED
  BY <1>8, <1>15 DEF T

LEMMA EveryPickContinues ==
  ASSUME NEW s, NEW a \in 1..Len(Keys), Keys[a] \in DOMAIN s.axes,
         NEW n, NEW pick, Ordered(n, pick, PicksIn(s, UpTo(s, a - 1)))
  PROVE  Continuing(s, UpTo(s, a), pick, n) = PicksIn(s, UpTo(s, a))
<1> SUFFICES ASSUME NEW q \in PicksIn(s, UpTo(s, a))
             PROVE  \E i \in 1..n : Agrees(q, pick[i])
  BY DEF Continuing
<1> DEFINE p == [k \in UpTo(s, a - 1) |-> q[k]]
<1>1. \A k \in UpTo(s, a) : q[k] \in DOMAIN s.axes[k]
  BY PickOf
<1>2. UpTo(s, a - 1) \subseteq UpTo(s, a)
  BY OneMoreAxis
<1>3. DOMAIN p = UpTo(s, a - 1) /\ p = [k \in UpTo(s, a - 1) |-> p[k]] /\ Agrees(q, p)
  BY DEF Agrees
<1>4. \A k \in UpTo(s, a - 1) : p[k] \in DOMAIN s.axes[k]
  BY <1>1, <1>2
<1> HIDE DEF p
<1>5. p \in PicksIn(s, UpTo(s, a - 1))
  BY <1>3, <1>4, PickMade
<1>6. PICK i \in 1..n : pick[i] = p
  BY <1>5 DEF Ordered
<1> QED
  BY <1>3, <1>6

\* An exclude entry that names only axes matches a combination exactly when
\* it has the values that were picked for it.
LEMMA ExcludedPicks ==
  ASSUME NEW s, DOMAIN s.axes # {},
         \A e \in ToSet(s.exclude) : DOMAIN e \subseteq DOMAIN s.axes,
         NEW c, NEW p \in PicksIn(s, DOMAIN s.axes), Stands(s, c, p)
  PROVE  (\E e \in ToSet(s.exclude) : AllMatch(c, e)) <=> p \notin OriginalOf(s)
<1>1. DOMAIN p = DOMAIN s.axes
  BY PickOf
<1>2. \A k \in DOMAIN s.axes : k \in DOMAIN c /\ c[k] = s.axes[k][p[k]]
  BY <1>1 DEF Stands
<1>3. \A e \in ToSet(s.exclude) :
        AllMatch(c, e) <=> \A k \in DOMAIN e : s.axes[k][p[k]] = e[k]
  BY <1>2 DEF AllMatch
<1>4. p \in OriginalOf(s) <=>
        \A e \in ToSet(s.exclude) : \E k \in DOMAIN e : s.axes[k][p[k]] # e[k]
  BY DEF OriginalOf
<1> QED
  BY <1>3, <1>4

LEMMA ExcludeOne ==
  ASSUME NEW s, DOMAIN s.axes # {},
         \A e \in ToSet(s.exclude) : DOMAIN e \subseteq DOMAIN s.axes,
         NEW cs, NEW n \in Nat, NEW h \in Nat, h < n,
         NEW pick, Lists(s, cs, n, pick, PicksIn(s, DOMAIN s.axes)),
         NEW bs, Sequence(bs), NEW kept, Lists(s, bs, Len(bs), kept, Kept(s, pick, h)),
         NEW t, t = IF \E e \in ToSet(s.exclude) : AllMatch(cs[h + 1], e)
                    THEN bs ELSE Append(bs, cs[h + 1])
  PROVE  Sequence(t) /\ \E next : Lists(s, t, Len(t), next, Kept(s, pick, h + 1))
<1> DEFINE b == Len(bs)
           p == pick[h + 1]
           S == Kept(s, pick, h)
           T == Kept(s, pick, h + 1)
<1>1. b \in Nat /\ h + 1 \in 1..n /\ 1..h + 1 = 1..h \cup {h + 1}
  BY LenOfSequence
<1>2. /\ pick \in [1..n -> PicksIn(s, DOMAIN s.axes)]
      /\ \A i, j \in 1..n : i < j => Precedes(pick[i], pick[j])
      /\ \A i \in 1..n : Stands(s, cs[i], pick[i])
  BY DEF Lists, Ordered
<1>3. /\ kept \in [1..b -> S]
      /\ \A q \in S : \E i \in 1..b : kept[i] = q
      /\ \A i, j \in 1..b : i < j => Precedes(kept[i], kept[j])
      /\ \A i \in 1..b : Stands(s, bs[i], kept[i])
  BY DEF Lists, Ordered
<1>4. p \in PicksIn(s, DOMAIN s.axes) /\ Stands(s, cs[h + 1], p)
  BY <1>1, <1>2
<1>5. (\E e \in ToSet(s.exclude) : AllMatch(cs[h + 1], e)) <=> p \notin OriginalOf(s)
  BY <1>4, ExcludedPicks
<1>6. CASE p \notin OriginalOf(s)
  <2>1. t = bs
    BY <1>5, <1>6
  <2>2. T = S
    BY <1>1, <1>6 DEF Kept
  <2> QED
    BY <2>1, <2>2
<1>7. CASE p \in OriginalOf(s)
  <2> DEFINE next == [i \in 1..b + 1 |-> IF i = b + 1 THEN p ELSE kept[i]]
  <2>1. t = Append(bs, cs[h + 1])
    BY <1>5, <1>7
  <2>2. /\ Sequence(t) /\ Len(t) = b + 1 /\ t[b + 1] = cs[h + 1]
        /\ \A i \in 1..b : t[i] = bs[i]
    BY <2>1, Appended
  <2>3. T = S \cup {p}
    BY <1>1, <1>7 DEF Kept
  <2>4. 1..b + 1 = 1..b \cup {b + 1} /\ b + 1 \notin 1..b
    BY <1>1
  <2>5. next[b + 1] = p /\ \A i \in 1..b : next[i] = kept[i]
    BY <2>4
  <2> HIDE DEF T, S, p, b
  <2>6. next \in [1..b + 1 -> T]
    BY <1>3, <2>3, <2>4
  <2> HIDE DEF next
  <2>7. \A q \in T : \E i \in 1..b + 1 : next[i] = q
    BY <1>3, <2>3, <2>4, <2>5
  <2>8. ASSUME NEW i \in 1..b + 1, NEW j \in 1..b + 1, i < j
        PROVE  Precedes(next[i], next[j])
    <3>1. i \in 1..b
      BY <1>1, <2>8
    <3>2. CASE j \in 1..b
      BY <1>3, <2>5, <2>8, <3>1, <3>2
    <3>3. CASE j = b + 1
      <4>1. PICK m \in 1..h : pick[m] = kept[i]
        BY <1>3, <3>1 DEF S, Kept
      <4>2. m \in 1..n /\ m < h + 1
        BY <1>1
      <4>3. Precedes(pick[m], p)
        BY <1>1, <1>2, <4>2 DEF p
      <4> QED
        BY <2>5, <3>1, <3>3, <4>1, <4>3
    <3> QED
      BY <2>4, <3>2, <3>3
  <2>9. \A i \in 1..b + 1 : Stands(s, t[i], next[i])
    BY <1>3, <1>4, <2>2, <2>4, <2>5
  <2>10. Lists(s, t, Len(t), next, T)
    BY <2>2, <2>6, <2>7, <2>8, <2>9 DEF Lists, Ordered
  <2> QED
    BY <2>2, <2>10 DEF T
<1> QED
  BY <1>6, <1>7

LEMMA EveryOriginalKept ==
  ASSUME NEW s, DOMAIN s.axes # {}, NEW n, NEW pick,
         Ordered(n, pick, PicksIn(s, DOMAIN s.axes))
  PROVE  Kept(s, pick, n) = OriginalOf(s)
<1>1. OriginalOf(s) \subseteq PicksIn(s, DOMAIN s.axes)
  BY DEF OriginalOf
<1> QED
  BY <1>1 DEF Kept, Ordered

-----------------------------------------------------------------------------
(* Include entries.                                                        *)

\* The combination d has what c has.
Extends(d, c) == \A k \in DOMAIN c : k \in DOMAIN d /\ d[k] = c[k]

\* Each of the first h include entries is whole in some combination.
Used(s, cs, h) == \A m \in 1..h : \E i \in 1..Len(cs) : AllMatch(cs[i], s.include[m])

Contradicts(e, c) == \E k \in DOMAIN e \cap DOMAIN c : e[k] # c[k]

\* Each of the first h include entries is whole in each of the first n
\* combinations, or contradicts it.
Settled(s, cs, n, h) ==
  \A i \in 1..n, m \in 1..h :
    AllMatch(cs[i], s.include[m]) \/ Contradicts(s.include[m], cs[i])

\* The combinations behind the first n, up to the l-th, are each there for one
\* of the first h entries.
Justified(s, cs, n, l, h) ==
  \A i \in n + 1..l :
    \E m \in 1..h : /\ AllMatch(cs[i], s.include[m])
                    /\ \A j \in 1..n : Contradicts(s.include[m], cs[j])

WithIncludes(s, cs, n, l, pick, h) ==
  /\ n \in 0..Len(cs)
  /\ Lists(s, cs, n, pick, OriginalOf(s))
  /\ Used(s, cs, h)
  /\ Settled(s, cs, n, h)
  /\ Justified(s, cs, n, l, h)

LEMMA MergeExtends ==
  ASSUME NEW c, NEW e, SubsetMatch(c, e)
  PROVE  Extends(Merged(e, c), c) /\ AllMatch(Merged(e, c), e)
BY DEF SubsetMatch, Merged, Extends, AllMatch

LEMMA ExtendsKeeps ==
  ASSUME NEW c, NEW d, Extends(d, c)
  PROVE  /\ \A s, p : Stands(s, c, p) => Stands(s, d, p)
         /\ \A e : AllMatch(c, e) => AllMatch(d, e)
         /\ \A e : Contradicts(e, c) => Contradicts(e, d)
<1>1. \A s, p : Stands(s, c, p) => Stands(s, d, p)
  BY DEF Extends, Stands
<1>2. \A e : AllMatch(c, e) => AllMatch(d, e)
  BY DEF Extends, AllMatch
<1>3. \A e : Contradicts(e, c) => Contradicts(e, d)
  BY DEF Extends, Contradicts
<1> QED
  BY <1>1, <1>2, <1>3

\* What an include entry does to the combinations is to extend some of them
\* and perhaps to add one, and that undoes nothing.
LEMMA IncludesExtend ==
  ASSUME NEW s, NEW cs, NEW t, Len(cs) \in Nat, Len(t) \in Nat, Len(cs) <= Len(t),
         \A i \in 1..Len(cs) : Extends(t[i], cs[i]),
         NEW n \in 0..Len(cs), NEW h \in Nat, NEW pick,
         WithIncludes(s, cs, n, Len(cs), pick, h)
  PROVE  WithIncludes(s, t, n, Len(cs), pick, h)
<1>1. \A i \in 1..n : i \in 1..Len(cs)
  OBVIOUS
<1>2. Lists(s, t, n, pick, OriginalOf(s))
  BY <1>1, ExtendsKeeps DEF WithIncludes, Lists
<1>3. Used(s, t, h)
  <2> SUFFICES ASSUME NEW m \in 1..h
               PROVE  \E i \in 1..Len(t) : AllMatch(t[i], s.include[m])
    BY DEF Used
  <2>1. PICK i \in 1..Len(cs) : AllMatch(cs[i], s.include[m])
    BY DEF WithIncludes, Used
  <2>2. AllMatch(t[i], s.include[m]) /\ i \in 1..Len(t)
    BY <2>1, ExtendsKeeps
  <2> QED
    BY <2>2
<1>4. ASSUME NEW i \in n + 1..Len(cs)
      PROVE  \E m \in 1..h : /\ AllMatch(t[i], s.include[m])
                             /\ \A j \in 1..n : Contradicts(s.include[m], t[j])
  <2>1. PICK m \in 1..h : /\ AllMatch(cs[i], s.include[m])
                          /\ \A j \in 1..n : Contradicts(s.include[m], cs[j])
    BY DEF WithIncludes, Justified
  <2>2. i \in 1..Len(cs)
    OBVIOUS
  <2>3. AllMatch(t[i], s.include[m])
    BY <2>1, <2>2, ExtendsKeeps
  <2>4. \A j \in 1..n : Contradicts(s.include[m], t[j])
    BY <1>1, <2>1, ExtendsKeeps
  <2> QED
    BY <2>3, <2>4
<1>5. Settled(s, t, n, h)
  BY <1>1, ExtendsKeeps DEF WithIncludes, Settled
<1> QED
  BY <1>2, <1>3, <1>4, <1>5 DEF WithIncludes, Justified

AfterInclude(cs, e) ==
  IF \E c \in ToSet(cs) : SubsetMatch(c, e)
  THEN [i \in 1..Len(cs) |->
          IF SubsetMatch(cs[i], e) THEN Merged(e, cs[i]) ELSE cs[i]]
  ELSE Append(cs, e)

LEMMA IncludeOne ==
  ASSUME NEW s, NEW cs, Sequence(cs), NEW n, NEW h \in Nat, NEW pick,
         WithIncludes(s, cs, n, Len(cs), pick, h),
         NEW e, e = s.include[h + 1], NEW t, t = AfterInclude(cs, e)
  PROVE  Sequence(t) /\ WithIncludes(s, t, n, Len(t), pick, h + 1)
<1>1. Len(cs) \in Nat /\ DOMAIN cs = 1..Len(cs) /\ n \in 0..Len(cs)
  BY LenOfSequence DEF WithIncludes
<1>2. ToSet(cs) = {cs[i] : i \in 1..Len(cs)}
  BY <1>1 DEF ToSet
<1>3. 1..h + 1 = 1..h \cup {h + 1}
  OBVIOUS
<1>4. \A c : Extends(c, c)
  BY DEF Extends
<1>5. CASE \E c \in ToSet(cs) : SubsetMatch(c, e)
  <2> DEFINE new(i) == IF SubsetMatch(cs[i], e) THEN Merged(e, cs[i]) ELSE cs[i]
  <2>1. t = [i \in 1..Len(cs) |-> new(i)]
    BY <1>5 DEF AfterInclude
  <2>2. \A i : Extends(new(i), cs[i])
    BY <1>4, MergeExtends
  <2>3. PICK l \in 1..Len(cs) : SubsetMatch(cs[l], e)
    BY <1>2, <1>5
  <2>4. AllMatch(new(l), e)
    BY <2>3, MergeExtends
  <2> HIDE DEF new
  <2>5. t \in Seq({new(i) : i \in 1..Len(cs)}) /\ Len(t) = Len(cs)
    BY <1>1, <2>1
  <2>6. Sequence(t)
    BY <2>5 DEF Sequence
  <2>7. \A i \in 1..Len(cs) : Extends(t[i], cs[i])
    BY <2>1, <2>2
  <2>8. WithIncludes(s, t, n, Len(cs), pick, h)
    <3>1. Len(cs) \in Nat /\ Len(t) \in Nat /\ Len(cs) <= Len(t) /\ n \in 0..Len(cs)
      BY <1>1, <2>5
    <3>2. h \in Nat /\ WithIncludes(s, cs, n, Len(cs), pick, h)
      OBVIOUS
    <3> QED
      BY <2>7, <3>1, <3>2, IncludesExtend, Zenon
  <2>9. AllMatch(t[l], s.include[h + 1]) /\ l \in 1..Len(t)
    BY <2>1, <2>4, <2>5
  <2>10. Used(s, t, h + 1)
    BY <1>3, <2>8, <2>9 DEF WithIncludes, Used
  <2>11. Justified(s, t, n, Len(t), h + 1)
    BY <1>3, <2>5, <2>8 DEF WithIncludes, Justified
  <2>12. ASSUME NEW j \in 1..n
         PROVE  AllMatch(t[j], e) \/ Contradicts(e, t[j])
    <3>1. j \in 1..Len(cs) /\ t[j] = new(j)
      BY <1>1, <2>1
    <3>2. CASE SubsetMatch(cs[j], e)
      BY <3>1, <3>2, MergeExtends DEF new
    <3>3. CASE ~SubsetMatch(cs[j], e)
      BY <3>1, <3>3 DEF new, SubsetMatch, Contradicts
    <3> QED
      BY <3>2, <3>3
  <2>13. Settled(s, t, n, h + 1)
    BY <1>3, <2>8, <2>12 DEF WithIncludes, Settled
  <2> QED
    BY <2>6, <2>8, <2>10, <2>11, <2>13 DEF WithIncludes
<1>6. CASE ~\E c \in ToSet(cs) : SubsetMatch(c, e)
  <2>1. t = Append(cs, e)
    BY <1>6 DEF AfterInclude
  <2>2. /\ Sequence(t) /\ Len(t) = Len(cs) + 1 /\ t[Len(cs) + 1] = e
        /\ \A i \in 1..Len(cs) : t[i] = cs[i]
    BY <2>1, Appended
  <2>3. \A i \in 1..Len(cs) : Extends(t[i], cs[i])
    BY <1>4, <2>2
  <2>4. WithIncludes(s, t, n, Len(cs), pick, h)
    <3>1. Len(cs) \in Nat /\ Len(t) \in Nat /\ Len(cs) <= Len(t) /\ n \in 0..Len(cs)
      BY <1>1, <2>2
    <3>2. h \in Nat /\ WithIncludes(s, cs, n, Len(cs), pick, h)
      OBVIOUS
    <3> QED
      BY <2>3, <3>1, <3>2, IncludesExtend, Zenon
  <2>5. AllMatch(t[Len(cs) + 1], s.include[h + 1]) /\ Len(cs) + 1 \in 1..Len(t)
    BY <1>1, <2>2 DEF AllMatch
  <2>6. \A j \in 1..n : Contradicts(s.include[h + 1], t[j])
    <3> SUFFICES ASSUME NEW j \in 1..n
                 PROVE  Contradicts(e, t[j])
      OBVIOUS
    <3>1. j \in 1..Len(cs)
      BY <1>1
    <3>2. cs[j] \in ToSet(cs) /\ t[j] = cs[j]
      BY <1>2, <2>2, <3>1
    <3> QED
      BY <1>6, <3>2 DEF SubsetMatch, Contradicts
  <2>7. Used(s, t, h + 1)
    BY <1>3, <2>4, <2>5 DEF WithIncludes, Used
  <2>8. \A i \in n + 1..Len(t) : i \in n + 1..Len(cs) \/ i = Len(cs) + 1
    BY <1>1, <2>2
  <2>9. Justified(s, t, n, Len(t), h + 1)
    BY <1>3, <2>4, <2>5, <2>6, <2>8 DEF WithIncludes, Justified
  <2>10. Settled(s, t, n, h + 1)
    BY <1>3, <2>4, <2>6 DEF WithIncludes, Settled
  <2> QED
    BY <2>2, <2>4, <2>7, <2>9, <2>10 DEF WithIncludes
<1> QED
  BY <1>5, <1>6

-----------------------------------------------------------------------------
(* The invariant.                                                          *)

\* The places are those of the axes crossed in so far.
InAxes(s, cs, a) ==
  IF DOMAIN s.axes = {} THEN cs = <<>>
  ELSE \E pick : Lists(s, cs, Len(cs), pick, PicksIn(s, UpTo(s, a)))

InCross(s, cs, a, h, bs) ==
  /\ a \in 1..Len(Keys) /\ Keys[a] \in DOMAIN s.axes
  /\ h \in 0..Len(cs)
  /\ \E pick, ext :
       /\ Lists(s, cs, Len(cs), pick, PicksIn(s, UpTo(s, a - 1)))
       /\ Lists(s, bs, Len(bs), ext, Continuing(s, UpTo(s, a), pick, h))

InExclude(s, cs, h, bs) ==
  /\ h \in 0..Len(cs)
  /\ IF DOMAIN s.axes = {} THEN cs = <<>> /\ bs = <<>>
     ELSE \E pick, kept :
            /\ Lists(s, cs, Len(cs), pick, PicksIn(s, DOMAIN s.axes))
            /\ Lists(s, bs, Len(bs), kept, Kept(s, pick, h))

InInclude(s, cs, h) ==
  /\ h \in 0..Len(s.include)
  /\ \E n, pick : WithIncludes(s, cs, n, Len(cs), pick, h)

Typed ==
  /\ strategy \in Strategies
  /\ phase \in {"start", "axes", "cross", "exclude", "include", "done", "error"}
  /\ axis \in 0..Len(Keys)
  /\ handled \in Nat
  /\ Sequence(combos) /\ Sequence(built)

Checked ==
  /\ phase \in {"axes", "cross", "exclude", "include"} =>
       strategy \notin {NoMatrix, Malformed}
  /\ (phase = "done" /\ strategy # NoMatrix) => strategy # Malformed
  /\ phase \in {"axes", "cross", "exclude"} => ExcludesOnlyAxes

PassInv ==
  /\ phase = "start" => axis = 0
  /\ phase = "axes" => InAxes(strategy, combos, axis)
  /\ phase = "cross" => InCross(strategy, combos, axis, handled, built)
  /\ phase = "exclude" => InExclude(strategy, combos, handled, built)
  /\ phase = "include" => InInclude(strategy, combos, handled)
  /\ (phase = "done" /\ strategy # NoMatrix) =>
       InInclude(strategy, combos, Len(strategy.include))

IInv == Typed /\ Checked /\ PassInv

LEMMA WellFormed ==
  ASSUME NEW s \in Strategies, s \notin {NoMatrix, Malformed}
  PROVE  /\ Len(Keys) \in Nat
         /\ \A k \in DOMAIN s.axes : IsList(s.axes[k])
         /\ \A k \in DOMAIN s.axes : \E n \in 1..Len(Keys) : Keys[n] = k
         /\ Len(s.include) \in Nat /\ DOMAIN s.include = 1..Len(s.include)
BY KeysAssumption, StrategiesAssumption DEF IsList

\* A pass begins with nothing built.
LEMMA NothingListed ==
  ASSUME NEW s, NEW S, S = {}
  PROVE  \E pick : Lists(s, <<>>, Len(<<>>), pick, S)
<1> DEFINE pick == [i \in 1..0 |-> 0]
<1>1. pick \in [1..0 -> S] /\ Len(<<>>) = 0
  OBVIOUS
<1>2. Lists(s, <<>>, 0, pick, S)
  BY <1>1 DEF Lists, Ordered
<1> QED
  BY <1>1, <1>2

\* Before the first axis there is one combination, and one pick.
LEMMA EmptyListed ==
  ASSUME NEW s
  PROVE  \E pick : Lists(s, <<Empty>>, Len(<<Empty>>), pick, PicksIn(s, UpTo(s, 0)))
<1> DEFINE pick == [i \in 1..1 |-> Empty]
<1>1. UpTo(s, 0) = {}
  BY DEF UpTo
<1>2. PicksIn(s, UpTo(s, 0)) = {Empty}
  BY <1>1, NoPick
<1>3. DOMAIN Empty = {} /\ Len(<<Empty>>) = 1
  BY DEF Empty
<1>4. pick \in [1..1 -> {Empty}] /\ \A i \in 1..1 : pick[i] = Empty
  OBVIOUS
<1>5. \A c : Stands(s, c, Empty)
  BY <1>3 DEF Stands
<1> HIDE DEF pick
<1>6. \A i, j \in 1..1 : ~(i < j)
  OBVIOUS
<1>7. Lists(s, <<Empty>>, 1, pick, {Empty})
  BY <1>4, <1>5, <1>6 DEF Lists, Ordered
<1> QED
  BY <1>2, <1>3, <1>7

-----------------------------------------------------------------------------
(* The invariant holds at the start and is kept by every action.           *)

LEMMA InitInv == Init => IInv
<1> SUFFICES ASSUME Init
             PROVE  IInv
  OBVIOUS
<1>1. Len(Keys) \in Nat
  BY KeysAssumption DEF IsList
<1>2. Typed
  BY <1>1, EmptySequence DEF Init, Typed
<1> QED
  BY <1>2 DEF Init, IInv, Checked, PassInv

LEMMA SameStrategy ==
  ASSUME strategy' = strategy
  PROVE  ExcludesOnlyAxes' = ExcludesOnlyAxes
BY DEF ExcludesOnlyAxes, Axes

LEMMA RunOnceInv ==
  ASSUME IInv, RunOnce
  PROVE  IInv'
<1>1. Sequence(<<Empty>>)
  BY SingleSequence
<1> QED
  BY <1>1 DEF IInv, RunOnce, Typed, Checked, PassInv

LEMMA RejectInv ==
  ASSUME IInv, Reject
  PROVE  IInv'
BY DEF IInv, Reject, Typed, Checked, PassInv

LEMMA BeginInv ==
  ASSUME IInv, Begin
  PROVE  IInv'
<1>1. /\ phase = "start" /\ phase' = "axes" /\ axis = 0
      /\ strategy \notin {NoMatrix, Malformed} /\ ExcludesOnlyAxes
      /\ combos' = IF DOMAIN strategy.axes = {} THEN <<>> ELSE <<Empty>>
      /\ UNCHANGED <<strategy, axis, handled, built>>
  BY DEF Begin, Axes, IInv, PassInv
<1>2. Sequence(<<Empty>>) /\ Sequence(<<>>)
  BY EmptySequence, SingleSequence
<1>3. Typed'
  BY <1>1, <1>2 DEF IInv, Typed
<1>4. Checked'
  BY <1>1, SameStrategy DEF Checked
<1>5. InAxes(strategy, combos', 0)
  BY <1>1, EmptyListed DEF InAxes
<1>6. PassInv'
  BY <1>1, <1>5 DEF PassInv
<1> QED
  BY <1>3, <1>4, <1>6 DEF IInv

LEMMA NextAxisInv ==
  ASSUME IInv, NextAxis
  PROVE  IInv'
<1>1. /\ phase = "axes" /\ phase' = "cross" /\ handled' = 0 /\ built' = <<>>
      /\ UNCHANGED <<strategy, combos>>
  BY DEF NextAxis, BeginPass
<1>2. PICK n \in Uncrossed : (\A m \in Uncrossed : n <= m) /\ axis' = n
  BY DEF NextAxis
<1>3. Len(Keys) \in Nat /\ axis \in 0..Len(Keys)
  BY KeysAssumption DEF IsList, IInv, Typed
<1>4. n \in axis + 1..Len(Keys) /\ Keys[n] \in DOMAIN strategy.axes
  BY <1>2 DEF Uncrossed, Axes
<1>5. n \in 1..Len(Keys)
  BY <1>3, <1>4
<1>6. UpTo(strategy, n - 1) = UpTo(strategy, axis)
  <2>1. ASSUME NEW m \in 1..n - 1, Keys[m] \in DOMAIN strategy.axes
        PROVE  m \in 1..axis
    <3>1. m \notin Uncrossed
      BY <1>2, <1>3, <1>4, <2>1
    <3> QED
      BY <1>3, <1>4, <2>1, <3>1 DEF Uncrossed, Axes
  <2>2. 1..axis \subseteq 1..n - 1
    BY <1>3, <1>4
  <2> QED
    BY <2>1, <2>2 DEF UpTo
<1>7. PICK pick : Lists(strategy, combos, Len(combos), pick,
                        PicksIn(strategy, UpTo(strategy, n - 1)))
  BY <1>1, <1>4, <1>6 DEF IInv, PassInv, InAxes
<1>8. Continuing(strategy, UpTo(strategy, n), pick, 0) = {}
  BY DEF Continuing
<1>9. \E ext : Lists(strategy, <<>>, Len(<<>>), ext,
                     Continuing(strategy, UpTo(strategy, n), pick, 0))
  BY <1>8, NothingListed
<1>10. 0 \in 0..Len(combos)
  BY LenOfSequence DEF IInv, Typed
<1>11. InCross(strategy, combos, n, 0, <<>>)
  BY <1>4, <1>5, <1>7, <1>9, <1>10 DEF InCross
<1>12. Typed'
  BY <1>1, <1>2, <1>3, <1>5, EmptySequence DEF IInv, Typed
<1>13. Checked'
  BY <1>1, SameStrategy DEF IInv, Checked
<1>14. PassInv'
  BY <1>1, <1>2, <1>11 DEF PassInv
<1> QED
  BY <1>12, <1>13, <1>14 DEF IInv

LEMMA AllCrossedInv ==
  ASSUME IInv, AllCrossed
  PROVE  IInv'
<1>1. /\ phase = "axes" /\ phase' = "exclude" /\ handled' = 0 /\ built' = <<>>
      /\ UNCHANGED <<strategy, combos, axis>> /\ Uncrossed = {}
  BY DEF AllCrossed, BeginPass
<1>2. strategy \in Strategies /\ strategy \notin {NoMatrix, Malformed}
  BY <1>1 DEF IInv, Typed, Checked
<1>3. axis \in 0..Len(Keys) /\ Len(Keys) \in Nat
  BY <1>2, WellFormed DEF IInv, Typed
<1>4. UpTo(strategy, axis) = DOMAIN strategy.axes
  <2>1. ASSUME NEW k \in DOMAIN strategy.axes
        PROVE  \E m \in 1..axis : Keys[m] = k
    <3>1. PICK m \in 1..Len(Keys) : Keys[m] = k
      BY <1>2, WellFormed
    <3>2. m \notin axis + 1..Len(Keys)
      BY <1>1, <3>1 DEF Uncrossed, Axes
    <3> QED
      BY <1>3, <3>1, <3>2
  <2> QED
    BY <2>1 DEF UpTo
<1>5. 0 \in 0..Len(combos)
  BY LenOfSequence DEF IInv, Typed
<1>6. InExclude(strategy, combos, 0, <<>>)
  <2>1. InAxes(strategy, combos, axis)
    BY <1>1 DEF IInv, PassInv
  <2>2. CASE DOMAIN strategy.axes = {}
    BY <1>5, <2>1, <2>2 DEF InAxes, InExclude
  <2>3. CASE DOMAIN strategy.axes # {}
    <3>1. PICK pick : Lists(strategy, combos, Len(combos), pick,
                            PicksIn(strategy, DOMAIN strategy.axes))
      BY <1>4, <2>1, <2>3 DEF InAxes
    <3>2. Kept(strategy, pick, 0) = {}
      BY DEF Kept
    <3>3. \E kept : Lists(strategy, <<>>, Len(<<>>), kept, Kept(strategy, pick, 0))
      BY <3>2, NothingListed
    <3> QED
      BY <1>5, <2>3, <3>1, <3>3 DEF InExclude
  <2> QED
    BY <2>2, <2>3
<1>7. Typed'
  BY <1>1, EmptySequence DEF IInv, Typed
<1>8. Checked'
  BY <1>1, SameStrategy DEF IInv, Checked
<1>9. PassInv'
  BY <1>1, <1>6 DEF PassInv
<1> QED
  BY <1>7, <1>8, <1>9 DEF IInv

LEMMA CrossComboInv ==
  ASSUME IInv, CrossCombo
  PROVE  IInv'
<1> DEFINE key == Keys[axis]
<1>1. /\ phase = "cross" /\ phase' = "cross" /\ handled < Len(combos)
      /\ built' = built \o Crossed(combos[handled + 1], key, strategy.axes[key])
      /\ handled' = handled + 1
      /\ UNCHANGED <<strategy, axis, combos>>
  BY DEF CrossCombo, InPass, CrossBehind, Combo
<1>2. strategy \in Strategies /\ strategy \notin {NoMatrix, Malformed}
  BY <1>1 DEF IInv, Typed, Checked
<1>3. /\ axis \in 1..Len(Keys) /\ key \in DOMAIN strategy.axes
      /\ handled \in 0..Len(combos)
      /\ \E pick, ext :
           /\ Lists(strategy, combos, Len(combos), pick,
                    PicksIn(strategy, UpTo(strategy, axis - 1)))
           /\ Lists(strategy, built, Len(built), ext,
                    Continuing(strategy, UpTo(strategy, axis), pick, handled))
  BY <1>1 DEF IInv, PassInv, InCross
<1>4. PICK pick, ext :
        /\ Lists(strategy, combos, Len(combos), pick,
                 PicksIn(strategy, UpTo(strategy, axis - 1)))
        /\ Lists(strategy, built, Len(built), ext,
                 Continuing(strategy, UpTo(strategy, axis), pick, handled))
  BY <1>3
<1>5. /\ IsList(strategy.axes[key])
      /\ Len(combos) \in Nat /\ handled \in Nat /\ Sequence(built)
  BY <1>2, <1>3, WellFormed, LenOfSequence DEF IInv, Typed
<1> HIDE DEF key
<1>6. /\ Sequence(built')
      /\ \E next : Lists(strategy, built', Len(built'), next,
                         Continuing(strategy, UpTo(strategy, axis), pick, handled + 1))
  BY <1>1, <1>3, <1>4, <1>5, CrossOne DEF key
<1>7. handled + 1 \in 0..Len(combos)
  BY <1>1, <1>5
<1>8. InCross(strategy, combos, axis, handled + 1, built')
  BY <1>3, <1>4, <1>6, <1>7 DEF InCross, key
<1>9. Typed'
  BY <1>1, <1>5, <1>6 DEF IInv, Typed
<1>10. Checked'
  BY <1>1, SameStrategy DEF IInv, Checked
<1>11. PassInv'
  BY <1>1, <1>8 DEF PassInv
<1> QED
  BY <1>9, <1>10, <1>11 DEF IInv

LEMMA AxisCrossedInv ==
  ASSUME IInv, AxisCrossed
  PROVE  IInv'
<1>1. /\ phase = "cross" /\ phase' = "axes" /\ handled = Len(combos)
      /\ handled' = 0 /\ combos' = built
      /\ UNCHANGED <<strategy, axis, built>>
  BY DEF AxisCrossed, PassOver
<1>2. PICK pick, ext :
        /\ Lists(strategy, combos, Len(combos), pick,
                 PicksIn(strategy, UpTo(strategy, axis - 1)))
        /\ Lists(strategy, built, Len(built), ext,
                 Continuing(strategy, UpTo(strategy, axis), pick, handled))
  BY <1>1 DEF IInv, PassInv, InCross
<1>3. axis \in 1..Len(Keys) /\ Keys[axis] \in DOMAIN strategy.axes
  BY <1>1 DEF IInv, PassInv, InCross
<1>4. Continuing(strategy, UpTo(strategy, axis), pick, handled)
        = PicksIn(strategy, UpTo(strategy, axis))
  BY <1>1, <1>2, <1>3, EveryPickContinues DEF Lists
<1>5. InAxes(strategy, built, axis)
  BY <1>2, <1>3, <1>4 DEF InAxes
<1>6. Typed'
  BY <1>1 DEF IInv, Typed
<1>7. Checked'
  BY <1>1, SameStrategy DEF IInv, Checked
<1>8. PassInv'
  BY <1>1, <1>5 DEF PassInv
<1> QED
  BY <1>6, <1>7, <1>8 DEF IInv

LEMMA ExcludeComboInv ==
  ASSUME IInv, ExcludeCombo
  PROVE  IInv'
<1> DEFINE c == combos[handled + 1]
<1>1. /\ phase = "exclude" /\ phase' = "exclude" /\ handled < Len(combos)
      /\ built' = IF \E e \in ToSet(strategy.exclude) : AllMatch(c, e)
                  THEN built ELSE Append(built, c)
      /\ handled' = handled + 1
      /\ UNCHANGED <<strategy, axis, combos>>
  BY DEF ExcludeCombo, InPass, Combo, Excluded
<1>2. Len(combos) \in Nat /\ handled \in Nat /\ Sequence(built)
  BY LenOfSequence DEF IInv, Typed
<1>3. InExclude(strategy, combos, handled, built)
  BY <1>1 DEF IInv, PassInv
<1>4. DOMAIN strategy.axes # {}
  BY <1>1, <1>2, <1>3, EmptySequence DEF InExclude
<1>5. PICK pick, kept :
        /\ Lists(strategy, combos, Len(combos), pick,
                 PicksIn(strategy, DOMAIN strategy.axes))
        /\ Lists(strategy, built, Len(built), kept, Kept(strategy, pick, handled))
  BY <1>3, <1>4 DEF InExclude
<1>6. \A e \in ToSet(strategy.exclude) : DOMAIN e \subseteq DOMAIN strategy.axes
  BY <1>1 DEF IInv, Checked, ExcludesOnlyAxes, Axes
<1>7. /\ Sequence(built')
      /\ \E next : Lists(strategy, built', Len(built'), next,
                         Kept(strategy, pick, handled + 1))
  BY <1>1, <1>2, <1>4, <1>5, <1>6, ExcludeOne
<1>8. handled + 1 \in 0..Len(combos)
  BY <1>1, <1>2
<1>9. InExclude(strategy, combos, handled + 1, built')
  BY <1>4, <1>5, <1>7, <1>8 DEF InExclude
<1>10. Typed'
  BY <1>1, <1>2, <1>7 DEF IInv, Typed
<1>11. Checked'
  BY <1>1, SameStrategy DEF IInv, Checked
<1>12. PassInv'
  BY <1>1, <1>9 DEF PassInv
<1> QED
  BY <1>10, <1>11, <1>12 DEF IInv

LEMMA ExcludesAppliedInv ==
  ASSUME IInv, ExcludesApplied
  PROVE  IInv'
<1>1. /\ phase = "exclude" /\ phase' = "include" /\ handled = Len(combos)
      /\ handled' = 0 /\ combos' = built
      /\ UNCHANGED <<strategy, axis, built>>
  BY DEF ExcludesApplied, PassOver
<1>2. strategy \in Strategies /\ strategy \notin {NoMatrix, Malformed}
  BY <1>1 DEF IInv, Typed, Checked
<1>3. Len(built) \in Nat /\ 0 \in 0..Len(strategy.include)
  BY <1>2, WellFormed, LenOfSequence DEF IInv, Typed
<1>4. InExclude(strategy, combos, handled, built)
  BY <1>1 DEF IInv, PassInv
<1>5. \E pick : Lists(strategy, built, Len(built), pick, OriginalOf(strategy))
  <2>1. CASE DOMAIN strategy.axes = {}
    <3>1. OriginalOf(strategy) = {} /\ built = <<>>
      BY <1>4, <2>1 DEF OriginalOf, InExclude
    <3> QED
      BY <3>1, NothingListed
  <2>2. CASE DOMAIN strategy.axes # {}
    <3>1. PICK pick, kept :
            /\ Lists(strategy, combos, Len(combos), pick,
                     PicksIn(strategy, DOMAIN strategy.axes))
            /\ Lists(strategy, built, Len(built), kept, Kept(strategy, pick, handled))
      BY <1>4, <2>2 DEF InExclude
    <3>2. Kept(strategy, pick, handled) = OriginalOf(strategy)
      BY <1>1, <2>2, <3>1, EveryOriginalKept DEF Lists
    <3> QED
      BY <3>1, <3>2
  <2> QED
    BY <2>1, <2>2
<1>6. PICK pick : Lists(strategy, built, Len(built), pick, OriginalOf(strategy))
  BY <1>5
<1>7. /\ Used(strategy, built, 0) /\ Settled(strategy, built, Len(built), 0)
      /\ Justified(strategy, built, Len(built), Len(built), 0)
  BY <1>3 DEF Used, Settled, Justified
<1>8. WithIncludes(strategy, built, Len(built), Len(built), pick, 0)
  BY <1>3, <1>6, <1>7 DEF WithIncludes
<1>9. InInclude(strategy, built, 0)
  BY <1>3, <1>8 DEF InInclude
<1>10. Typed'
  BY <1>1 DEF IInv, Typed
<1>11. Checked'
  BY <1>1, <1>2 DEF Checked
<1>12. PassInv'
  BY <1>1, <1>9 DEF PassInv
<1> QED
  BY <1>10, <1>11, <1>12 DEF IInv

LEMMA IncludeInv ==
  ASSUME IInv, Include
  PROVE  IInv'
<1> DEFINE e == strategy.include[handled + 1]
<1>1. /\ phase = "include" /\ phase' = "include"
      /\ handled < Len(strategy.include) /\ handled' = handled + 1
      /\ combos' = AfterInclude(combos, e)
      /\ UNCHANGED <<strategy, axis, built>>
  BY DEF Include, AfterInclude
<1>2. strategy \in Strategies /\ strategy \notin {NoMatrix, Malformed}
  BY <1>1 DEF IInv, Typed, Checked
<1>3. handled \in Nat /\ Len(strategy.include) \in Nat /\ Sequence(combos)
  BY <1>2, WellFormed DEF IInv, Typed
<1>4. PICK n, pick : WithIncludes(strategy, combos, n, Len(combos), pick, handled)
  BY <1>1 DEF IInv, PassInv, InInclude
<1>5. /\ Sequence(combos')
      /\ WithIncludes(strategy, combos', n, Len(combos'), pick, handled + 1)
  BY <1>1, <1>3, <1>4, IncludeOne
<1>6. handled + 1 \in 0..Len(strategy.include)
  BY <1>1, <1>3
<1>7. InInclude(strategy, combos', handled + 1)
  BY <1>5, <1>6 DEF InInclude
<1>8. Typed'
  BY <1>1, <1>3, <1>5 DEF IInv, Typed
<1>9. Checked'
  BY <1>1, <1>2 DEF Checked
<1>10. PassInv'
  BY <1>1, <1>7 DEF PassInv
<1> QED
  BY <1>8, <1>9, <1>10 DEF IInv

LEMMA FinishInv ==
  ASSUME IInv, Finish
  PROVE  IInv'
<1>1. /\ phase = "include" /\ phase' = "done" /\ handled = Len(strategy.include)
      /\ UNCHANGED <<strategy, axis, handled, combos, built>>
  BY DEF Finish
<1>2. Typed' /\ Checked'
  BY <1>1 DEF IInv, Typed, Checked
<1>3. PassInv'
  BY <1>1 DEF IInv, PassInv
<1> QED
  BY <1>2, <1>3 DEF IInv

\* What ExpandMatrix has listed after each of its steps.
THEOREM Invariance == Spec => []IInv
<1>1. ASSUME IInv, [Next]_vars
      PROVE  IInv'
  <2>1. CASE UNCHANGED vars
    <3>1. /\ UNCHANGED <<strategy, phase, axis, handled, combos, built>>
          /\ ExcludesOnlyAxes' = ExcludesOnlyAxes
      BY <2>1, SameStrategy DEF vars
    <3>2. Typed' /\ Checked'
      BY <1>1, <3>1 DEF IInv, Typed, Checked
    <3>3. PassInv'
      BY <1>1, <3>1 DEF IInv, PassInv
    <3> QED
      BY <3>2, <3>3 DEF IInv
  <2> QED
    BY <1>1, <2>1, RunOnceInv, RejectInv, BeginInv, NextAxisInv, AllCrossedInv,
       CrossComboInv, AxisCrossedInv, ExcludeComboInv, ExcludesAppliedInv, IncludeInv,
       FinishInv
    DEF Next, Returned
<1> QED
  BY <1>1, InitInv, PTL DEF Spec

-----------------------------------------------------------------------------
(* What ExpandMatrix returns.                                              *)

LEMMA SameOriginals == Original = OriginalOf(strategy)
BY DEF Original, OriginalOf, Picks, PicksIn, Axes, Value

\* No pick precedes itself, so the list of picks has none twice.
LEMMA OrderedCounts ==
  ASSUME NEW n \in Nat, NEW pick, NEW s, NEW D, NEW S, S \subseteq PicksIn(s, D),
         \A k \in D : IsList(s.axes[k]), Ordered(n, pick, S)
  PROVE  Cardinality(S) = n
<1>1. \A p \in S : ~Precedes(p, p)
  <2> SUFFICES ASSUME NEW p \in S, NEW k \in DOMAIN p
               PROVE  ~(p[k] < p[k])
    BY DEF Precedes
  <2>1. p[k] \in DOMAIN s.axes[k] /\ IsList(s.axes[k])
    BY PickOf
  <2>2. p[k] \in Nat
    BY <2>1 DEF IsList
  <2> QED
    BY <2>2
<1>2. \A i, j \in 1..n : pick[i] = pick[j] => i = j
  <2> SUFFICES ASSUME NEW i \in 1..n, NEW j \in 1..n, pick[i] = pick[j], i # j
               PROVE  FALSE
    OBVIOUS
  <2>1. pick[i] \in S
    BY DEF Ordered
  <2>2. i < j \/ j < i
    OBVIOUS
  <2>3. Precedes(pick[i], pick[j]) \/ Precedes(pick[j], pick[i])
    BY <2>2 DEF Ordered
  <2> QED
    BY <1>1, <2>1, <2>3
<1>3. pick \in Bijection(1..n, S)
  BY <1>2 DEF Ordered, Bijection, Injection, Surjection, IsInjective
<1>4. ExistsBijection(1..n, S)
  BY <1>3 DEF ExistsBijection
<1> QED
  BY <1>4, FS_CountingElements

LEMMA ExpandedList ==
  ASSUME IInv, Expanded
  PROVE  /\ Cardinality(Original) \in 0..Len(combos)
         /\ \E pick : WithIncludes(strategy, combos, Cardinality(Original), Len(combos),
                                   pick, Len(strategy.include))
<1>1. strategy \in Strategies /\ strategy \notin {NoMatrix, Malformed}
  BY DEF IInv, Typed, Checked, Expanded
<1>2. PICK n, pick : WithIncludes(strategy, combos, n, Len(combos), pick,
                                  Len(strategy.include))
  BY DEF IInv, PassInv, InInclude, Expanded
<1>3. n \in 0..Len(combos) /\ Len(combos) \in Nat
  BY <1>2, LenOfSequence DEF WithIncludes, IInv, Typed
<1>4. Ordered(n, pick, OriginalOf(strategy))
  BY <1>2 DEF WithIncludes, Lists
<1>5. OriginalOf(strategy) \subseteq PicksIn(strategy, DOMAIN strategy.axes)
  BY DEF OriginalOf
<1>6. Cardinality(OriginalOf(strategy)) = n
  BY <1>1, <1>3, <1>4, <1>5, WellFormed, OrderedCounts
<1> QED
  BY <1>2, <1>3, <1>6, SameOriginals

\* usage.md:150-153: the result begins with every assignment of the axes that
\* is not excluded, in lexicographic order, whatever is included.
THEOREM ExpandsInOrder == Spec => []OriginalsInOrder
<1>1. ASSUME IInv, Expanded
      PROVE  OriginalsInOrder
  <2> DEFINE N == Cardinality(Original)
  <2>1. PICK pick : WithIncludes(strategy, combos, N, Len(combos), pick,
                                 Len(strategy.include))
    BY <1>1, ExpandedList
  <2>2. N \in 0..Len(combos) /\ Len(combos) \in Nat
    BY <1>1, ExpandedList, LenOfSequence DEF IInv, Typed
  <2>3. Lists(strategy, combos, N, pick, Original)
    BY <2>1, SameOriginals DEF WithIncludes
  <2>4. \A p \in Original : DOMAIN p = Axes
    BY DEF Original, Picks
  <2> HIDE DEF N
  <2>5. \A i \in 1..N : pick[i] \in Original
    BY <2>3 DEF Lists, Ordered
  <2>6. \A i \in 1..N, k \in Axes : k \in DOMAIN combos[i]
                                   /\ combos[i][k] = Value(pick[i], k)
    BY <2>3, <2>4, <2>5 DEF Lists, Stands, Value
  <2>7. N <= Len(combos)
    BY <2>2
  <2> QED
    BY <2>3, <2>6, <2>7 DEF OriginalsInOrder, Lists, Ordered, N
<1>2. IInv => OriginalsInOrder
  BY <1>1 DEF OriginalsInOrder
<1> QED
  BY <1>2, Invariance, PTL

-----------------------------------------------------------------------------
(* Names.  A combination has no name but those of the axes and of include  *)
(* entries that are whole in it.                                           *)

\* The names of the combinations are names of axes.
AxesOnly(s, cs) == \A i \in 1..Len(cs) : DOMAIN cs[i] \subseteq DOMAIN s.axes

\* A name of a combination is an axis or comes with one of the first h
\* include entries, which is whole in the combination.
FromEntries(s, cs, h) ==
  \A i \in 1..Len(cs) : \A k \in DOMAIN cs[i] \ DOMAIN s.axes :
    \E m \in 1..h : k \in DOMAIN s.include[m] /\ AllMatch(cs[i], s.include[m])

NamesInv ==
  /\ phase \in {"axes", "cross", "exclude"} => AxesOnly(strategy, combos)
  /\ phase \in {"cross", "exclude"} => AxesOnly(strategy, built)
  /\ phase = "include" => FromEntries(strategy, combos, handled)
  /\ (phase = "done" /\ strategy # NoMatrix) =>
       FromEntries(strategy, combos, Len(strategy.include))

LEMMA BeginNames ==
  ASSUME Begin
  PROVE  NamesInv'
<1>1. phase' = "axes" /\ (combos' = <<>> \/ combos' = <<Empty>>)
  BY DEF Begin
<1>2. DOMAIN Empty = {} /\ Len(<<>>) = 0 /\ Len(<<Empty>>) = 1 /\ <<Empty>>[1] = Empty
  BY DEF Empty
<1>3. AxesOnly(strategy, combos)'
  BY <1>1, <1>2 DEF AxesOnly
<1> QED
  BY <1>1, <1>3 DEF NamesInv

LEMMA PassBegins ==
  ASSUME NamesInv, NextAxis \/ AllCrossed
  PROVE  NamesInv'
<1>1. /\ phase = "axes" /\ phase' \in {"cross", "exclude"}
      /\ built' = <<>> /\ combos' = combos /\ strategy' = strategy
  BY DEF NextAxis, AllCrossed, BeginPass
<1>2. AxesOnly(strategy, combos)' /\ AxesOnly(strategy, built)'
  BY <1>1, EmptySequence DEF NamesInv, AxesOnly
<1> QED
  BY <1>1, <1>2 DEF NamesInv

LEMMA CrossComboNames ==
  ASSUME IInv, NamesInv, CrossCombo
  PROVE  NamesInv'
<1> DEFINE key == Keys[axis]
           values == strategy.axes[key]
           c == combos[handled + 1]
           more == Crossed(c, key, values)
<1>1. /\ phase = "cross" /\ phase' = "cross" /\ handled < Len(combos)
      /\ built' = built \o more
      /\ combos' = combos /\ strategy' = strategy
  BY DEF CrossCombo, InPass, CrossBehind, Combo
<1>2. strategy \in Strategies /\ strategy \notin {NoMatrix, Malformed}
  BY <1>1 DEF IInv, Typed, Checked
<1>3. key \in DOMAIN strategy.axes /\ IsList(values)
  BY <1>1, <1>2, WellFormed DEF IInv, PassInv, InCross
<1>4. Len(combos) \in Nat /\ handled \in Nat /\ Sequence(built)
  BY LenOfSequence DEF IInv, Typed
<1>5. AxesOnly(strategy, combos) /\ AxesOnly(strategy, built)
  BY <1>1 DEF NamesInv
<1>6. DOMAIN c \subseteq DOMAIN strategy.axes
  BY <1>1, <1>4, <1>5 DEF AxesOnly
<1>7. \A n \in 1..Len(values) : DOMAIN more[n] \subseteq DOMAIN strategy.axes
  BY <1>3, <1>6 DEF Crossed, Merged
<1>8. Sequence(more) /\ Len(more) = Len(values)
  BY <1>3, Crossings
<1> HIDE DEF more, values, c
<1>9. ASSUME NEW i \in 1..Len(built')
      PROVE  DOMAIN built'[i] \subseteq DOMAIN strategy.axes
  <2>1. Len(built) \in Nat /\ Len(more) \in Nat /\ Len(built') = Len(built) + Len(more)
    BY <1>1, <1>4, <1>8, Joined, LenOfSequence
  <2>2. CASE i \in 1..Len(built)
    BY <1>1, <1>4, <1>5, <1>8, <2>2, Joined DEF AxesOnly
  <2>3. CASE i \notin 1..Len(built)
    <3>1. PICK n \in 1..Len(more) : i = Len(built) + n
      <4>1. i - Len(built) \in 1..Len(more) /\ i = Len(built) + (i - Len(built))
        BY <2>1, <2>3
      <4> QED
        BY <4>1
    <3>2. built'[i] = more[n]
      BY <1>1, <1>4, <1>8, <3>1, Joined
    <3> QED
      BY <1>7, <1>8, <3>1, <3>2
  <2> QED
    BY <2>2, <2>3
<1>10. AxesOnly(strategy, built)' /\ AxesOnly(strategy, combos)'
  BY <1>1, <1>5, <1>9 DEF AxesOnly
<1> QED
  BY <1>1, <1>10 DEF NamesInv

LEMMA ExcludeComboNames ==
  ASSUME IInv, NamesInv, ExcludeCombo
  PROVE  NamesInv'
<1> DEFINE c == combos[handled + 1]
<1>1. /\ phase = "exclude" /\ phase' = "exclude" /\ handled < Len(combos)
      /\ built' = built \/ built' = Append(built, c)
      /\ combos' = combos /\ strategy' = strategy
  BY DEF ExcludeCombo, InPass, Combo
<1>2. Len(combos) \in Nat /\ handled \in Nat /\ Sequence(built) /\ Len(built) \in Nat
  BY LenOfSequence DEF IInv, Typed
<1>3. AxesOnly(strategy, combos) /\ AxesOnly(strategy, built)
  BY <1>1 DEF NamesInv
<1>4. DOMAIN c \subseteq DOMAIN strategy.axes
  BY <1>1, <1>2, <1>3 DEF AxesOnly
<1> HIDE DEF c
<1>5. AxesOnly(strategy, Append(built, c))
  <2> SUFFICES ASSUME NEW i \in 1..Len(Append(built, c))
               PROVE  DOMAIN Append(built, c)[i] \subseteq DOMAIN strategy.axes
    BY DEF AxesOnly
  <2>1. i \in 1..Len(built) \/ i = Len(built) + 1
    BY <1>2, Appended
  <2> QED
    BY <1>2, <1>3, <1>4, <2>1, Appended DEF AxesOnly
<1>6. AxesOnly(strategy, built)' /\ AxesOnly(strategy, combos)'
  BY <1>1, <1>3, <1>5 DEF AxesOnly
<1> QED
  BY <1>1, <1>6 DEF NamesInv

LEMMA PassEnds ==
  ASSUME NamesInv, AxisCrossed \/ ExcludesApplied
  PROVE  NamesInv'
<1>1. /\ phase \in {"cross", "exclude"} /\ phase' \in {"axes", "include"}
      /\ combos' = built /\ strategy' = strategy
  BY DEF AxisCrossed, ExcludesApplied, PassOver
<1>2. AxesOnly(strategy, combos)'
  BY <1>1 DEF NamesInv, AxesOnly
<1>3. FromEntries(strategy, combos, handled)'
  BY <1>2 DEF AxesOnly, FromEntries
<1> QED
  BY <1>1, <1>2, <1>3 DEF NamesInv

LEMMA IncludeNames ==
  ASSUME IInv, NamesInv, Include
  PROVE  NamesInv'
<1> DEFINE e == strategy.include[handled + 1]
<1>1. /\ phase = "include" /\ phase' = "include" /\ handled' = handled + 1
      /\ combos' = AfterInclude(combos, e) /\ strategy' = strategy
  BY DEF Include, AfterInclude
<1>2. handled \in Nat /\ Sequence(combos) /\ Len(combos) \in Nat
  BY LenOfSequence DEF IInv, Typed
<1>3. FromEntries(strategy, combos, handled)
  BY <1>1 DEF NamesInv
<1>4. 1..handled \subseteq 1..handled + 1 /\ handled + 1 \in 1..handled + 1
  BY <1>2
\* A combination that extends one there was by nothing but the entry.
<1>5. ASSUME NEW i \in 1..Len(combos), NEW d, Extends(d, combos[i]),
             \/ DOMAIN d \subseteq DOMAIN combos[i]
             \/ /\ AllMatch(d, e)
                /\ DOMAIN d \subseteq DOMAIN combos[i] \cup DOMAIN e,
             NEW k \in DOMAIN d \ DOMAIN strategy.axes
      PROVE  \E m \in 1..handled + 1 : /\ k \in DOMAIN strategy.include[m]
                                       /\ AllMatch(d, strategy.include[m])
  <2>1. CASE k \in DOMAIN combos[i]
    <3>1. PICK m \in 1..handled : /\ k \in DOMAIN strategy.include[m]
                                  /\ AllMatch(combos[i], strategy.include[m])
      BY <1>3, <2>1 DEF FromEntries
    <3> QED
      BY <1>4, <1>5, <3>1, ExtendsKeeps
  <2>2. CASE k \notin DOMAIN combos[i]
    BY <1>4, <1>5, <2>2
  <2> QED
    BY <2>1, <2>2
<1>6. CASE \E c \in ToSet(combos) : SubsetMatch(c, e)
  <2> DEFINE new(i) == IF SubsetMatch(combos[i], e) THEN Merged(e, combos[i]) ELSE combos[i]
  <2>1. combos' = [i \in 1..Len(combos) |-> new(i)]
    BY <1>1, <1>6 DEF AfterInclude
  <2>2. \A i : /\ Extends(new(i), combos[i])
               /\ \/ DOMAIN new(i) \subseteq DOMAIN combos[i]
                  \/ /\ AllMatch(new(i), e)
                     /\ DOMAIN new(i) \subseteq DOMAIN combos[i] \cup DOMAIN e
    <3> SUFFICES ASSUME NEW i
                 PROVE  /\ Extends(new(i), combos[i])
                        /\ \/ DOMAIN new(i) \subseteq DOMAIN combos[i]
                           \/ /\ AllMatch(new(i), e)
                              /\ DOMAIN new(i) \subseteq DOMAIN combos[i] \cup DOMAIN e
      OBVIOUS
    <3>1. CASE SubsetMatch(combos[i], e)
      <4>1. new(i) = Merged(e, combos[i])
        BY <3>1
      <4>2. DOMAIN Merged(e, combos[i]) = DOMAIN e \cup DOMAIN combos[i]
        BY DEF Merged
      <4> QED
        BY <3>1, <4>1, <4>2, MergeExtends
    <3>2. CASE ~SubsetMatch(combos[i], e)
      BY <3>2 DEF Extends
    <3> QED
      BY <3>1, <3>2
  <2> HIDE DEF new
  <2>3. combos' \in Seq({new(i) : i \in 1..Len(combos)}) /\ Len(combos') = Len(combos)
    BY <1>2, <2>1
  <2>4. \A i \in 1..Len(combos) : combos'[i] = new(i)
    BY <2>1
  <2>5. \A i \in 1..Len(combos) : \A k \in DOMAIN combos'[i] \ DOMAIN strategy.axes :
          \E m \in 1..handled + 1 : /\ k \in DOMAIN strategy.include[m]
                                    /\ AllMatch(combos'[i], strategy.include[m])
    <3> SUFFICES ASSUME NEW i \in 1..Len(combos),
                        NEW k \in DOMAIN new(i) \ DOMAIN strategy.axes
                 PROVE  \E m \in 1..handled + 1 : /\ k \in DOMAIN strategy.include[m]
                                                  /\ AllMatch(new(i), strategy.include[m])
      BY <2>4
    <3> QED
      BY <1>5, <2>2
  <2>6. FromEntries(strategy, combos, handled)'
    BY <1>1, <2>3, <2>5 DEF FromEntries
  <2> QED
    BY <1>1, <2>6 DEF NamesInv
<1>7. CASE ~\E c \in ToSet(combos) : SubsetMatch(c, e)
  <2>1. combos' = Append(combos, e)
    BY <1>1, <1>7 DEF AfterInclude
  <2>2. /\ Len(combos') = Len(combos) + 1 /\ combos'[Len(combos) + 1] = e
        /\ \A i \in 1..Len(combos) : combos'[i] = combos[i]
    BY <1>2, <2>1, Appended
  <2>3. \A i \in 1..Len(combos') : i \in 1..Len(combos) \/ i = Len(combos) + 1
    BY <1>2, <2>2
  <2>4. \A i \in 1..Len(combos) : /\ Extends(combos'[i], combos[i])
                                  /\ DOMAIN combos'[i] \subseteq DOMAIN combos[i]
    BY <2>2 DEF Extends
  <2>5. AllMatch(e, e)
    BY DEF AllMatch
  <2>6. \A i \in 1..Len(combos') : \A k \in DOMAIN combos'[i] \ DOMAIN strategy.axes :
          \E m \in 1..handled + 1 : /\ k \in DOMAIN strategy.include[m]
                                    /\ AllMatch(combos'[i], strategy.include[m])
    BY <1>4, <1>5, <2>2, <2>3, <2>4, <2>5
  <2>7. FromEntries(strategy, combos, handled)'
    BY <1>1, <2>6 DEF FromEntries
  <2> QED
    BY <1>1, <2>7 DEF NamesInv
<1> QED
  BY <1>6, <1>7

\* Where the names of the combinations come from, at each step.
THEOREM NamesInvariance == Spec => []NamesInv
<1>1. Init => NamesInv
  BY DEF Init, NamesInv
<1>2. ASSUME IInv, NamesInv, [Next]_vars
      PROVE  NamesInv'
  <2>1. CASE UNCHANGED vars
    BY <1>2, <2>1 DEF vars, NamesInv
  <2>2. CASE RunOnce \/ Reject
    BY <2>2 DEF RunOnce, Reject, NamesInv
  <2>3. CASE Finish
    BY <1>2, <2>3 DEF Finish, NamesInv
  <2> QED
    BY <1>2, <2>1, <2>2, <2>3, BeginNames, PassBegins, CrossComboNames, PassEnds,
       ExcludeComboNames, IncludeNames
    DEF Next, Returned
<1> QED
  BY <1>1, <1>2, Invariance, PTL DEF Spec

\* usage.md:152-154: no include entry is lost, and where there are axes and
\* entries agree on the names they add, they are matched on the axes only.
THEOREM IncludesOnAxes == Spec => []IncludesMatchOnAxes
<1>1. ASSUME IInv, NamesInv, Expanded
      PROVE  IncludesMatchOnAxes
  <2> DEFINE N == Cardinality(Original)
             L == Len(strategy.include)
             Entries == ToSet(strategy.include)
             Of(i) == {e \in Entries : AgreesOnAxes(e, combos[i])}
  <2>1. PICK pick : WithIncludes(strategy, combos, N, Len(combos), pick, L)
    BY <1>1, ExpandedList
  <2>2. strategy \in Strategies /\ strategy \notin {NoMatrix, Malformed}
    BY <1>1 DEF IInv, Typed, Checked, Expanded
  <2>3. Entries = {strategy.include[m] : m \in 1..L}
    BY <2>2, WellFormed DEF ToSet
  <2>4. ToSet(combos) = {combos[i] : i \in 1..Len(combos)}
    BY <1>1, LenOfSequence DEF IInv, Typed, ToSet
  <2>5. N \in 0..Len(combos) /\ Len(combos) \in Nat
    BY <1>1, ExpandedList, LenOfSequence DEF IInv, Typed
  <2>6. /\ Used(strategy, combos, L) /\ Settled(strategy, combos, N, L)
        /\ Justified(strategy, combos, N, Len(combos), L)
        /\ Lists(strategy, combos, N, pick, Original)
    BY <2>1, SameOriginals DEF WithIncludes
  <2>7. FromEntries(strategy, combos, L)
    BY <1>1 DEF NamesInv, Expanded
  <2>8. \A p \in Original : DOMAIN p = Axes
    BY DEF Original, Picks
  <2> HIDE DEF N, L
  <2>9. \A e \in Entries : \E c \in ToSet(combos) : AllMatch(c, e)
    BY <2>3, <2>4, <2>6 DEF Used
  <2>10. \A i \in 1..N : i \in 1..Len(combos) /\ Axes \subseteq DOMAIN combos[i]
    BY <2>5, <2>6, <2>8 DEF Lists, Ordered, Stands
  <2> SUFFICES ASSUME AddedNamesAgree, Axes # {}
               PROVE  /\ \A i \in 1..N :
                           /\ \A e \in Of(i) : AllMatch(combos[i], e)
                           /\ DOMAIN combos[i] = Axes \cup UNION {DOMAIN e : e \in Of(i)}
                      /\ \A i \in N + 1..Len(combos) :
                           \E e \in Entries : /\ AllMatch(combos[i], e)
                                              /\ \A j \in 1..N : e \notin Of(j)
    BY <1>1, <2>9 DEF IncludesMatchOnAxes, N
  \* A contradiction in a name that is no axis would be one of two entries.
  <2>11. ASSUME NEW i \in 1..N, NEW e \in Entries, Contradicts(e, combos[i])
         PROVE  ~AgreesOnAxes(e, combos[i])
    <3>1. PICK k \in DOMAIN e \cap DOMAIN combos[i] : e[k] # combos[i][k]
      BY <2>11 DEF Contradicts
    <3>2. CASE k \in Axes
      BY <3>1, <3>2 DEF AgreesOnAxes
    <3>3. CASE k \notin Axes
      <4>1. PICK m \in 1..L : /\ k \in DOMAIN strategy.include[m]
                              /\ AllMatch(combos[i], strategy.include[m])
        BY <2>7, <2>10, <3>1, <3>3 DEF FromEntries, Axes
      <4>2. strategy.include[m] \in Entries /\ strategy.include[m][k] = combos[i][k]
        BY <2>3, <4>1 DEF AllMatch
      <4> QED
        BY <3>1, <3>3, <4>1, <4>2 DEF AddedNamesAgree
    <3> QED
      BY <3>2, <3>3
  <2>12. \A i \in 1..N, e \in Entries : AllMatch(combos[i], e) \/ Contradicts(e, combos[i])
    BY <2>3, <2>6 DEF Settled
  <2>13. \A i \in 1..N : \A e \in Of(i) : AllMatch(combos[i], e)
    BY <2>11, <2>12
  <2>14. \A i \in 1..N, e \in Entries : AllMatch(combos[i], e) => e \in Of(i)
    BY DEF AllMatch, AgreesOnAxes
  <2>15. ASSUME NEW i \in 1..N
         PROVE  DOMAIN combos[i] = Axes \cup UNION {DOMAIN e : e \in Of(i)}
    <3>1. \A e \in Of(i) : DOMAIN e \subseteq DOMAIN combos[i]
      BY <2>13 DEF AllMatch
    <3>2. ASSUME NEW k \in DOMAIN combos[i], k \notin Axes
          PROVE  \E e \in Of(i) : k \in DOMAIN e
      <4>1. PICK m \in 1..L : /\ k \in DOMAIN strategy.include[m]
                              /\ AllMatch(combos[i], strategy.include[m])
        BY <2>7, <2>10, <3>2 DEF FromEntries, Axes
      <4>2. strategy.include[m] \in Of(i)
        BY <2>3, <2>14, <4>1
      <4> QED
        BY <4>1, <4>2
    <3> HIDE DEF Of
    <3> QED
      BY <2>10, <3>1, <3>2
  <2>16. ASSUME NEW i \in N + 1..Len(combos)
         PROVE  \E e \in Entries : AllMatch(combos[i], e) /\ \A j \in 1..N : e \notin Of(j)
    <3>1. PICK m \in 1..L : /\ AllMatch(combos[i], strategy.include[m])
                            /\ \A j \in 1..N : Contradicts(strategy.include[m], combos[j])
      BY <2>6 DEF Justified
    <3>2. strategy.include[m] \in Entries
      BY <2>3
    <3> QED
      BY <2>11, <3>1, <3>2
  <2> QED
    BY <2>13, <2>15, <2>16
<1>2. IInv /\ NamesInv => IncludesMatchOnAxes
  BY <1>1 DEF IncludesMatchOnAxes
<1> QED
  BY <1>2, Invariance, NamesInvariance, PTL
=============================================================================
