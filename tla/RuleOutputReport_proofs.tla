----------------------- MODULE RuleOutputReport_proofs -----------------------
(***************************************************************************)
(* Theorems about the rule-output section of a cost report, for any        *)
(* sources of rules, any caps, any answers to the queries and any          *)
(* denominators: the queries respect their caps and ask for every metric   *)
(* once, the totals are lower bounds, the rows tell the truth, and no      *)
(* definition is lost between the files or the ruler and the page. Correct *)
(* and LoadOK are the inductive invariants.                                *)
(***************************************************************************)
EXTENDS RuleOutputReport, CollectionTheorems, SequenceTheorems

(* The loop of chunk before the first name.                                *)
Start == [out |-> <<>>, cur |-> <<>>, size |-> 0]

(* The fold's function: what the loop makes of the names at each set of    *)
(* positions.                                                              *)
IsLoop(g, names, m, b, S) ==
    g = [s \in SUBSET S |-> IF s = {} THEN Start ELSE AddName(g[s \ {Max(s)}], names[Max(s)], m, b)]

--------------------------------------------------------------------------------
(* Chunk, as the loop it is.                                               *)

(* Chunk folds AddName over the names; the fold picks a function on the    *)
(* subsets of the positions.                                               *)
LEMMA LoopUnfolds ==
  ASSUME NEW names, NEW m, NEW b, NEW s,
         s = (CHOOSE g : IsLoop(g, names, m, b, DOMAIN names))[DOMAIN names]
  PROVE  Chunk(names, m, b) = IF s.cur # <<>> THEN Append(s.out, s.cur) ELSE s.out
BY DEF Chunk, FoldLeft, MapThenFoldSet, IsLoop, Start

(* Two such functions agree on every set both are defined on.              *)
LEMMA LoopUnique ==
  ASSUME NEW names, NEW m, NEW b, NEW g, NEW h, NEW S, NEW T,
         IsLoop(g, names, m, b, S), IsLoop(h, names, m, b, T),
         NEW U, IsFiniteSet(U), U \subseteq S, U \subseteq T, \A s \in SUBSET U : s # {} => Max(s) \in s
  PROVE  g[U] = h[U]
<1> DEFINE B == {V \in SUBSET U : g[V] # h[V]}
<1> SUFFICES ASSUME B # {} PROVE FALSE
  OBVIOUS
<1>1. B \subseteq SUBSET U
  OBVIOUS
<1>2. PICK V \in B : \A W \in SUBSET V : W # V => W \notin B
  <2> HIDE DEF B
  <2>1. QED
    BY <1>1, MinimalSubset
<1>3. CASE V = {}
  BY <1>2, <1>3 DEF IsLoop
<1>4. CASE V # {}
  <2>1. Max(V) \in V
    BY <1>4
  <2> DEFINE W == V \ {Max(V)}
  <2>2. W \in SUBSET V /\ W # V /\ W \in SUBSET S /\ W \in SUBSET T /\ W \in SUBSET U
    BY <2>1
  <2>3. g[W] = h[W]
    BY <1>2, <2>2
  <2>4. g[V] = AddName(g[W], names[Max(V)], m, b) /\ h[V] = AddName(h[W], names[Max(V)], m, b)
    BY <1>4 DEF IsLoop
  <2>5. QED
    BY <2>3, <2>4
<1>5. QED
  BY <1>3, <1>4

(* There is one on every finite set of positions.                          *)
LEMMA LoopExists ==
  ASSUME NEW names, NEW m, NEW b, NEW S, IsFiniteSet(S), \A s \in SUBSET S : s # {} => Max(s) \in s
  PROVE  \E g : IsLoop(g, names, m, b, S)
<1> DEFINE B == {V \in SUBSET S : ~ \E g : IsLoop(g, names, m, b, V)}
<1> SUFFICES ASSUME B # {} PROVE FALSE
  OBVIOUS
<1>1. B \subseteq SUBSET S
  OBVIOUS
<1>2. PICK V \in B : \A W \in SUBSET V : W # V => W \notin B
  <2> HIDE DEF B
  <2>1. QED
    BY <1>1, MinimalSubset
<1> DEFINE Sub(W) == CHOOSE g : IsLoop(g, names, m, b, W)
           Rest(s) == s \ {Max(s)}
           G == [s \in SUBSET V |-> IF s = {} THEN Start ELSE AddName(Sub(Rest(s))[Rest(s)], names[Max(s)], m, b)]
<1>3. \A W \in SUBSET V : W # V => IsLoop(Sub(W), names, m, b, W)
  BY <1>2
<1>4. ASSUME NEW s \in SUBSET V, s # {} PROVE G[Rest(s)] = Sub(Rest(s))[Rest(s)]
  <2> DEFINE w == Rest(s)
  <2>0. Max(s) \in s
    BY <1>4
  <2>1. w \in SUBSET V /\ w # V
    BY <2>0
  <2>2. IsLoop(Sub(w), names, m, b, w)
    BY <1>3, <2>1
  <2>3. CASE w = {}
    BY <2>2, <2>3 DEF IsLoop
  <2>4. CASE w # {}
    <3> DEFINE v == Rest(w)
    <3>1. v \in SUBSET V /\ v # V /\ v \in SUBSET w
      BY <2>1
    <3>2. IsLoop(Sub(v), names, m, b, v)
      BY <1>3, <3>1
    <3>3. IsFiniteSet(v) /\ \A u \in SUBSET v : u # {} => Max(u) \in u
      BY <3>1, FS_Subset
    <3>4. Sub(v)[v] = Sub(w)[v]
      <4> HIDE DEF Sub, v, w
      <4>1. QED
        BY <2>2, <3>1, <3>2, <3>3, LoopUnique
    <3>5. G[w] = AddName(Sub(v)[v], names[Max(w)], m, b)
      BY <2>1, <2>4
    <3>6. Sub(w)[w] = AddName(Sub(w)[v], names[Max(w)], m, b)
      <4> HIDE DEF Sub
      <4>1. QED
        BY <2>2, <2>4 DEF IsLoop
    <3>7. QED
      BY <3>4, <3>5, <3>6
  <2>5. QED
    BY <2>3, <2>4
<1>5. IsLoop(G, names, m, b, V)
  <2>1. \A s \in SUBSET V : s # {} => G[s] = AddName(G[Rest(s)], names[Max(s)], m, b)
    BY <1>4
  <2>2. G = [s \in SUBSET V |-> G[s]] /\ G[{}] = Start
    OBVIOUS
  <2> HIDE DEF G
  <2>3. \A s \in SUBSET V : G[s] = IF s = {} THEN Start ELSE AddName(G[Rest(s)], names[Max(s)], m, b)
    BY <2>1, <2>2
  <2>4. QED
    BY <2>2, <2>3 DEF IsLoop
<1>6. QED
  <2> HIDE DEF G
  <2>1. QED
    BY <1>2, <1>5

(* l is the loop's state after each of n names.                            *)
IsRun(l, names, n, m, b) ==
    /\ l[0] = Start
    /\ \A k \in 0..n - 1 : l[k + 1] = AddName(l[k], names[k + 1], m, b)
    /\ Chunk(names, m, b) = IF l[n].cur # <<>> THEN Append(l[n].out, l[n].cur) ELSE l[n].out

(* So Chunk has a run: the states its loop goes through, name after name.  *)
LEMMA LoopRuns ==
  ASSUME NEW names, NEW n \in Nat, DOMAIN names = 1..n, NEW m, NEW b
  PROVE  \E l : IsRun(l, names, n, m, b)
<1> DEFINE g == CHOOSE g : IsLoop(g, names, m, b, 1..n)
           l == [k \in 0..n |-> g[1..k]]
<1>1. IsFiniteSet(1..n) /\ \A s \in SUBSET (1..n) : s # {} => Max(s) \in s
  <2>1. IsFiniteSet(1..n)
    BY FS_Interval
  <2>2. ASSUME NEW s \in SUBSET (1..n), s # {} PROVE Max(s) \in s
    <3>1. IsFiniteSet(s)
      BY <2>1, FS_Subset
    <3>2. s \subseteq Int
      OBVIOUS
    <3>3. QED
      BY <2>2, <3>1, <3>2, Greatest
  <2>3. QED
    BY <2>1, <2>2
<1>2. IsLoop(g, names, m, b, 1..n)
  BY <1>1, LoopExists
<1>3. Chunk(names, m, b) = IF l[n].cur # <<>> THEN Append(l[n].out, l[n].cur) ELSE l[n].out
  <2>1. l[n] = (CHOOSE h : IsLoop(h, names, m, b, DOMAIN names))[DOMAIN names]
    OBVIOUS
  <2> HIDE DEF l
  <2>2. QED
    BY <2>1, LoopUnfolds
<1> HIDE DEF g
<1>4. l[0] = Start
  <2>1. 1..0 = {} /\ l[0] = g[1..0]
    OBVIOUS
  <2>2. QED
    BY <1>2, <2>1 DEF IsLoop
<1>5. ASSUME NEW k \in 0..n - 1 PROVE l[k + 1] = AddName(l[k], names[k + 1], m, b)
  <2> DEFINE s == 1..k + 1
  <2>1. s \in SUBSET (1..n) /\ k + 1 \in s /\ IsFiniteSet(s)
    BY <1>1, FS_Subset
  <2>2. Max(s) = k + 1
    <3>1. Max(s) \in s /\ \A x \in s : Max(s) >= x
      <4>1. s \subseteq Int /\ s # {}
        BY <2>1
      <4> HIDE DEF s
      <4>2. QED
        BY <2>1, <4>1, Greatest
    <3>2. QED
      BY <2>1, <3>1
  <2>3. s \ {Max(s)} = 1..k
    BY <2>2
  <2>4. g[s] = AddName(g[s \ {Max(s)}], names[Max(s)], m, b)
    <3>1. s # {}
      BY <2>1
    <3> HIDE DEF s
    <3>2. QED
      BY <1>2, <2>1, <3>1 DEF IsLoop
  <2>5. l[k + 1] = g[s] /\ l[k] = g[1..k]
    OBVIOUS
  <2> HIDE DEF l, s
  <2>6. QED
    BY <2>2, <2>3, <2>4, <2>5
<1>6. QED
  <2> HIDE DEF l
  <2>1. QED
    BY <1>3, <1>4, <1>5 DEF IsRun

(* A group that takes one more name grows by that name's bytes.            *)
LEMMA BytesAdd ==
  ASSUME NEW g \in Seq(Names), NEW n \in Names
  PROVE  /\ RegexBytes(g) \in Int /\ RegexBytes(<<>>) = 0
         /\ RegexBytes(Append(g, n)) = RegexBytes(g) + RegexLen[n]
<1> DEFINE h == Append(g, n)
           L == Len(g)
           f == [k \in DOMAIN g |-> RegexLen[g[k]]]
           e == [k \in DOMAIN h |-> RegexLen[h[k]]]
<1>1. L \in Nat /\ DOMAIN g = 1..L /\ h \in Seq(Names) /\ DOMAIN h = 1..L + 1 /\ RegexLen \in [Names -> Nat \ {0}]
  BY ChunkAssumption
<1>2. h[L + 1] = n /\ \A k \in 1..L : h[k] = g[k] /\ g[k] \in Names
  BY <1>1
<1>3. IsFiniteSet(1..L) /\ L + 1 \notin 1..L /\ 1..L + 1 = 1..L \cup {L + 1}
  <2>1. L \in Int
    BY <1>1
  <2>2. IsFiniteSet(1..L)
    BY <2>1, FS_Interval
  <2>3. L + 1 \notin 1..L /\ 1..L + 1 = 1..L \cup {L + 1}
    BY <1>1
  <2>4. QED
    BY <2>2, <2>3
<1>4. /\ \A k \in 1..L : e[k] = f[k] /\ f[k] \in Int
      /\ e[L + 1] = RegexLen[n] /\ RegexLen[n] \in Int
  BY <1>1, <1>2
<1>5. RegexBytes(g) = SumFunctionOnSet(f, 1..L) /\ RegexBytes(h) = SumFunctionOnSet(e, 1..L + 1)
  BY <1>1 DEF RegexBytes, SumFunction
<1> HIDE DEF f, e, h
<1>6. SumFunctionOnSet(e, 1..L) = SumFunctionOnSet(f, 1..L)
  BY <1>3, <1>4, SumAgree
<1>7. SumFunctionOnSet(e, 1..L \cup {L + 1}) = SumFunctionOnSet(e, 1..L) + e[L + 1]
  <2>1. PICK S, x : S = 1..L /\ x = L + 1
    OBVIOUS
  <2>2. IsFiniteSet(S) /\ x \notin S /\ (\A y \in S : e[y] \in Int) /\ e[x] \in Int
    BY <1>3, <1>4, <2>1
  <2>3. SumFunctionOnSet(e, S \cup {x}) = SumFunctionOnSet(e, S) + e[x]
    BY <2>2, SumAdd
  <2>4. QED
    BY <2>1, <2>3
<1>8. SumFunctionOnSet(f, 1..L) \in Int
  BY <1>3, <1>4, SumType
<1>9. RegexBytes(<<>>) = 0
  <2>1. PICK z : z = [k \in DOMAIN <<>> |-> RegexLen[<<>>[k]]]
    OBVIOUS
  <2>2. RegexBytes(<<>>) = SumFunctionOnSet(z, DOMAIN z) /\ DOMAIN z = {}
    BY <2>1 DEF RegexBytes, SumFunction
  <2>3. QED
    BY <2>2, SumEmpty
<1>10. QED
  BY <1>3, <1>4, <1>5, <1>6, <1>7, <1>8, <1>9 DEF h

(* r cuts the first k names into groups; group c begins after off[c] of    *)
(* them.                                                                   *)
Cut(names, r, k, off) ==
    /\ off \in [1..Len(r) + 1 -> Nat] /\ off[1] = 0 /\ off[Len(r) + 1] = k
    /\ \A c \in 1..Len(r) :
        /\ off[c + 1] = off[c] + Len(r[c])
        /\ \A i \in 1..Len(r[c]) : r[c][i] = names[off[c] + i]

(* A group that respects the caps.                                         *)
WithinCaps(g, m, b) == Len(g) \in 1..m /\ (Len(g) = 1 \/ RegexBytes(g) <= b)

(* A group that could not take n.                                          *)
NoRoom(g, n, m, b) == Len(g) = m \/ RegexBytes(g) + RegexLen[n] > b

(* Groups that respect the caps, of which none was closed early.           *)
Capped(r, m, b) ==
    /\ \A c \in 1..Len(r) : WithinCaps(r[c], m, b)
    /\ \A c \in 1..Len(r) - 1 : NoRoom(r[c], r[c + 1][1], m, b)

--------------------------------------------------------------------------------
(* What the loop keeps.                                                    *)

(* Closing a group cuts the names one group further.                       *)
LEMMA GroupAdded ==
  ASSUME NEW names, NEW r \in Seq(Seq(Names)), NEW g \in Seq(Names), NEW k \in Nat, NEW off,
         Cut(names, r, k, off), \A i \in 1..Len(g) : g[i] = names[k + i]
  PROVE  \E off2 : Cut(names, Append(r, g), k + Len(g), off2)
<1> DEFINE q == Append(r, g)
           L == Len(r)
           off2 == [c \in 1..L + 2 |-> IF c = L + 2 THEN k + Len(g) ELSE off[c]]
<1>1. L \in Nat /\ q \in Seq(Seq(Names)) /\ Len(q) = L + 1 /\ q[L + 1] = g /\ (\A c \in 1..L : q[c] = r[c])
      /\ Len(g) \in Nat
  OBVIOUS
<1>2. off \in [1..L + 1 -> Nat] /\ off[1] = 0 /\ off[L + 1] = k
  BY DEF Cut
<1>3. off2 \in [1..L + 2 -> Nat] /\ off2[1] = 0 /\ off2[L + 2] = k + Len(g) /\ off2[L + 1] = k
      /\ \A c \in 1..L + 1 : off2[c] = off[c]
  BY <1>1, <1>2
<1> HIDE DEF off2, q
<1>4. ASSUME NEW c \in 1..L
      PROVE  off2[c + 1] = off2[c] + Len(q[c]) /\ \A i \in 1..Len(q[c]) : q[c][i] = names[off2[c] + i]
  <2>1. off2[c + 1] = off[c + 1] /\ off2[c] = off[c] /\ q[c] = r[c]
    <3>1. c \in 1..L + 1 /\ c + 1 \in 1..L + 1
      BY <1>1
    <3>2. QED
      BY <1>1, <1>3, <3>1
  <2>2. QED
    BY <2>1 DEF Cut
<1>5. off2[L + 1 + 1] = off2[L + 1] + Len(q[L + 1]) /\ \A i \in 1..Len(q[L + 1]) : q[L + 1][i] = names[off2[L + 1] + i]
  BY <1>1, <1>3
<1>6. Len(q) + 1 = L + 2 /\ \A c \in 1..Len(q) : c \in 1..L \/ c = L + 1
  BY <1>1
<1>7. Cut(names, q, k + Len(g), off2)
  <2>1. \A c \in 1..Len(q) : /\ off2[c + 1] = off2[c] + Len(q[c])
                             /\ \A i \in 1..Len(q[c]) : q[c][i] = names[off2[c] + i]
    BY <1>4, <1>5, <1>6
  <2>2. QED
    BY <1>3, <1>6, <2>1 DEF Cut
<1>8. QED
  BY <1>7 DEF q

(* A closed group within the caps keeps the list of groups within them, if *)
(* the group before it had no room.                                        *)
LEMMA GroupCapped ==
  ASSUME NEW r \in Seq(Seq(Names)), NEW g \in Seq(Names), NEW m, NEW b, Capped(r, m, b),
         WithinCaps(g, m, b), r # <<>> => NoRoom(r[Len(r)], g[1], m, b)
  PROVE  Capped(Append(r, g), m, b)
<1> DEFINE q == Append(r, g)
           L == Len(r)
<1>1. L \in Nat /\ Len(q) = L + 1 /\ q[L + 1] = g /\ (\A c \in 1..L : q[c] = r[c]) /\ (L > 0 => r # <<>>)
  OBVIOUS
<1> HIDE DEF q
<1>2. \A c \in 1..Len(q) : WithinCaps(q[c], m, b)
  <2>1. \A c \in 1..Len(q) : c \in 1..L \/ c = L + 1
    BY <1>1
  <2>2. QED
    BY <1>1, <2>1 DEF Capped
<1>3. ASSUME NEW c \in 1..Len(q) - 1 PROVE NoRoom(q[c], q[c + 1][1], m, b)
  <2>1. CASE c = L
    <3>1. q[c] = r[L] /\ q[c + 1] = g /\ r # <<>>
      BY <1>1, <2>1
    <3>2. QED
      BY <3>1
  <2>2. CASE c # L
    <3>1. c \in 1..L - 1 /\ c \in 1..L /\ c + 1 \in 1..L
      BY <1>1, <2>2
    <3>2. q[c] = r[c] /\ q[c + 1] = r[c + 1]
      BY <1>1, <3>1
    <3>3. QED
      BY <3>1, <3>2 DEF Capped
  <2>3. QED
    BY <2>1, <2>2
<1>4. QED
  BY <1>2, <1>3 DEF Capped, q

(* What the loop keeps: s.out and s.cur are a cut of the first k names     *)
(* that respects the caps.                                                 *)
LoopState(names, m, b, k, s) ==
    /\ s \in [out : Seq(Seq(Names)), cur : Seq(Names), size : Int]
    /\ s.size = RegexBytes(s.cur)
    /\ Len(s.cur) <= k
    /\ \E off : Cut(names, s.out, k - Len(s.cur), off)
    /\ \A i \in 1..Len(s.cur) : s.cur[i] = names[k - Len(s.cur) + i]
    /\ Capped(s.out, m, b)
    /\ s.cur = <<>> => s.out = <<>>
    /\ s.cur # <<>> => WithinCaps(s.cur, m, b) /\ (s.out # <<>> => NoRoom(s.out[Len(s.out)], s.cur[1], m, b))

(* LoopState holds before the first name.                                  *)
LEMMA LoopStarts ==
  ASSUME NEW names, NEW m, NEW b
  PROVE  LoopState(names, m, b, 0, Start)
<1>1. Start.out = <<>> /\ Start.cur = <<>> /\ Start.size = 0 /\ Start \in [out : Seq(Seq(Names)), cur : Seq(Names), size : Int]
  BY DEF Start
<1>2. RegexBytes(<<>>) = 0
  <2>1. PICK z : z = [k \in DOMAIN <<>> |-> RegexLen[<<>>[k]]]
    OBVIOUS
  <2>2. RegexBytes(<<>>) = SumFunctionOnSet(z, DOMAIN z) /\ DOMAIN z = {}
    BY <2>1 DEF RegexBytes, SumFunction
  <2>3. QED
    BY <2>2, SumEmpty
<1>3. Cut(names, <<>>, 0, [c \in 1..1 |-> 0])
  BY DEF Cut
<1>4. Capped(<<>>, m, b)
  BY DEF Capped
<1>5. QED
  BY <1>1, <1>2, <1>3, <1>4 DEF LoopState

(* Every turn of the loop preserves it (chunk, count.go:216).              *)
LEMMA LoopSteps ==
  ASSUME NEW names \in Seq(Names), NEW m \in Nat \ {0}, NEW b \in Int,
         NEW k \in 0..Len(names) - 1, NEW s, LoopState(names, m, b, k, s),
         NEW z, z = AddName(s, names[k + 1], m, b)
  PROVE  LoopState(names, m, b, k + 1, z)
<1> DEFINE n == names[k + 1]
<1>0. /\ s.out \in Seq(Seq(Names)) /\ s.cur \in Seq(Names) /\ s.size \in Int
      /\ s = [out |-> s.out, cur |-> s.cur, size |-> s.size]
      /\ s.size = RegexBytes(s.cur) /\ Len(s.cur) <= k
      /\ \E off : Cut(names, s.out, k - Len(s.cur), off)
      /\ \A i \in 1..Len(s.cur) : s.cur[i] = names[k - Len(s.cur) + i]
      /\ Capped(s.out, m, b)
      /\ s.cur = <<>> => s.out = <<>>
      /\ s.cur # <<>> => WithinCaps(s.cur, m, b) /\ (s.out # <<>> => NoRoom(s.out[Len(s.out)], s.cur[1], m, b))
  BY DEF LoopState
<1>1. n \in Names /\ k \in Nat /\ Len(s.cur) \in Nat /\ RegexLen[n] \in Int
  <2>1. k + 1 \in 1..Len(names) /\ k \in Nat
    OBVIOUS
  <2>2. names[k + 1] \in Names
    BY <2>1
  <2>3. Len(s.cur) \in Nat
    BY <1>0
  <2> HIDE DEF n
  <2>4. n \in Names
    BY <2>2 DEF n
  <2>5. RegexLen[n] \in Int
    BY <2>4, ChunkAssumption
  <2>6. QED
    BY <2>1, <2>3, <2>4, <2>5
<1> HIDE DEF n
<1>2. RegexBytes(<<>>) = 0 /\ RegexBytes(Append(s.cur, n)) = RegexBytes(s.cur) + RegexLen[n]
  BY <1>0, <1>1, BytesAdd
<1>3. CASE MustCut(s, RegexLen[n], m, b)
  <2>1. z = [out |-> Append(s.out, s.cur), cur |-> <<n>>, size |-> RegexLen[n]]
    BY <1>3 DEF AddName, n
  <2>2. s.cur # <<>> /\ (Len(s.cur) >= m \/ s.size + RegexLen[n] > b)
    BY <1>3 DEF MustCut
  <2>3. NoRoom(s.cur, n, m, b)
    BY <1>0, <1>1, <2>2 DEF NoRoom, WithinCaps
  <2>4. Capped(Append(s.out, s.cur), m, b)
    BY <1>0, <2>2, GroupCapped
  <2>5. \E off : Cut(names, Append(s.out, s.cur), k, off)
    <3>1. PICK off : Cut(names, s.out, k - Len(s.cur), off)
      BY <1>0
    <3>2. PICK l : l = k - Len(s.cur)
      OBVIOUS
    <3>3. l \in Nat /\ l + Len(s.cur) = k
      BY <1>0, <1>1, <3>2, SMTT(60)
    <3>4. \E off2 : Cut(names, Append(s.out, s.cur), l + Len(s.cur), off2)
      BY <1>0, <3>1, <3>2, <3>3, GroupAdded
    <3>5. QED
      BY <3>3, <3>4
  <2>6. RegexBytes(<<n>>) = RegexLen[n]
    <3>1. <<>> \in Seq(Names) /\ <<n>> = Append(<<>>, n)
      BY <1>1
    <3>2. RegexBytes(Append(<<>>, n)) = RegexBytes(<<>>) + RegexLen[n]
      BY <1>1, <3>1, BytesAdd
    <3>3. QED
      BY <1>1, <1>2, <3>1, <3>2
  <2>7. /\ z.out = Append(s.out, s.cur) /\ z.cur = <<n>> /\ z.size = RegexLen[n]
        /\ z \in [out : Seq(Seq(Names)), cur : Seq(Names), size : Int]
    BY <1>0, <1>1, <2>1
  <2>8. /\ Len(z.cur) = 1 /\ z.cur[1] = n /\ z.cur # <<>> /\ (k + 1) - 1 = k /\ 1 <= k + 1
        /\ \A i \in 1..Len(z.cur) : z.cur[i] = names[(k + 1) - Len(z.cur) + i]
    BY <1>1, <2>7 DEF n
  <2>9. WithinCaps(z.cur, m, b)
    BY <2>8 DEF WithinCaps
  <2>10. NoRoom(z.out[Len(z.out)], z.cur[1], m, b)
    <3>1. z.out[Len(z.out)] = s.cur
      BY <1>0, <2>7
    <3>2. QED
      BY <2>3, <2>8, <3>1
  <2>11. \E off : Cut(names, z.out, (k + 1) - Len(z.cur), off)
    BY <2>5, <2>7, <2>8
  <2>12. QED
    BY <2>4, <2>6, <2>7, <2>8, <2>9, <2>10, <2>11 DEF LoopState
<1>4. CASE ~MustCut(s, RegexLen[n], m, b)
  <2>1. z = [s EXCEPT !.cur = Append(@, n), !.size = @ + RegexLen[n]]
    BY <1>4 DEF AddName, n
  <2>2. /\ z.out = s.out /\ z.cur = Append(s.cur, n) /\ z.size = s.size + RegexLen[n]
        /\ z \in [out : Seq(Seq(Names)), cur : Seq(Names), size : Int]
    <3>1. PICK c, w : c = Append(s.cur, n) /\ w = s.size + RegexLen[n]
      OBVIOUS
    <3>2. c \in Seq(Names) /\ w \in Int
      BY <1>0, <1>1, <3>1
    <3>3. z = [out |-> s.out, cur |-> c, size |-> w]
      BY <1>0, <2>1, <3>1
    <3>4. QED
      BY <1>0, <3>1, <3>2, <3>3
  <2>3. s.cur = <<>> \/ (Len(s.cur) < m /\ s.size + RegexLen[n] <= b)
    BY <1>0, <1>1, <1>4, SMTT(60) DEF MustCut
  <2>4. Len(z.cur) = Len(s.cur) + 1 /\ z.cur # <<>> /\ z.cur[Len(s.cur) + 1] = n
        /\ \A i \in 1..Len(s.cur) : z.cur[i] = s.cur[i]
    <3>1. PICK c : c = s.cur
      OBVIOUS
    <3>2. c \in Seq(Names)
      BY <1>0, <3>1
    <3>3. /\ Len(Append(c, n)) = Len(c) + 1 /\ Append(c, n) # <<>> /\ Append(c, n)[Len(c) + 1] = n
          /\ \A i \in 1..Len(c) : Append(c, n)[i] = c[i]
      BY <1>1, <3>2
    <3>4. QED
      BY <2>2, <3>1, <3>3
  <2>5. (k + 1) - Len(z.cur) = k - Len(s.cur) /\ Len(z.cur) <= k + 1
    BY <1>0, <1>1, <2>4, SMTT(60)
  <2>6. \A i \in 1..Len(z.cur) : z.cur[i] = names[(k + 1) - Len(z.cur) + i]
    <3>1. SUFFICES ASSUME NEW i \in 1..Len(z.cur) PROVE z.cur[i] = names[k - Len(s.cur) + i]
      BY <2>5
    <3>2. CASE i \in 1..Len(s.cur)
      BY <1>0, <2>4, <3>2
    <3>3. CASE i = Len(s.cur) + 1
      <4>1. k - Len(s.cur) + i = k + 1
        <5>1. PICK c : c = Len(s.cur)
          OBVIOUS
        <5>2. c \in Int /\ k \in Int /\ i = c + 1
          BY <1>1, <3>3, <5>1
        <5>3. k - c + i = k + 1
          BY <5>2
        <5>4. QED
          BY <5>1, <5>3
      <4>2. QED
        BY <2>4, <3>3, <4>1 DEF n
    <3>4. i \in 1..Len(s.cur) \/ i = Len(s.cur) + 1
      <4>1. PICK c : c = Len(s.cur)
        OBVIOUS
      <4>2. c \in Nat /\ i \in 1..c + 1
        BY <1>1, <2>4, <4>1
      <4>3. i \in 1..c \/ i = c + 1
        BY <4>2
      <4>4. QED
        BY <4>1, <4>3
    <3>5. QED
      BY <3>2, <3>3, <3>4
  <2>7. WithinCaps(z.cur, m, b)
    <3>1. CASE s.cur = <<>>
      BY <2>4, <3>1 DEF WithinCaps
    <3>2. CASE s.cur # <<>>
      <4>1. Len(z.cur) <= m /\ Len(z.cur) \in Nat /\ Len(z.cur) >= 1
        BY <1>1, <2>3, <2>4, <3>2
      <4>2. RegexBytes(z.cur) <= b
        BY <1>0, <1>2, <2>2, <2>3, <3>2
      <4>3. QED
        BY <4>1, <4>2 DEF WithinCaps
    <3>3. QED
      BY <3>1, <3>2
  <2>8. z.out # <<>> => NoRoom(z.out[Len(z.out)], z.cur[1], m, b)
    <3>1. SUFFICES ASSUME s.out # <<>> PROVE NoRoom(s.out[Len(s.out)], z.cur[1], m, b)
      BY <2>2
    <3>2. s.cur # <<>>
      BY <1>0, <3>1
    <3>3. 1 \in 1..Len(s.cur)
      BY <1>0, <3>2
    <3>4. QED
      BY <1>0, <2>4, <3>1, <3>2, <3>3
  <2>9. z.size = RegexBytes(z.cur)
    BY <1>0, <1>2, <2>2
  <2>10. \E off : Cut(names, z.out, (k + 1) - Len(z.cur), off)
    BY <1>0, <2>2, <2>5
  <2>11. Capped(z.out, m, b)
    BY <1>0, <2>2
  <2>12. QED
    BY <2>2, <2>4, <2>5, <2>6, <2>7, <2>8, <2>9, <2>10, <2>11 DEF LoopState
<1>5. QED
  BY <1>3, <1>4

(* Chunk cuts its names, in order and with none left over, into groups     *)
(* that respect the caps.                                                  *)
LEMMA ChunkCuts ==
  ASSUME NEW names \in Seq(Names), NEW m \in Nat \ {0}, NEW b \in Int,
         NEW r, r = Chunk(names, m, b)
  PROVE  /\ r \in Seq(Seq(Names)) /\ Capped(r, m, b)
         /\ \E off : Cut(names, r, Len(names), off)
<1> DEFINE n == Len(names)
<1>1. n \in Nat /\ DOMAIN names = 1..n
  OBVIOUS
<1>2. PICK l : IsRun(l, names, n, m, b)
  <2> HIDE DEF n
  <2>1. QED
    BY <1>1, LoopRuns
<1>3. \A k \in 0..n : LoopState(names, m, b, k, l[k])
  <2> DEFINE B == {k \in 0..n : ~LoopState(names, m, b, k, l[k])}
  <2>1. SUFFICES ASSUME B # {} PROVE FALSE
    OBVIOUS
  <2>2. IsFiniteSet(B) /\ B \subseteq Int
    <3>1. IsFiniteSet(0..n)
      BY <1>1, FS_Interval
    <3>2. IsFiniteSet(B)
      BY <3>1, FS_Subset
    <3>3. QED
      BY <3>2
  <2>3. PICK k \in B : \A j \in B : k <= j
    <3> HIDE DEF B
    <3>1. QED
      BY <2>1, <2>2, Least
  <2>4. CASE k = 0
    BY <1>2, <2>3, <2>4, LoopStarts DEF IsRun
  <2>5. CASE k # 0
    <3>1. k - 1 \in 0..n - 1 /\ k - 1 \in 0..n /\ (k - 1) + 1 = k /\ ~(k <= k - 1)
      BY <2>3, <2>5
    <3>2. LoopState(names, m, b, k - 1, l[k - 1])
      BY <2>3, <3>1
    <3>3. l[k] = AddName(l[k - 1], names[(k - 1) + 1], m, b)
      BY <1>2, <3>1 DEF IsRun
    <3>4. LoopState(names, m, b, (k - 1) + 1, l[k])
      BY <3>1, <3>2, <3>3, LoopSteps
    <3>5. QED
      BY <2>3, <3>1, <3>4
  <2>6. QED
    BY <2>4, <2>5
<1>4. PICK s : s = l[n]
  OBVIOUS
<1>5. LoopState(names, m, b, n, s) /\ r = IF s.cur # <<>> THEN Append(s.out, s.cur) ELSE s.out
  <2>1. n \in 0..n
    BY <1>1
  <2>2. QED
    BY <1>2, <1>3, <1>4, <2>1 DEF IsRun
<1>6. s.out \in Seq(Seq(Names)) /\ s.cur \in Seq(Names)
  BY <1>5 DEF LoopState
<1>7. CASE s.cur = <<>>
  BY <1>1, <1>5, <1>6, <1>7 DEF LoopState
<1>8. CASE s.cur # <<>>
  <2>1. r = Append(s.out, s.cur) /\ r \in Seq(Seq(Names))
    BY <1>5, <1>6, <1>8
  <2>2. Capped(r, m, b)
    <3>1. Capped(s.out, m, b) /\ WithinCaps(s.cur, m, b) /\ (s.out # <<>> => NoRoom(s.out[Len(s.out)], s.cur[1], m, b))
      BY <1>5, <1>8 DEF LoopState
    <3>2. QED
      BY <1>6, <2>1, <3>1, GroupCapped
  <2>3. \E off : Cut(names, r, n, off)
    <3>1. PICK off : Cut(names, s.out, n - Len(s.cur), off)
      BY <1>5 DEF LoopState
    <3>2. Len(s.cur) <= n /\ \A i \in 1..Len(s.cur) : s.cur[i] = names[n - Len(s.cur) + i]
      BY <1>5 DEF LoopState
    <3>3. PICK j : j = n - Len(s.cur)
      OBVIOUS
    <3>4. j \in Nat /\ j + Len(s.cur) = n
      <4>1. PICK c : c = Len(s.cur)
        OBVIOUS
      <4>2. c \in Nat /\ c <= n /\ j = n - c
        BY <1>6, <3>2, <3>3, <4>1
      <4> HIDE DEF n
      <4>3. j \in Nat /\ j + c = n
        BY <1>1, <4>2
      <4>4. QED
        BY <4>1, <4>3
    <3>5. \E off2 : Cut(names, Append(s.out, s.cur), j + Len(s.cur), off2)
      BY <1>6, <3>1, <3>2, <3>3, <3>4, GroupAdded
    <3>6. QED
      BY <2>1, <3>4, <3>5
  <2>4. QED
    BY <2>1, <2>2, <2>3
<1>9. QED
  BY <1>7, <1>8

(* The groups of a cut begin one after the other.                          *)
LEMMA CutGrows ==
  ASSUME NEW names, NEW r \in Seq(Seq(Names)), NEW n, NEW off, Cut(names, r, n, off),
         NEW c \in 1..Len(r) + 1, NEW d \in 1..Len(r) + 1, c <= d
  PROVE  off[c] <= off[d]
<1> DEFINE B == {e \in 1..Len(r) + 1 : c <= e /\ off[e] < off[c]}
<1>1. Len(r) \in Nat /\ off \in [1..Len(r) + 1 -> Nat] /\ \A e \in 1..Len(r) : off[e + 1] = off[e] + Len(r[e]) /\ Len(r[e]) \in Nat
  BY DEF Cut
<1>2. SUFFICES ASSUME B # {} PROVE FALSE
  <2>1. off[c] \in Int /\ off[d] \in Int
    <3>1. off \in [1..Len(r) + 1 -> Nat]
      BY <1>1
    <3> HIDE DEF B
    <3>2. off[c] \in Nat /\ off[d] \in Nat
      BY <3>1
    <3>3. QED
      BY <3>2
  <2>2. ASSUME off[d] < off[c] PROVE d \in B
    BY <2>2
  <2> HIDE DEF B
  <2>3. QED
    BY <2>1, <2>2
<1>3. IsFiniteSet(B) /\ B \subseteq Int
  <2>1. IsFiniteSet(1..Len(r) + 1)
    BY <1>1, FS_Interval
  <2>2. IsFiniteSet(B)
    BY <2>1, FS_Subset
  <2>3. QED
    BY <2>2
<1>4. PICK e \in B : \A x \in B : e <= x
  <2> HIDE DEF B
  <2>1. QED
    BY <1>2, <1>3, Least
<1>5. e # c
  BY <1>1, <1>4
<1>6. e - 1 \in 1..Len(r) /\ e - 1 \in 1..Len(r) + 1 /\ c <= e - 1 /\ (e - 1) + 1 = e /\ ~(e <= e - 1)
  BY <1>1, <1>4, <1>5
<1>7. ~(off[e - 1] < off[c])
  BY <1>4, <1>6
<1>8. off[e] = off[e - 1] + Len(r[e - 1]) /\ Len(r[e - 1]) \in Nat
  BY <1>1, <1>6
<1>9. off[e] \in Nat /\ off[c] \in Nat /\ off[e - 1] \in Nat
  BY <1>1, <1>4, <1>6
<1>10. off[e] < off[c]
  BY <1>4
<1> HIDE DEF B
<1>11. QED
  BY <1>7, <1>8, <1>9, <1>10

(* Where the names of a tenant's groups stand.                             *)
Places(r) == UNION {{c} \X (DOMAIN r[c]) : c \in DOMAIN r}

(* The places of a cut hold the names it was cut from, each once when they *)
(* are distinct.                                                           *)
LEMMA CutCovers ==
  ASSUME NEW names \in Seq(Names), NEW r \in Seq(Seq(Names)), \E off : Cut(names, r, Len(names), off)
  PROVE  /\ {r[p[1]][p[2]] : p \in Places(r)} = Range(names)
         /\ (\A j, k \in DOMAIN names : names[j] = names[k] => j = k) =>
                \A p, q \in Places(r) : r[p[1]][p[2]] = r[q[1]][q[2]] => p = q
<1> DEFINE n == Len(names)
           L == Len(r)
<1>1. PICK off : Cut(names, r, n, off)
  OBVIOUS
<1>2. /\ n \in Nat /\ DOMAIN names = 1..n /\ L \in Nat /\ DOMAIN r = 1..L
      /\ off \in [1..L + 1 -> Nat] /\ off[1] = 0 /\ off[L + 1] = n
      /\ \A c \in 1..L : /\ r[c] \in Seq(Names) /\ Len(r[c]) \in Nat /\ DOMAIN r[c] = 1..Len(r[c])
                         /\ off[c + 1] = off[c] + Len(r[c]) /\ \A i \in 1..Len(r[c]) : r[c][i] = names[off[c] + i]
  BY <1>1 DEF Cut
<1>3. \A c, d \in 1..L + 1 : c <= d => off[c] <= off[d]
  BY <1>1, CutGrows
<1> HIDE DEF n, L
<1>4. ASSUME NEW p \in Places(r)
      PROVE  /\ p[1] \in 1..L /\ p[2] \in 1..Len(r[p[1]]) /\ p = <<p[1], p[2]>>
             /\ r[p[1]][p[2]] = names[off[p[1]] + p[2]]
             /\ off[p[1]] + p[2] \in 1..n /\ off[p[1]] + p[2] <= off[p[1] + 1]
             /\ off[p[1]] \in Nat
  <2>1. p[1] \in 1..L /\ p[2] \in 1..Len(r[p[1]]) /\ p = <<p[1], p[2]>>
    BY <1>2 DEF Places
  <2>2. p[1] \in 1..L + 1 /\ p[1] + 1 \in 1..L + 1 /\ L + 1 \in 1..L + 1 /\ p[1] + 1 <= L + 1
    BY <1>2, <2>1
  <2>3. off[p[1] + 1] <= n /\ off[p[1] + 1] = off[p[1]] + Len(r[p[1]]) /\ off[p[1]] \in Nat
    BY <1>2, <1>3, <2>1, <2>2
  <2>4. off[p[1]] + p[2] \in 1..n /\ off[p[1]] + p[2] <= off[p[1] + 1]
    BY <1>2, <2>1, <2>3, SMTT(60)
  <2>5. QED
    BY <1>2, <2>1, <2>3, <2>4
<1>5. ASSUME NEW j \in 1..n PROVE \E p \in Places(r) : off[p[1]] + p[2] = j
  <2> DEFINE B == {c \in 1..L + 1 : off[c] < j}
  <2>1. IsFiniteSet(B) /\ B \subseteq Int /\ B # {}
    <3>1. IsFiniteSet(1..L + 1)
      BY <1>2, FS_Interval
    <3>2. IsFiniteSet(B)
      BY <3>1, FS_Subset
    <3>3. 1 \in B
      BY <1>2
    <3>4. QED
      BY <3>2, <3>3
  <2>2. PICK c \in B : \A d \in B : c >= d
    <3> HIDE DEF B
    <3>1. QED
      BY <2>1, Greatest
  <2>3. c # L + 1 /\ c \in 1..L /\ c + 1 \in 1..L + 1 /\ c \in 1..L + 1
    <3>1. c \in 1..L + 1 /\ off[c] < j /\ L \in Nat /\ n \in Nat /\ off[L + 1] = n /\ j <= n /\ j \in Int
      BY <1>2, <2>2
    <3>2. c # L + 1
      <4>1. SUFFICES ASSUME c = L + 1 PROVE FALSE
        OBVIOUS
      <4>2. off[c] = n
        BY <3>1, <4>1
      <4>3. QED
        BY <3>1, <4>2
    <3>3. QED
      BY <3>1, <3>2
  <2>4. off[c] < j /\ ~(off[c + 1] < j) /\ off[c] \in Nat /\ off[c + 1] = off[c] + Len(r[c])
    BY <1>2, <2>2, <2>3
  <2>5. j - off[c] \in 1..Len(r[c]) /\ off[c] + (j - off[c]) = j
    BY <1>2, <2>3, <2>4, SMTT(60)
  <2>6. <<c, j - off[c]>> \in Places(r)
    BY <1>2, <2>3, <2>5, SMTT(30) DEF Places
  <2>7. QED
    BY <2>5, <2>6
<1>6. {r[p[1]][p[2]] : p \in Places(r)} = Range(names)
  <2>1. Range(names) = {names[j] : j \in 1..n}
    BY <1>2 DEF Range
  <2>2. ASSUME NEW p \in Places(r) PROVE r[p[1]][p[2]] \in Range(names)
    BY <1>4, <2>1
  <2>3. ASSUME NEW j \in 1..n PROVE names[j] \in {r[p[1]][p[2]] : p \in Places(r)}
    BY <1>4, <1>5
  <2>4. QED
    BY <2>1, <2>2, <2>3
<1>7. ASSUME \A j, k \in DOMAIN names : names[j] = names[k] => j = k,
             NEW p \in Places(r), NEW q \in Places(r), r[p[1]][p[2]] = r[q[1]][q[2]]
      PROVE  p = q
  <2>1. off[p[1]] + p[2] = off[q[1]] + q[2]
    BY <1>2, <1>4, <1>7
  <2>2. ASSUME NEW x \in Places(r), NEW y \in Places(r), off[x[1]] + x[2] = off[y[1]] + y[2] PROVE ~(x[1] < y[1])
    <3>1. SUFFICES ASSUME x[1] < y[1] PROVE FALSE
      OBVIOUS
    <3>2. x[1] + 1 \in 1..L + 1 /\ y[1] \in 1..L + 1 /\ x[1] + 1 <= y[1]
      <4>1. x[1] \in 1..L /\ y[1] \in 1..L /\ L \in Nat
        BY <1>2, <1>4
      <4>2. QED
        BY <3>1, <4>1
    <3>3. off[x[1] + 1] <= off[y[1]] /\ off[x[1] + 1] \in Nat
      BY <1>2, <1>3, <3>2
    <3>4. /\ off[x[1]] + x[2] <= off[x[1] + 1] /\ off[x[1]] \in Nat /\ x[2] \in Int
          /\ off[y[1]] \in Nat /\ y[2] \in Int /\ y[2] >= 1
      BY <1>4
    <3>5. QED
      BY <2>2, <3>3, <3>4
  <2>3. p[1] = q[1]
    <3>1. ~(p[1] < q[1]) /\ ~(q[1] < p[1])
      BY <2>1, <2>2
    <3>2. p[1] \in Int /\ q[1] \in Int
      BY <1>4
    <3>3. QED
      BY <3>1, <3>2
  <2>4. p[2] = q[2]
    <3>1. p[2] \in Int /\ q[2] \in Int /\ off[p[1]] \in Nat
      BY <1>4
    <3>2. QED
      BY <2>1, <2>3, <3>1
  <2>5. QED
    BY <1>4, <2>3, <2>4
<1>8. QED
  BY <1>6, <1>7

(* What a rule can be.                                                     *)
Kinds == {"recording", "alerting"}
RuleType ==
    {r \in [tenant : Nat, file : Nat, group : Nat, kind : Kinds, name : Names \cup {Empty}] :
        r.kind = "recording" => r.name # Empty}

(* The type invariant.                                                     *)
TypeOK ==
    /\ source \in Sources /\ at \in Nat \ {0} /\ rules \in Seq(RuleType)
    /\ phase \in {"start", "loading", "loaded", "refused", "counted", "joined"}
    /\ maxNames \in Nat \ {0} /\ maxBytes \in Nat \ {0}
    /\ denominator \in Denominators

--------------------------------------------------------------------------------
(* Loading.                                                                *)

(* What SourcesAssumption says of the source of this behaviour.            *)
LEMMA SourceFacts ==
  ASSUME source \in Sources
  PROVE  /\ source.files \in Seq([namespace : Nat, broken : BOOLEAN, rules : Seq(Definition(Kinds))])
         /\ source.discovery \in Seq(Range(source.discovery))
         /\ \A i \in DOMAIN source.discovery : source.discovery[i].kind = "static" =>
                \A ns \in DOMAIN source.discovery[i].map : source.discovery[i].map[ns] \in Nat
         /\ source.unmapped \in [mode : STRING, fallback : Nat]
         /\ source.tenants \in Seq(Nat)
         /\ \A t \in Range(source.tenants) \ {NoTenant} : source.has[t] \in Seq(Definition(STRING))
BY SourcesAssumption DEF Kinds

(* Discovery answers a tenant, and the policy one of three verdicts.       *)
LEMMA Resolved ==
  ASSUME source \in Sources, NEW ns
  PROVE  /\ Resolve(ns) \in [ok : BOOLEAN, tenant : Nat]
         /\ Apply(Resolve(ns)).tenant \in Nat
         /\ Apply(Resolve(ns)).verdict \in {"keep", "drop", "error"}
<1> DEFINE hits == {i \in DOMAIN source.discovery : Maps(i, ns)}
<1>1. CASE hits = {}
  <2>1. Resolve(ns) = [ok |-> FALSE, tenant |-> NoTenant]
    BY <1>1 DEF Resolve
  <2>2. QED
    BY <2>1, SourceFacts DEF NoTenant, Apply
<1>2. CASE hits # {}
  <2>1. Min(hits) \in hits
    <3>1. IsFiniteSet(hits) /\ hits \subseteq Int
      BY SourceFacts, PositionsFinite
    <3> HIDE DEF hits
    <3>2. QED
      BY <1>2, <3>1, Smallest
  <2>2. Resolve(ns) = [ok |-> TRUE, tenant |-> source.discovery[Min(hits)].map[ns]]
    BY <1>2 DEF Resolve
  <2>3. source.discovery[Min(hits)].map[ns] \in Nat
    BY <2>1, SourceFacts DEF Maps
  <2> HIDE DEF hits
  <2>4. QED
    BY <2>2, <2>3 DEF Apply
<1>3. QED
  BY <1>1, <1>2

(* splitTenants drops the blanks of the list and nothing else.             *)
LEMMA Split ==
  ASSUME source \in Sources, NEW list, list = SplitTenants(source.tenants)
  PROVE  /\ list \in Seq(Nat) /\ Range(list) = Range(source.tenants) \ {NoTenant}
         /\ \A k \in 1..Len(list) : list[k] \in Range(source.tenants) \ {NoTenant}
<1> DEFINE P == {k \in DOMAIN source.tenants : source.tenants[k] # NoTenant}
<1>1. source.tenants \in Seq(Nat) /\ P \in SUBSET DOMAIN source.tenants
  BY SourceFacts
<1>2. list \in Seq(Nat) /\ Range(list) = {source.tenants[k] : k \in P}
  <2>1. list = At(source.tenants, P)
    BY DEF SplitTenants
  <2> HIDE DEF P
  <2>2. QED
    BY <1>1, <2>1, AtSeq
<1>3. Range(list) = Range(source.tenants) \ {NoTenant}
  BY <1>2 DEF Range
<1>4. \A k \in 1..Len(list) : list[k] \in Range(list)
  BY <1>2 DEF Range
<1>5. QED
  BY <1>2, <1>3, <1>4

(* Annotating definitions gives as many rules.                             *)
LEMMA AnnotatesAll ==
  ASSUME NEW ds \in Seq(Definition(Kinds)), NEW t \in Nat
  PROVE  Annotate(ds, t) \in Seq(RuleType) /\ Len(Annotate(ds, t)) = Len(ds)
<1>1. \A k \in 1..Len(ds) : ds[k] \in Definition(Kinds)
  OBVIOUS
<1>2. \A k \in 1..Len(ds) : Annotated(ds[k], t) \in RuleType
  BY <1>1 DEF Definition, RuleType, Annotated
<1>3. Len(ds) \in Nat /\ DOMAIN ds = 1..Len(ds)
  OBVIOUS
<1>4. Annotate(ds, t) = [k \in 1..Len(ds) |-> Annotated(ds[k], t)]
  BY <1>3 DEF Annotate
<1>5. QED
  BY <1>2, <1>3, <1>4

(* The definitions of a known type the ruler answers are definitions as    *)
(* files have them.                                                        *)
LEMMA GoodDefinitions ==
  ASSUME NEW ds \in Seq(Definition(STRING)), NEW good \in SUBSET DOMAIN ds,
         \A k \in good : ds[k].kind \in Kinds
  PROVE  At(ds, good) \in Seq(Definition(Kinds))
<1>1. PICK t : t = At(ds, good)
  OBVIOUS
<1>2. t \in Seq(Definition(STRING)) /\ Range(t) = {ds[k] : k \in good}
  BY <1>1, AtSeq
<1>3. \A k \in good : ds[k] \in Definition(Kinds)
  <2>1. \A d \in Definition(STRING) : d.kind \in Kinds => d \in Definition(Kinds)
    BY DEF Definition
  <2>2. \A k \in good : ds[k] \in Definition(STRING)
    OBVIOUS
  <2>3. QED
    BY <2>1, <2>2
<1>4. \A k \in 1..Len(t) : t[k] \in Definition(Kinds)
  BY <1>2, <1>3, SMTT(60) DEF Range
<1>5. t \in Seq(Definition(Kinds))
  BY <1>2, <1>4
<1>6. QED
  BY <1>1, <1>5

(* LoadFile appends rules.                                                 *)
LEMMA FileLoads ==
  ASSUME TypeOK, LoadFile
  PROVE  LET f == source.files[at]
             a == Apply(Resolve(f.namespace))
         IN  /\ f.rules \in Seq(Definition(Kinds)) /\ a.tenant \in Nat
             /\ Annotate(f.rules, a.tenant) \in Seq(RuleType)
<1>1. at \in 1..Len(source.files)
  BY DEF TypeOK, LoadFile
<1>2. source.files[at] \in [namespace : Nat, broken : BOOLEAN, rules : Seq(Definition(Kinds))]
  <2>1. PICK F : F = [namespace : Nat, broken : BOOLEAN, rules : Seq(Definition(Kinds))]
    OBVIOUS
  <2>2. source.files \in Seq(F)
    BY <2>1, SourceFacts DEF TypeOK
  <2>3. PICK fs, k : fs = source.files /\ k = at
    OBVIOUS
  <2>4. fs \in Seq(F) /\ k \in 1..Len(fs)
    BY <1>1, <2>2, <2>3
  <2>5. fs[k] \in F
    BY <2>4
  <2>6. QED
    BY <2>1, <2>3, <2>5
<1>3. source.files[at].rules \in Seq(Definition(Kinds))
  BY <1>2
<1>4. Apply(Resolve(source.files[at].namespace)).tenant \in Nat
  BY Resolved DEF TypeOK
<1>5. QED
  BY <1>3, <1>4, AnnotatesAll

(* FetchAnswers appends rules.                                             *)
LEMMA TenantAnswers ==
  ASSUME TypeOK, FetchAnswers
  PROVE  LET ds   == source.has[Asked]
             good == {k \in DOMAIN ds : ds[k].kind \in {"recording", "alerting"} /\ ds[k].parses}
         IN  /\ Asked \in Nat /\ ds \in Seq(Definition(STRING))
             /\ At(ds, good) \in Seq(Definition(Kinds))
             /\ Annotate(At(ds, good), Asked) \in Seq(RuleType)
<1> DEFINE ds == source.has[Asked]
           good == {k \in DOMAIN ds : ds[k].kind \in {"recording", "alerting"} /\ ds[k].parses}
<1>1. at \in 1..Len(SplitTenants(source.tenants))
  <2>1. SplitTenants(source.tenants) \in Seq(Nat)
    BY Split DEF TypeOK
  <2>2. Len(SplitTenants(source.tenants)) \in Nat
    BY <2>1
  <2>3. at <= Len(SplitTenants(source.tenants))
    BY DEF FetchAnswers, FetchTenant
  <2>4. at \in Nat \ {0}
    BY DEF TypeOK
  <2>5. QED
    BY <2>2, <2>3, <2>4
<1>2. Asked \in Range(source.tenants) \ {NoTenant}
  BY <1>1, Split DEF TypeOK, Asked
<1>3. Asked \in Nat /\ ds \in Seq(Definition(STRING))
  <2>1. ds \in Seq(Definition(STRING))
    BY <1>2, SourceFacts DEF TypeOK
  <2>2. SplitTenants(source.tenants) \in Seq(Nat)
    BY Split DEF TypeOK
  <2>3. Asked \in Nat
    BY <1>1, <2>2 DEF Asked
  <2>4. QED
    BY <2>1, <2>3
<1>4. good \in SUBSET DOMAIN ds /\ \A k \in good : ds[k].kind \in Kinds
  BY DEF Kinds
<1> HIDE DEF ds, good
<1>5. At(ds, good) \in Seq(Definition(Kinds))
  BY <1>3, <1>4, GoodDefinitions
<1>6. Annotate(At(ds, good), Asked) \in Seq(RuleType)
  BY <1>3, <1>5, AnnotatesAll
<1>7. QED
  BY <1>3, <1>5, <1>6 DEF ds, good

(* TypeOK holds initially.                                                 *)
LEMMA InitType == Init => TypeOK
<1> SUFFICES ASSUME Init PROVE TypeOK
  OBVIOUS
<1>1. source \in Sources /\ at = 1 /\ rules = <<>> /\ phase = "start" /\ denominator \in Denominators
  BY DEF Init, LoadInit
<1>2. PICK n \in NamesCaps, b \in BytesCaps : maxNames = Cap(n, DefaultNames) /\ maxBytes = Cap(b, DefaultBytes)
  BY DEF Init
<1>3. n \in Int /\ b \in Int
  BY <1>2, ReportAssumption
<1>4. maxNames \in Nat \ {0} /\ maxBytes \in Nat \ {0}
  BY <1>2, <1>3, ChunkAssumption DEF Cap
<1>5. QED
  BY <1>1, <1>4 DEF TypeOK

(* Every step preserves it.                                                *)
LEMMA StepType == TypeOK /\ [Next]_vars => TypeOK'
<1> SUFFICES ASSUME TypeOK, [Next]_vars PROVE TypeOK'
  OBVIOUS
<1> USE DEF TypeOK
<1>1. ASSUME Loading PROVE TypeOK'
  <2>0. Load /\ UNCHANGED joinVars
    BY <1>1 DEF Loading
  <2>1. CASE NewDefinitionsSource
    BY <2>0, <2>1 DEF NewDefinitionsSource, joinVars
  <2>2. CASE WalkDirFails
    BY <2>0, <2>2 DEF WalkDirFails, joinVars
  <2>3. CASE LoadFile
    <3>1. rules' \in Seq(RuleType)
      <4> DEFINE a == Annotate(source.files[at].rules, Apply(Resolve(source.files[at].namespace)).tenant)
      <4>1. a \in Seq(RuleType)
        BY <2>3, FileLoads
      <4>2. rules' = rules \o a \/ rules' = rules
        BY <2>3 DEF LoadFile
      <4>3. rules \in Seq(RuleType)
        OBVIOUS
      <4> HIDE DEF a
      <4>4. CASE rules' = rules \o a
        BY <4>1, <4>3, <4>4
      <4>5. QED
        BY <4>2, <4>3, <4>4
    <3>2. QED
      BY <2>0, <2>3, <3>1 DEF LoadFile, joinVars
  <2>4. CASE FetchFails
    BY <2>0, <2>4 DEF FetchFails, FetchTenant, joinVars
  <2>5. CASE FetchAnswers
    <3>1. rules' \in Seq(RuleType)
      <4> DEFINE ds == source.has[Asked]
                 good == {k \in DOMAIN ds : ds[k].kind \in {"recording", "alerting"} /\ ds[k].parses}
                 a == Annotate(At(ds, good), Asked)
      <4>1. a \in Seq(RuleType)
        BY <2>5, TenantAnswers
      <4>2. rules' = rules \o a
        BY <2>5 DEF FetchAnswers
      <4> HIDE DEF a
      <4>3. QED
        BY <4>1, <4>2
    <3>2. at' = at + 1 /\ UNCHANGED <<source, phase>>
      BY <2>5 DEF FetchAnswers, FetchTenant
    <3>3. UNCHANGED <<maxNames, maxBytes, denominator>>
      BY <2>0 DEF joinVars
    <3>4. QED
      BY <3>1, <3>2, <3>3
  <2>6. CASE LoadEnds
    BY <2>0, <2>6 DEF LoadEnds, joinVars
  <2>7. QED
    BY <2>0, <2>1, <2>2, <2>3, <2>4, <2>5, <2>6 DEF Load
<1>2. ASSUME Measure PROVE TypeOK'
  BY <1>2 DEF Measure
<1>3. ASSUME Join PROVE TypeOK'
  BY <1>3 DEF Join
<1>4. ASSUME UNCHANGED vars PROVE TypeOK'
  BY <1>4 DEF vars, loadVars, joinVars
<1>5. QED
  BY <1>1, <1>2, <1>3, <1>4 DEF Next

--------------------------------------------------------------------------------
(* Which metrics are asked for.                                            *)

(* RulesOf picks the rules of one tenant.                                  *)
LEMMA OwnRules ==
  ASSUME NEW rs \in Seq(RuleType), NEW t, NEW own, own = RulesOf(t, rs)
  PROVE  own \in Seq(RuleType) /\ Range(own) = {r \in Range(rs) : r.tenant = t}
<1> DEFINE P == {k \in DOMAIN rs : rs[k].tenant = t}
<1>1. own = At(rs, P) /\ P \in SUBSET DOMAIN rs
  BY DEF RulesOf
<1>2. own \in Seq(RuleType) /\ Range(own) = {rs[k] : k \in P}
  <2> HIDE DEF P
  <2>1. QED
    BY <1>1, AtSeq
<1>3. {rs[k] : k \in P} = {r \in Range(rs) : r.tenant = t}
  BY DEF Range
<1>4. QED
  BY <1>2, <1>3

(* Wanted names, for every tenant but the nameless one, the metrics its    *)
(* rules record.                                                           *)
LEMMA WantedNames ==
  ASSUME NEW rs \in Seq(RuleType), NEW want, want = Wanted(rs)
  PROVE  /\ DOMAIN want = {t \in Tenants(rs) \ {NoTenant} : RecordedBy(RulesOf(t, rs)) # {}}
         /\ \A t \in DOMAIN want : want[t] \in Seq(Names) /\ Range(want[t]) = RecordedBy(RulesOf(t, rs))
<1> DEFINE P == {k \in DOMAIN rs : IsRecording(rs[k]) /\ rs[k].name # Empty /\ rs[k].tenant # NoTenant}
           wanted == At(rs, P)
           Own(t) == RulesOf(t, wanted)
<1>1. want = [t \in Tenants(wanted) |-> [k \in DOMAIN Own(t) |-> Own(t)[k].name]]
  BY DEF Wanted
<1>2. wanted \in Seq(RuleType) /\ Range(wanted) = {rs[k] : k \in P}
  <2>1. P \in SUBSET DOMAIN rs
    OBVIOUS
  <2> HIDE DEF P
  <2>2. QED
    BY <2>1, AtSeq
<1>3. Range(wanted) = {r \in Range(rs) : IsRecording(r) /\ r.name # Empty /\ r.tenant # NoTenant}
  BY <1>2 DEF Range
<1> HIDE DEF P, wanted
<1>4. \A t : RecordedBy(RulesOf(t, rs)) = {r.name : r \in {x \in Range(rs) : x.tenant = t /\ IsRecording(x) /\ x.name # Empty}}
  <2>1. SUFFICES ASSUME NEW t
                 PROVE  RecordedBy(RulesOf(t, rs)) = {r.name : r \in {x \in Range(rs) : x.tenant = t /\ IsRecording(x) /\ x.name # Empty}}
    OBVIOUS
  <2>2. Range(RulesOf(t, rs)) = {r \in Range(rs) : r.tenant = t}
    BY OwnRules
  <2>3. QED
    BY <2>2 DEF RecordedBy
<1>5. DOMAIN want = {t \in Tenants(rs) \ {NoTenant} : RecordedBy(RulesOf(t, rs)) # {}}
  <2>1. DOMAIN want = {r.tenant : r \in Range(wanted)}
    BY <1>1 DEF Tenants
  <2>2. ASSUME NEW r \in Range(wanted)
        PROVE  r.tenant \in Tenants(rs) \ {NoTenant} /\ RecordedBy(RulesOf(r.tenant, rs)) # {}
    <3>1. r \in Range(rs) /\ IsRecording(r) /\ r.name # Empty /\ r.tenant # NoTenant
      BY <1>3
    <3>2. r.name \in RecordedBy(RulesOf(r.tenant, rs))
      BY <1>4, <3>1
    <3>3. QED
      BY <3>1, <3>2 DEF Tenants
  <2>3. ASSUME NEW t \in Tenants(rs) \ {NoTenant}, RecordedBy(RulesOf(t, rs)) # {}
        PROVE  \E r \in Range(wanted) : r.tenant = t
    BY <1>3, <1>4, <2>3
  <2>4. QED
    BY <2>1, <2>2, <2>3
<1>6. ASSUME NEW t \in DOMAIN want
      PROVE  want[t] \in Seq(Names) /\ Range(want[t]) = RecordedBy(RulesOf(t, rs))
  <2>1. PICK own : own = RulesOf(t, wanted)
    OBVIOUS
  <2>2. own \in Seq(RuleType) /\ Range(own) = {r \in Range(wanted) : r.tenant = t}
    BY <1>2, <2>1, OwnRules
  <2>3. t # NoTenant
    BY <1>5
  <2>4. want[t] = [k \in DOMAIN own |-> own[k].name]
    BY <1>1, <1>6, <2>1
  <2>5. \A k \in DOMAIN own : own[k].name \in Names
    <3>1. \A k \in DOMAIN own : own[k] \in RuleType /\ own[k].name # Empty
      BY <1>3, <2>2 DEF Range
    <3>2. QED
      BY <3>1 DEF RuleType
  <2>6. want[t] \in Seq(Names)
    <3>1. PICK n : n = Len(own)
      OBVIOUS
    <3>2. n \in Nat /\ DOMAIN own = 1..n
      BY <2>2, <3>1
    <3>3. QED
      BY <2>4, <2>5, <3>2
  <2>7. Range(want[t]) = {r.name : r \in Range(own)}
    BY <2>4 DEF Range
  <2>8. {r.name : r \in Range(own)} = RecordedBy(RulesOf(t, rs))
    <3>1. Range(own) = {x \in Range(rs) : x.tenant = t /\ IsRecording(x) /\ x.name # Empty}
      BY <1>3, <2>2, <2>3
    <3>2. QED
      BY <1>4, <3>1
  <2>9. QED
    BY <2>6, <2>7, <2>8
<1>7. QED
  BY <1>5, <1>6

(* Dedupe keeps every name once.                                           *)
LEMMA Deduped ==
  ASSUME NEW names \in Seq(Names), NEW d, d = Dedupe(names)
  PROVE  /\ d \in Seq(Names) /\ Range(d) = Range(names)
         /\ \A j, k \in DOMAIN d : d[j] = d[k] => j = k
<1> DEFINE S == Range(names)
<1>1. S \subseteq Names /\ S \ {Empty} = S /\ S \subseteq Int
  <2>1. S \subseteq Names
    BY DEF Range
  <2>2. QED
    BY <2>1, ChunkAssumption
<1>2. IsFiniteSet(S)
  BY <1>1, FS_Subset, ChunkAssumption
<1>3. d = Ascending(S)
  BY <1>1 DEF Dedupe
<1> HIDE DEF S
<1>4. Lists(d, S)
  BY <1>1, <1>2, <1>3, AscendingLists
<1>5. PICK n : n = Cardinality(S)
  OBVIOUS
<1>6. /\ n \in Nat /\ d \in [1..n -> S] /\ DOMAIN d = 1..n
      /\ \A x \in S : \E k \in 1..n : d[k] = x
      /\ \A j, k \in 1..n : d[j] = d[k] => j = k
  BY <1>4, <1>5 DEF Lists
<1>7. d \in Seq(Names)
  <2>1. \A k \in 1..n : d[k] \in Names
    BY <1>1, <1>6
  <2>2. d = [k \in 1..n |-> d[k]]
    BY <1>6
  <2>3. QED
    BY <1>6, <2>1, <2>2
<1>8. Range(d) = S
  BY <1>6 DEF Range
<1>9. QED
  BY <1>6, <1>7, <1>8 DEF S

(* The queries of a tenant respect the caps and ask for every metric it    *)
(* records once.                                                           *)
LEMMA JobsCut ==
  ASSUME TypeOK, NEW want, want = Wanted(rules), NEW t \in DOMAIN want, NEW r, r = Jobs(want)[t]
  PROVE  /\ r \in Seq(Seq(Names)) /\ Capped(r, maxNames, maxBytes)
         /\ {r[p[1]][p[2]] : p \in Places(r)} = RecordedBy(RulesOf(t, rules))
         /\ \A p, q \in Places(r) : r[p[1]][p[2]] = r[q[1]][q[2]] => p = q
<1>1. PICK names : names = want[t]
  OBVIOUS
<1>2. names \in Seq(Names) /\ Range(names) = RecordedBy(RulesOf(t, rules))
  BY <1>1, WantedNames DEF TypeOK
<1>3. PICK d : d = Dedupe(names)
  OBVIOUS
<1>4. /\ d \in Seq(Names) /\ Range(d) = Range(names)
      /\ \A j, k \in DOMAIN d : d[j] = d[k] => j = k
  BY <1>2, <1>3, Deduped
<1>5. r = Chunk(d, maxNames, maxBytes)
  BY <1>1, <1>3 DEF Jobs
<1>6. maxNames \in Nat \ {0} /\ maxBytes \in Int
  BY DEF TypeOK
<1>7. /\ r \in Seq(Seq(Names)) /\ Capped(r, maxNames, maxBytes)
      /\ \E off : Cut(d, r, Len(d), off)
  BY <1>4, <1>5, <1>6, ChunkCuts
<1>8. /\ {r[p[1]][p[2]] : p \in Places(r)} = Range(d)
      /\ \A p, q \in Places(r) : r[p[1]][p[2]] = r[q[1]][q[2]] => p = q
  BY <1>4, <1>7, CutCovers, ZenonT(60)
<1>9. QED
  BY <1>2, <1>4, <1>7, <1>8

(* A report is always of its type.                                         *)
THEOREM TypeCorrect == Spec => []TypeOK
BY InitType, StepType, PTL DEF Spec

(* Every query stays within the caps on its names and bytes, save one for  *)
(* a single long name, and none is cut short (count.go:36).                *)
THEOREM CapsRespected == Spec => []ChunksRespectCaps
<1>1. Init => ChunksRespectCaps
  BY DEF Init, ChunksRespectCaps
<1>2. TypeOK /\ ChunksRespectCaps /\ [Next]_vars => ChunksRespectCaps'
  <2> SUFFICES ASSUME TypeOK, ChunksRespectCaps, [Next]_vars PROVE ChunksRespectCaps'
    OBVIOUS
  <2>1. CASE UNCHANGED <<chunks, maxNames, maxBytes>>
    BY <2>1 DEF ChunksRespectCaps
  <2>2. CASE Measure
    <3>1. PICK want : want = Wanted(rules)
      OBVIOUS
    <3>2. chunks' = Jobs(want) /\ UNCHANGED <<maxNames, maxBytes>>
      BY <2>2, <3>1 DEF Measure
    <3>3. DOMAIN chunks' = DOMAIN want
      BY <3>2 DEF Jobs
    <3>4. \A t \in DOMAIN chunks' : Capped(chunks'[t], maxNames, maxBytes) /\ chunks'[t] \in Seq(Seq(Names))
      BY <3>1, <3>2, <3>3, JobsCut
    <3>5. \A t \in DOMAIN chunks' : DOMAIN chunks'[t] = 1..Len(chunks'[t])
      BY <3>4
    <3>6. QED
      BY <3>2, <3>4, <3>5 DEF ChunksRespectCaps, Capped, WithinCaps, NoRoom
  <2>3. CASE Loading
    BY <2>1, <2>3 DEF Loading, joinVars
  <2>4. CASE Join
    BY <2>1, <2>4 DEF Join
  <2>5. QED
    BY <2>1, <2>2, <2>3, <2>4 DEF Next, vars, joinVars
<1>3. QED
  BY <1>1, <1>2, TypeCorrect, PTL DEF Spec

(* Every metric a tenant's rules record is asked for exactly once, as that *)
(* tenant, and no other name is (count.go:107).                            *)
THEOREM AskedOnce == Spec => []EveryMetricAskedOnce
<1>1. Init => EveryMetricAskedOnce
  BY DEF Init, LoadInit, EveryMetricAskedOnce
<1>2. TypeOK /\ EveryMetricAskedOnce /\ [Next]_vars => EveryMetricAskedOnce'
  <2> SUFFICES ASSUME TypeOK, EveryMetricAskedOnce, [Next]_vars PROVE EveryMetricAskedOnce'
    OBVIOUS
  <2>1. CASE UNCHANGED <<chunks, rules, phase>>
    BY <2>1 DEF EveryMetricAskedOnce
  <2>2. CASE Measure
    <3>1. PICK want : want = Wanted(rules)
      OBVIOUS
    <3>2. chunks' = Jobs(want) /\ rules' = rules
      BY <2>2, <3>1 DEF Measure
    <3>3. DOMAIN chunks' = DOMAIN want
      BY <3>2 DEF Jobs
    <3>4. DOMAIN want = {t \in Tenants(rules) \ {NoTenant} : RecordedBy(RulesOf(t, rules)) # {}}
      BY <3>1, WantedNames DEF TypeOK
    <3>5. \A t \in DOMAIN chunks' :
            /\ {chunks'[t][p[1]][p[2]] : p \in Places(chunks'[t])} = RecordedBy(RulesOf(t, rules))
            /\ \A p, q \in Places(chunks'[t]) : chunks'[t][p[1]][p[2]] = chunks'[t][q[1]][q[2]] => p = q
      <4>1. SUFFICES ASSUME NEW t \in DOMAIN want, NEW r, r = Jobs(want)[t]
                     PROVE  /\ {r[p[1]][p[2]] : p \in Places(r)} = RecordedBy(RulesOf(t, rules))
                            /\ \A p, q \in Places(r) : r[p[1]][p[2]] = r[q[1]][q[2]] => p = q
        BY <3>2, <3>3
      <4>2. QED
        BY <3>1, <4>1, JobsCut, SMTT(60)
    <3>6. QED
      BY <3>2, <3>3, <3>4, <3>5 DEF EveryMetricAskedOnce, Places
  <2>3. CASE Loading
    <3>1. phase' \notin {"counted", "joined"}
      BY <2>3 DEF Loading, Load, NewDefinitionsSource, WalkDirFails, LoadFile, FetchFails, FetchAnswers, FetchTenant, LoadEnds
    <3>2. QED
      BY <3>1 DEF EveryMetricAskedOnce
  <2>4. CASE Join
    <3>1. phase = "counted" /\ UNCHANGED <<chunks, rules>>
      BY <2>4 DEF Join
    <3>2. QED
      BY <3>1 DEF EveryMetricAskedOnce
  <2>5. QED
    BY <2>1, <2>2, <2>3, <2>4 DEF Next, vars, loadVars, joinVars
<1>3. QED
  BY <1>1, <1>2, TypeCorrect, PTL DEF Spec

Statuses == {"series", "no_series", "not_measured", "no_output"}

(* A row as RowOf makes it: it has a figure exactly if its status says so. *)
IsRow(row) ==
    /\ row.file \in Int /\ row.group \in Int /\ row.name \in Int
    /\ row.status \in Statuses /\ row.series \in Int \cup {None}
    /\ row.series = None <=> row.status \in {"not_measured", "no_output"}

(* The row's place among the statuses.                                     *)
Rank(row) == CHOOSE k \in DOMAIN StatusOrder : StatusOrder[k] = row.status
(* Less, the more series it has.                                           *)
Most(row) == IF row.series = None THEN 0 ELSE -row.series

--------------------------------------------------------------------------------
(* The join.                                                               *)

(* lessRule orders rows by rank, then by most series, then by place: a row *)
(* without a figure never stands between two that have one.                *)
LEMMA RankOrders ==
  ASSUME NEW a, NEW b, IsRow(a), IsRow(b)
  PROVE  /\ Rank(a) \in 1..4 /\ Rank(b) \in 1..4 /\ Most(a) \in Int /\ Most(b) \in Int
         /\ LessRule(a, b) <=>
                \/ Rank(a) < Rank(b)
                \/ /\ Rank(a) = Rank(b)
                   /\ \/ Most(a) < Most(b)
                      \/ /\ Most(a) = Most(b)
                         /\ \/ a.file < b.file
                            \/ a.file = b.file /\ a.group < b.group
                            \/ a.file = b.file /\ a.group = b.group /\ a.name < b.name
<1>1. ASSUME NEW x, IsRow(x) PROVE Rank(x) \in 1..4 /\ StatusOrder[Rank(x)] = x.status /\ Most(x) \in Int
  <2>1. \E k \in DOMAIN StatusOrder : StatusOrder[k] = x.status
    <3>1. /\ StatusOrder[1] = "series" /\ StatusOrder[2] = "no_series" /\ StatusOrder[3] = "not_measured"
          /\ StatusOrder[4] = "no_output" /\ DOMAIN StatusOrder = 1..4
      BY DEF StatusOrder
    <3>2. x.status \in Statuses
      BY <1>1 DEF IsRow
    <3>3. 1 \in 1..4 /\ 2 \in 1..4 /\ 3 \in 1..4 /\ 4 \in 1..4
      OBVIOUS
    <3>4. QED
      BY <3>1, <3>2, <3>3 DEF Statuses
  <2>2. DOMAIN StatusOrder = 1..4
    BY DEF StatusOrder
  <2>3. Most(x) \in Int
    BY <1>1, ReportAssumption DEF Most, IsRow
  <2>4. QED
    BY <2>1, <2>2, <2>3 DEF Rank
<1>2. Rank(a) \in 1..4 /\ Rank(b) \in 1..4 /\ Most(a) \in Int /\ Most(b) \in Int
  BY <1>1
<1>3. Rank(a) = Rank(b) => (a.series = None <=> b.series = None)
  BY <1>1 DEF IsRow
<1>4. LessRule(a, b) <=>
        \/ Rank(a) < Rank(b)
        \/ Rank(a) = Rank(b) /\ a.series # None /\ b.series # None /\ a.series > b.series
        \/ /\ Rank(a) = Rank(b) /\ a.series = b.series
           /\ \/ a.file < b.file
              \/ a.file = b.file /\ a.group < b.group
              \/ a.file = b.file /\ a.group = b.group /\ a.name < b.name
  BY DEF LessRule, Rank
<1>5. Rank(a) = Rank(b) =>
        /\ Most(a) < Most(b) <=> a.series # None /\ b.series # None /\ a.series > b.series
        /\ Most(a) = Most(b) <=> a.series = b.series
  <2>1. CASE a.series = None /\ b.series = None
    BY <2>1 DEF Most
  <2>2. CASE a.series # None /\ b.series # None
    <3>1. a.series \in Int /\ b.series \in Int /\ Most(a) = -a.series /\ Most(b) = -b.series
      BY <2>2 DEF Most, IsRow
    <3>2. QED
      BY <2>2, <3>1
  <2>3. QED
    BY <1>3, <2>1, <2>2
<1>6. QED
  BY <1>2, <1>4, <1>5

(* Row i is put before row j.                                              *)
Sooner(rows, i, j) == LessRule(rows[i], rows[j]) \/ (~LessRule(rows[j], rows[i]) /\ i < j)

(* So sorting a section's rows permutes them (sort.SliceStable,            *)
(* ruleoutput.go:264).                                                     *)
LEMMA SortPermutes ==
  ASSUME NEW n \in Nat, NEW rows, DOMAIN rows = 1..n, \A k \in 1..n : IsRow(rows[k]),
         NEW sorted, sorted = SortRules(rows)
  PROVE  \E pos : Lists(pos, 1..n) /\ Cardinality(1..n) = n /\ sorted = [k \in 1..n |-> rows[pos[k]]]
<1> DEFINE D == 1..n
           order == {p \in D \X D : Sooner(rows, p[1], p[2])}
<1>1. \A i, j \in D : <<i, j>> \in order <=> Sooner(rows, i, j)
  OBVIOUS
<1>2. \A i \in D : /\ Rank(rows[i]) \in Int /\ Most(rows[i]) \in Int
                  /\ rows[i].file \in Int /\ rows[i].group \in Int /\ rows[i].name \in Int
  <2>1. SUFFICES ASSUME NEW i \in D
                 PROVE  /\ Rank(rows[i]) \in Int /\ Most(rows[i]) \in Int
                        /\ rows[i].file \in Int /\ rows[i].group \in Int /\ rows[i].name \in Int
    OBVIOUS
  <2>2. IsRow(rows[i])
    OBVIOUS
  <2>3. Rank(rows[i]) \in 1..4 /\ Most(rows[i]) \in Int
    BY <2>2, RankOrders
  <2>4. QED
    BY <2>2, <2>3 DEF IsRow
<1>3. \A i, j \in D : LessRule(rows[i], rows[j]) <=>
                \/ Rank(rows[i]) < Rank(rows[j])
                \/ /\ Rank(rows[i]) = Rank(rows[j])
                   /\ \/ Most(rows[i]) < Most(rows[j])
                      \/ /\ Most(rows[i]) = Most(rows[j])
                         /\ \/ rows[i].file < rows[j].file
                            \/ rows[i].file = rows[j].file /\ rows[i].group < rows[j].group
                            \/ /\ rows[i].file = rows[j].file /\ rows[i].group = rows[j].group
                               /\ rows[i].name < rows[j].name
  BY RankOrders
<1> DEFINE r == [i \in D |-> Rank(rows[i])]
           m == [i \in D |-> Most(rows[i])]
           f == [i \in D |-> rows[i].file]
           g == [i \in D |-> rows[i].group]
           l == [i \in D |-> rows[i].name]
<1>4. /\ r \in [D -> Int] /\ m \in [D -> Int] /\ f \in [D -> Int] /\ g \in [D -> Int] /\ l \in [D -> Int]
      /\ \A i \in D : r[i] = Rank(rows[i]) /\ m[i] = Most(rows[i]) /\ f[i] = rows[i].file /\ g[i] = rows[i].group /\ l[i] = rows[i].name
  BY <1>2
<1> HIDE DEF r, m, f, g, l
<1>5. \A i, j \in D : Sooner(rows, i, j) <=>
        \/ r[i] < r[j]
        \/ r[i] = r[j] /\ m[i] < m[j]
        \/ r[i] = r[j] /\ m[i] = m[j] /\ f[i] < f[j]
        \/ r[i] = r[j] /\ m[i] = m[j] /\ f[i] = f[j] /\ g[i] < g[j]
        \/ r[i] = r[j] /\ m[i] = m[j] /\ f[i] = f[j] /\ g[i] = g[j] /\ l[i] < l[j]
        \/ r[i] = r[j] /\ m[i] = m[j] /\ f[i] = f[j] /\ g[i] = g[j] /\ l[i] = l[j] /\ i < j
  <2>1. SUFFICES ASSUME NEW i \in D, NEW j \in D
                 PROVE  Sooner(rows, i, j) <=>
        \/ r[i] < r[j]
        \/ r[i] = r[j] /\ m[i] < m[j]
        \/ r[i] = r[j] /\ m[i] = m[j] /\ f[i] < f[j]
        \/ r[i] = r[j] /\ m[i] = m[j] /\ f[i] = f[j] /\ g[i] < g[j]
        \/ r[i] = r[j] /\ m[i] = m[j] /\ f[i] = f[j] /\ g[i] = g[j] /\ l[i] < l[j]
        \/ r[i] = r[j] /\ m[i] = m[j] /\ f[i] = f[j] /\ g[i] = g[j] /\ l[i] = l[j] /\ i < j
    OBVIOUS
  <2> DEFINE S(x, y) ==
                \/ r[x] < r[y]
                \/ r[x] = r[y] /\ m[x] < m[y]
                \/ r[x] = r[y] /\ m[x] = m[y] /\ f[x] < f[y]
                \/ r[x] = r[y] /\ m[x] = m[y] /\ f[x] = f[y] /\ g[x] < g[y]
                \/ r[x] = r[y] /\ m[x] = m[y] /\ f[x] = f[y] /\ g[x] = g[y] /\ l[x] < l[y]
  <2>2. ASSUME NEW x \in D, NEW y \in D PROVE LessRule(rows[x], rows[y]) <=> S(x, y)
    <3>1. /\ r[x] = Rank(rows[x]) /\ m[x] = Most(rows[x]) /\ f[x] = rows[x].file
          /\ g[x] = rows[x].group /\ l[x] = rows[x].name
          /\ r[y] = Rank(rows[y]) /\ m[y] = Most(rows[y]) /\ f[y] = rows[y].file
          /\ g[y] = rows[y].group /\ l[y] = rows[y].name
      BY <1>4
    <3>2. LessRule(rows[x], rows[y]) <=>
                \/ r[x] < r[y]
                \/ /\ r[x] = r[y]
                   /\ \/ m[x] < m[y]
                      \/ /\ m[x] = m[y]
                         /\ \/ f[x] < f[y]
                            \/ f[x] = f[y] /\ g[x] < g[y]
                            \/ f[x] = f[y] /\ g[x] = g[y] /\ l[x] < l[y]
      BY <1>3, <3>1, SMTT(60)
    <3>3. QED
      BY <3>2
  <2>3. /\ r[i] \in Int /\ m[i] \in Int /\ f[i] \in Int /\ g[i] \in Int /\ l[i] \in Int
        /\ r[j] \in Int /\ m[j] \in Int /\ f[j] \in Int /\ g[j] \in Int /\ l[j] \in Int /\ i \in Int /\ j \in Int
    BY <1>4
  <2>4. Sooner(rows, i, j) <=> S(i, j) \/ (~S(j, i) /\ i < j)
    BY <2>2 DEF Sooner
  <2>5. CASE r[i] # r[j]
    BY <2>3, <2>4, <2>5
  <2>6. CASE r[i] = r[j] /\ m[i] # m[j]
    BY <2>3, <2>4, <2>6
  <2>7. CASE r[i] = r[j] /\ m[i] = m[j] /\ f[i] # f[j]
    BY <2>3, <2>4, <2>7
  <2>8. CASE r[i] = r[j] /\ m[i] = m[j] /\ f[i] = f[j] /\ g[i] # g[j]
    BY <2>3, <2>4, <2>8
  <2>9. CASE r[i] = r[j] /\ m[i] = m[j] /\ f[i] = f[j] /\ g[i] = g[j]
    BY <2>3, <2>4, <2>9
  <2>10. QED
    BY <2>5, <2>6, <2>7, <2>8, <2>9
<1>6. IsOrder(D, order)
  <2> HIDE DEF order, D
  <2>0. D \subseteq Int
    BY DEF D
  <2>1. \A i \in D : <<i, i>> \notin order
    <3>1. SUFFICES ASSUME NEW i \in D PROVE ~Sooner(rows, i, i)
      BY <1>1
    <3>2. r[i] \in Int /\ m[i] \in Int /\ f[i] \in Int /\ g[i] \in Int /\ l[i] \in Int /\ i \in Int
      BY <1>4, <2>0
    <3>3. QED
      BY <1>5, <3>2
  <2>2. \A i, j \in D : i # j => <<i, j>> \in order \/ <<j, i>> \in order
    <3>1. SUFFICES ASSUME NEW i \in D, NEW j \in D, i # j PROVE Sooner(rows, i, j) \/ Sooner(rows, j, i)
      BY <1>1
    <3>2. /\ r[i] \in Int /\ m[i] \in Int /\ f[i] \in Int /\ g[i] \in Int /\ l[i] \in Int
          /\ r[j] \in Int /\ m[j] \in Int /\ f[j] \in Int /\ g[j] \in Int /\ l[j] \in Int /\ i \in Int /\ j \in Int
      BY <1>4, <2>0
    <3>3. CASE r[i] # r[j] \/ m[i] # m[j]
      BY <1>5, <3>2, <3>3
    <3>4. CASE r[i] = r[j] /\ m[i] = m[j] /\ f[i] # f[j]
      BY <1>5, <3>2, <3>4
    <3>5. CASE r[i] = r[j] /\ m[i] = m[j] /\ f[i] = f[j] /\ g[i] # g[j]
      BY <1>5, <3>2, <3>5
    <3>6. CASE r[i] = r[j] /\ m[i] = m[j] /\ f[i] = f[j] /\ g[i] = g[j]
      BY <1>5, <3>1, <3>2, <3>6
    <3>7. QED
      BY <3>3, <3>4, <3>5, <3>6
  <2>3. \A i, j, k \in D : <<i, j>> \in order /\ <<j, k>> \in order => <<i, k>> \in order
    <3>1. SUFFICES ASSUME NEW i \in D, NEW j \in D, NEW k \in D, Sooner(rows, i, j), Sooner(rows, j, k)
                   PROVE  Sooner(rows, i, k)
      BY <1>1
    <3>2. /\ r[i] \in Int /\ m[i] \in Int /\ f[i] \in Int /\ g[i] \in Int /\ l[i] \in Int
          /\ r[j] \in Int /\ m[j] \in Int /\ f[j] \in Int /\ g[j] \in Int /\ l[j] \in Int
          /\ r[k] \in Int /\ m[k] \in Int /\ f[k] \in Int /\ g[k] \in Int /\ l[k] \in Int
          /\ i \in Int /\ j \in Int /\ k \in Int
      BY <1>4, <2>0
    <3> DEFINE S(x, y) ==
                \/ r[x] < r[y]
                \/ r[x] = r[y] /\ m[x] < m[y]
                \/ r[x] = r[y] /\ m[x] = m[y] /\ f[x] < f[y]
                \/ r[x] = r[y] /\ m[x] = m[y] /\ f[x] = f[y] /\ g[x] < g[y]
                \/ r[x] = r[y] /\ m[x] = m[y] /\ f[x] = f[y] /\ g[x] = g[y] /\ l[x] < l[y]
                \/ r[x] = r[y] /\ m[x] = m[y] /\ f[x] = f[y] /\ g[x] = g[y] /\ l[x] = l[y] /\ x < y
    <3>3. S(i, j) /\ S(j, k) /\ (S(i, k) => Sooner(rows, i, k))
      BY <1>5, <3>1
    <3>4. S(i, k)
      BY <3>2, <3>3, SMTT(60)
    <3>5. QED
      BY <3>3, <3>4
  <2>4. QED
    BY <2>1, <2>2, <2>3 DEF IsOrder
<1>7. IsFiniteSet(D) /\ Cardinality(D) = n
  BY FS_Interval
<1>8. PICK pos : pos = InOrder(D, order)
  OBVIOUS
<1>9. Lists(pos, D)
  <2> HIDE DEF D, order
  <2>1. QED
    BY <1>6, <1>7, <1>8, OrderLists
<1>10. sorted = [k \in DOMAIN pos |-> rows[pos[k]]]
  BY <1>8 DEF SortRules, Sooner
<1>11. DOMAIN pos = D
  BY <1>7, <1>9 DEF Lists
<1>12. QED
  BY <1>7, <1>9, <1>10, <1>11

(* What a tenant's counts are.                                             *)
Measured(tc) == \A n \in DOMAIN tc : tc[n] \in Nat \cup {None}

(* What a rule's row says of it.                                           *)
LEMMA RowFacts ==
  ASSUME NEW r \in RuleType, NEW own, NEW tc, Measured(tc), NEW active,
         NEW row, row = RowOf(r, own, tc, active)
  PROVE  /\ IsRow(row) /\ row.file = r.file /\ row.group = r.group /\ row.name = r.name
         /\ row.status = "no_output" <=> ~IsRecording(r)
         /\ IsRecording(r) =>
                /\ row.series = IF r.tenant = NoTenant THEN None ELSE SeriesOf(tc, r.name)
                /\ row.status = IF row.series = None THEN "not_measured"
                                ELSE IF row.series = 0 THEN "no_series" ELSE "series"
                /\ row.share = ShareOf(row.series, active)
<1>1. r.file \in Int /\ r.group \in Int /\ r.name \in Int /\ r.kind \in Kinds
  <2>1. r.file \in Nat /\ r.group \in Nat /\ r.name \in Names \cup {Empty} /\ r.kind \in Kinds
    BY DEF RuleType
  <2>2. Names \cup {Empty} \subseteq Int
    BY ChunkAssumption DEF Empty
  <2>3. QED
    BY <2>1, <2>2
<1> DEFINE n == IF r.tenant = NoTenant THEN None ELSE SeriesOf(tc, r.name)
<1>2. n \in Nat \cup {None}
  BY DEF SeriesOf, Measured
<1> HIDE DEF n
<1>3. CASE ~IsRecording(r)
  <2>1. row = [file |-> r.file, group |-> r.group, name |-> r.name, status |-> "no_output", series |-> None,
               share |-> None, sharedWith |-> <<>>]
    BY <1>3 DEF RowOf
  <2>2. row.file = r.file /\ row.group = r.group /\ row.name = r.name /\ row.status = "no_output" /\ row.series = None
    BY <2>1
  <2>3. QED
    BY <1>1, <1>3, <2>2 DEF IsRow, Statuses
<1>4. CASE IsRecording(r)
  <2>1. row = [file |-> r.file, group |-> r.group, name |-> r.name, series |-> n,
               status |-> IF n = None THEN "not_measured" ELSE IF n = 0 THEN "no_series" ELSE "series",
               share |-> ShareOf(n, active), sharedWith |-> SharedWith(r, own)]
    BY <1>4 DEF RowOf, n
  <2>2. /\ row.file = r.file /\ row.group = r.group /\ row.name = r.name /\ row.series = n /\ row.share = ShareOf(n, active)
        /\ row.status = IF n = None THEN "not_measured" ELSE IF n = 0 THEN "no_series" ELSE "series"
    BY <2>1
  <2>3. IsRow(row) /\ row.status # "no_output"
    BY <1>1, <1>2, <2>2 DEF IsRow, Statuses
  <2>4. QED
    BY <1>4, <2>2, <2>3 DEF n
<1>5. QED
  BY <1>3, <1>4

(* A tenant's rules record finitely many metrics.                          *)
LEMMA NamesOf ==
  ASSUME NEW rs \in Seq(RuleType)
  PROVE  RecordedBy(rs) \subseteq Names /\ IsFiniteSet(RecordedBy(rs))
<1>1. \A r \in Range(rs) : r \in RuleType
  BY DEF Range
<1>2. RecordedBy(rs) \subseteq Names
  BY <1>1 DEF RecordedBy, RuleType
<1>3. QED
  BY <1>2, FS_Subset, ChunkAssumption

(* A total is nil or a number.                                             *)
LEMMA TotalType ==
  ASSUME NEW t, NEW own \in Seq(RuleType), NEW tc, Measured(tc)
  PROVE  OutputSeries(t, own, tc) \in Int \cup {None}
<1> DEFINE S == {n \in RecordedBy(own) : SeriesOf(tc, n) # None}
           f == [n \in S |-> SeriesOf(tc, n)]
<1>1. IsFiniteSet(S)
  BY NamesOf, FS_Subset
<1>2. \A n \in S : f[n] \in Int
  BY DEF SeriesOf, Measured
<1>3. OutputSeries(t, own, tc) = IF t = NoTenant \/ S = {} THEN None ELSE SumFunctionOnSet(f, S)
  BY DEF OutputSeries, SumFunction
<1> HIDE DEF f, S
<1>4. SumFunctionOnSet(f, S) \in Int
  BY <1>1, <1>2, SumType
<1>5. QED
  BY <1>3, <1>4

(* rows are the rows of own, in the order pos.                             *)
Shuffled(pos, n, rows, own, tc, active) ==
    /\ Lists(pos, 1..n) /\ Cardinality(1..n) = n
    /\ rows = [k \in 1..n |-> RowOf(own[pos[k]], own, tc, active)]

(* The rows of a section are those of its tenant's rules, one each.        *)
LEMMA RowsListed ==
  ASSUME NEW t, NEW rs \in Seq(RuleType), NEW cs, Measured(TenantCounts(cs, t)), NEW den,
         NEW out, out = TenantOutputs(t, rs, cs, den),
         NEW own, own = RulesOf(t, rs), NEW n, n = Len(own)
  PROVE  /\ n \in Nat /\ own \in Seq(RuleType) /\ DOMAIN own = 1..n
         /\ \E pos : Shuffled(pos, n, out.rows, own, TenantCounts(cs, t), ActiveSeries(den, t))
<1>1. own \in Seq(RuleType) /\ n \in Nat /\ DOMAIN own = 1..n
  BY OwnRules
<1> DEFINE rows == [k \in DOMAIN own |-> RowOf(own[k], own, TenantCounts(cs, t), ActiveSeries(den, t))]
<1>2. out.rows = SortRules(rows)
  BY DEF TenantOutputs
<1>3. DOMAIN rows = 1..n /\ \A k \in 1..n : rows[k] = RowOf(own[k], own, TenantCounts(cs, t), ActiveSeries(den, t))
  BY <1>1
<1> HIDE DEF rows
<1>4. \A k \in 1..n : IsRow(rows[k])
  <2>1. \A k \in 1..n : own[k] \in RuleType
    BY <1>1
  <2>2. QED
    BY <1>3, <2>1, RowFacts
<1>5. PICK pos : Lists(pos, 1..n) /\ Cardinality(1..n) = n /\ out.rows = [k \in 1..n |-> rows[pos[k]]]
  BY <1>1, <1>2, <1>3, <1>4, SortPermutes
<1>6. \A k \in 1..n : pos[k] \in 1..n
  BY <1>5 DEF Lists
<1>7. out.rows = [k \in 1..n |-> RowOf(own[pos[k]], own, TenantCounts(cs, t), ActiveSeries(den, t))]
  BY <1>3, <1>5, <1>6
<1>8. QED
  BY <1>1, <1>5, <1>7 DEF Shuffled

(* The report has one section per tenant (sort.Slice, ruleoutput.go:268).  *)
LEMMA JoinLists ==
  ASSUME NEW rs \in Seq(RuleType), NEW cs, \A t : Measured(TenantCounts(cs, t)), NEW den
  PROVE  Lists(JoinOutputs(rs, cs, den), {TenantOutputs(t, rs, cs, den) : t \in Tenants(rs)})
<1> DEFINE Out(t) == TenantOutputs(t, rs, cs, den)
           S == {Out(t) : t \in Tenants(rs)}
           order == {p \in S \X S : LessTenant(p[1], p[2])}
<1>1. \A x, y \in S : <<x, y>> \in order <=> LessTenant(x, y)
  OBVIOUS
<1>2. IsFiniteSet(S)
  <2> DEFINE f == [k \in DOMAIN rs |-> Out(rs[k].tenant)]
  <2>1. S = {f[k] : k \in DOMAIN rs}
    BY DEF Tenants, Range
  <2>2. IsFiniteSet(DOMAIN rs)
    BY PositionsFinite
  <2> HIDE DEF f, S
  <2>3. QED
    BY <2>1, <2>2, ImageFinite
<1>3. ASSUME NEW x \in S
      PROVE  x.tenant \in Tenants(rs) /\ x = Out(x.tenant) /\ x.tenant \in Int /\ x.outputSeries \in Int \cup {None}
  <2>1. PICK t \in Tenants(rs) : x = Out(t)
    OBVIOUS
  <2>2. x.tenant = t /\ x.outputSeries = OutputSeries(t, RulesOf(t, rs), TenantCounts(cs, t))
    BY <2>1 DEF TenantOutputs
  <2>3. t \in Int
    <3>1. \A r \in Range(rs) : r \in RuleType
      BY DEF Range
    <3>2. QED
      BY <2>1, <3>1 DEF Tenants, RuleType
  <2>4. OutputSeries(t, RulesOf(t, rs), TenantCounts(cs, t)) \in Int \cup {None}
    BY OwnRules, TotalType
  <2>5. QED
    BY <2>1, <2>2, <2>3, <2>4
<1>4. \A x, y \in S : x # y => x.tenant # y.tenant
  BY <1>3
<1>5. \A x \in S : x.tenant \in Int /\ x.outputSeries \in Int \cup {None}
  BY <1>3
<1> HIDE DEF S, order
<1>6. IsOrder(S, order)
  <2> USE ReportAssumption
  <2>1. \A x \in S : <<x, x>> \notin order
    BY <1>1, <1>5 DEF LessTenant
  <2>2. \A x, y \in S : x # y => <<x, y>> \in order \/ <<y, x>> \in order
    <3>1. SUFFICES ASSUME NEW x \in S, NEW y \in S, x # y PROVE LessTenant(x, y) \/ LessTenant(y, x)
      BY <1>1
    <3>2. x.tenant \in Int /\ x.outputSeries \in Int \cup {None} /\ y.tenant \in Int /\ y.outputSeries \in Int \cup {None}
          /\ x.tenant # y.tenant
      BY <1>4, <1>5, <3>1
    <3>3. QED
      BY <3>2 DEF LessTenant
  <2>3. \A x, y, z \in S : <<x, y>> \in order /\ <<y, z>> \in order => <<x, z>> \in order
    <3>1. SUFFICES ASSUME NEW x \in S, NEW y \in S, NEW z \in S, LessTenant(x, y), LessTenant(y, z) PROVE LessTenant(x, z)
      BY <1>1
    <3>2. /\ x.tenant \in Int /\ x.outputSeries \in Int \cup {None} /\ y.tenant \in Int /\ y.outputSeries \in Int \cup {None}
          /\ z.tenant \in Int /\ z.outputSeries \in Int \cup {None}
      BY <1>5
    <3>3. QED
      BY <3>1, <3>2 DEF LessTenant
  <2>4. QED
    BY <2>1, <2>2, <2>3 DEF IsOrder
<1>7. PICK j : j = JoinOutputs(rs, cs, den)
  OBVIOUS
<1>8. j = InOrder(S, order)
  BY <1>7 DEF JoinOutputs, S, order
<1>9. Lists(j, S)
  BY <1>2, <1>6, <1>8, OrderLists
<1>10. QED
  BY <1>7, <1>9 DEF S

(* Each name asked for has its series or, when its query failed, nil.      *)
CountsOK ==
    phase \in {"counted", "joined"} =>
        /\ DOMAIN counts = DOMAIN chunks
        /\ \A t \in DOMAIN counts :
            /\ DOMAIN counts[t] = RecordedBy(RulesOf(t, rules))
            /\ \A n \in DOMAIN counts[t] : series[<<t, n>>] \in Nat /\ counts[t][n] \in {None, series[<<t, n>>]}

(* There is a report exactly when it was joined, and it is the join.       *)
ReportOK ==
    /\ phase = "joined" => report = JoinOutputs(rules, counts, denominator)
    /\ phase # "joined" => report = None

(* Measure establishes CountsOK.                                           *)
LEMMA Answers ==
  ASSUME TypeOK, Measure
  PROVE  CountsOK'
<1> DEFINE asked(t) == UNION {Range(chunks'[t][c]) : c \in DOMAIN chunks'[t]}
           pairs    == UNION {{t} \X asked(t) : t \in DOMAIN chunks'}
<1>1. PICK want : want = Wanted(rules)
  OBVIOUS
<1>2. chunks' = Jobs(want) /\ rules' = rules
  BY <1>1 DEF Measure
<1>3. DOMAIN chunks' = DOMAIN want
  BY <1>2 DEF Jobs
<1>4. ASSUME NEW t \in DOMAIN chunks' PROVE asked(t) = RecordedBy(RulesOf(t, rules))
  <2>1. PICK r : r = Jobs(want)[t]
    OBVIOUS
  <2>2. {r[p[1]][p[2]] : p \in Places(r)} = RecordedBy(RulesOf(t, rules))
    BY <1>1, <1>3, <2>1, JobsCut, SMTT(60)
  <2>3. UNION {Range(r[c]) : c \in DOMAIN r} = {r[p[1]][p[2]] : p \in Places(r)}
    <3>1. ASSUME NEW c \in DOMAIN r, NEW i \in DOMAIN r[c] PROVE r[c][i] \in {r[p[1]][p[2]] : p \in Places(r)}
      <4>1. <<c, i>> \in Places(r)
        BY DEF Places
      <4>2. QED
        BY <4>1
    <3>2. ASSUME NEW p \in Places(r) PROVE p[1] \in DOMAIN r /\ p[2] \in DOMAIN r[p[1]]
      BY DEF Places
    <3>3. QED
      BY <3>1, <3>2 DEF Range
  <2>4. QED
    BY <1>2, <2>1, <2>2, <2>3
<1>5. PICK failed \in SUBSET pairs, has \in [pairs -> SeriesCounts] :
        /\ series' = has
        /\ counts' = [t \in DOMAIN chunks' |-> [n \in asked(t) |->
                        IF <<t, n>> \in failed THEN None ELSE has[<<t, n>>]]]
  BY DEF Measure
<1>6. DOMAIN counts' = DOMAIN chunks'
  BY <1>5
<1>7. ASSUME NEW t \in DOMAIN chunks'
      PROVE  /\ DOMAIN counts'[t] = RecordedBy(RulesOf(t, rules))
             /\ \A n \in DOMAIN counts'[t] : series'[<<t, n>>] \in Nat /\ counts'[t][n] \in {None, series'[<<t, n>>]}
  <2>1. counts'[t] = [n \in asked(t) |-> IF <<t, n>> \in failed THEN None ELSE has[<<t, n>>]]
    BY <1>5
  <2>2. \A n \in asked(t) : <<t, n>> \in pairs
    OBVIOUS
  <2>3. \A n \in asked(t) : has[<<t, n>>] \in Nat
    <3> HIDE DEF pairs, asked
    <3>1. QED
      BY <2>2, ReportAssumption
  <2> HIDE DEF pairs, asked
  <2>4. DOMAIN counts'[t] = asked(t)
    BY <2>1
  <2>5. \A n \in asked(t) : counts'[t][n] \in {None, has[<<t, n>>]}
    BY <2>1
  <2>6. QED
    BY <1>4, <1>5, <2>3, <2>4, <2>5
<1>8. QED
  BY <1>2, <1>6, <1>7 DEF CountsOK

(* CountsOK always holds.                                                  *)
LEMMA CountsHold == Spec => []CountsOK
<1>1. Init => CountsOK
  BY DEF Init, LoadInit, CountsOK
<1>2. TypeOK /\ CountsOK /\ [Next]_vars => CountsOK'
  <2> SUFFICES ASSUME TypeOK, CountsOK, [Next]_vars PROVE CountsOK'
    OBVIOUS
  <2>1. CASE UNCHANGED <<chunks, rules, counts, series, phase>>
    BY <2>1 DEF CountsOK
  <2>2. CASE Measure
    BY <2>2, Answers
  <2>3. CASE Loading
    <3>1. phase' \notin {"counted", "joined"}
      BY <2>3 DEF Loading, Load, NewDefinitionsSource, WalkDirFails, LoadFile, FetchFails, FetchAnswers, FetchTenant, LoadEnds
    <3>2. QED
      BY <3>1 DEF CountsOK
  <2>4. CASE Join
    <3>1. phase = "counted" /\ UNCHANGED <<chunks, rules, counts, series>>
      BY <2>4 DEF Join
    <3>2. QED
      BY <3>1 DEF CountsOK
  <2>5. QED
    BY <2>1, <2>2, <2>3, <2>4 DEF Next, vars, loadVars, joinVars
<1>3. QED
  BY <1>1, <1>2, TypeCorrect, PTL DEF Spec

(* ReportOK always holds.                                                  *)
LEMMA ReportHolds == Spec => []ReportOK
<1>1. Init => ReportOK
  BY DEF Init, LoadInit, ReportOK
<1>2. ReportOK /\ [Next]_vars => ReportOK'
  <2> SUFFICES ASSUME ReportOK, [Next]_vars PROVE ReportOK'
    OBVIOUS
  <2>1. CASE UNCHANGED vars
    BY <2>1 DEF ReportOK, vars, loadVars, joinVars
  <2>2. CASE Measure
    BY <2>2 DEF Measure, ReportOK
  <2>3. CASE Loading
    <3>1. phase # "joined" /\ phase' # "joined" /\ report' = report
      BY <2>3 DEF Loading, Load, NewDefinitionsSource, WalkDirFails, LoadFile, FetchFails, FetchAnswers, FetchTenant,
                  LoadEnds, joinVars
    <3>2. QED
      BY <3>1 DEF ReportOK
  <2>4. CASE Join
    BY <2>4 DEF Join, ReportOK
  <2>5. QED
    BY <2>1, <2>2, <2>3, <2>4 DEF Next
<1>3. QED
  BY <1>1, <1>2, PTL DEF Spec

(* What Join finds for a metric of a tenant is what its query gave.        *)
LEMMA Tally ==
  ASSUME TypeOK, EveryMetricAskedOnce, CountsOK, phase = "joined"
  PROVE  /\ \A t : Measured(TenantCounts(counts, t))
         /\ \A t \in Tenants(rules) : \A n \in RecordedBy(RulesOf(t, rules)) :
                LET tc == TenantCounts(counts, t)
                IN  t # NoTenant =>
                    /\ SeriesOf(tc, n) = counts[t][n] /\ series[<<t, n>>] \in Nat
                    /\ counts[t][n] \in {None, series[<<t, n>>]}
<1>1. /\ DOMAIN counts = {t \in Tenants(rules) \ {NoTenant} : RecordedBy(RulesOf(t, rules)) # {}}
      /\ \A t \in DOMAIN counts :
            /\ DOMAIN counts[t] = RecordedBy(RulesOf(t, rules))
            /\ \A n \in DOMAIN counts[t] : series[<<t, n>>] \in Nat /\ counts[t][n] \in {None, series[<<t, n>>]}
  BY DEF CountsOK, EveryMetricAskedOnce
<1>2. ASSUME NEW t PROVE Measured(TenantCounts(counts, t))
  <2>1. CASE t \in DOMAIN counts
    BY <1>1, <2>1 DEF Measured, TenantCounts
  <2>2. CASE t \notin DOMAIN counts
    BY <2>2 DEF Measured, TenantCounts
  <2>3. QED
    BY <2>1, <2>2
<1>3. ASSUME NEW t \in Tenants(rules), NEW n \in RecordedBy(RulesOf(t, rules)), t # NoTenant
      PROVE  /\ SeriesOf(TenantCounts(counts, t), n) = counts[t][n] /\ series[<<t, n>>] \in Nat
             /\ counts[t][n] \in {None, series[<<t, n>>]}
  <2>1. t \in DOMAIN counts
    BY <1>1, <1>3
  <2>2. n \in DOMAIN counts[t]
    BY <1>1, <2>1
  <2>3. QED
    BY <1>1, <2>1, <2>2 DEF SeriesOf, TenantCounts
<1>4. QED
  BY <1>2, <1>3

(* Every section of the report is a tenant's join, and every tenant has    *)
(* one.                                                                    *)
LEMMA Entries ==
  ASSUME TypeOK, EveryMetricAskedOnce, CountsOK, ReportOK, phase = "joined"
  PROVE  /\ \A k \in DOMAIN report :
                /\ report[k].tenant \in Tenants(rules)
                /\ report[k] = TenantOutputs(report[k].tenant, rules, counts, denominator)
         /\ \A t \in Tenants(rules) : \E k \in DOMAIN report : report[k] = TenantOutputs(t, rules, counts, denominator)
<1> DEFINE Out(t) == TenantOutputs(t, rules, counts, denominator)
           S == {Out(t) : t \in Tenants(rules)}
<1>1. \A t : Measured(TenantCounts(counts, t))
  BY Tally
<1>2. Lists(report, S)
  BY <1>1, JoinLists DEF ReportOK, TypeOK
<1>3. \A t : Out(t).tenant = t
  BY DEF TenantOutputs
<1> HIDE DEF Out
<1>4. DOMAIN report = 1..Cardinality(S) /\ (\A k \in DOMAIN report : report[k] \in S) /\ (\A x \in S : \E k \in DOMAIN report : report[k] = x)
  <2> HIDE DEF S
  <2>1. QED
    BY <1>2 DEF Lists
<1>5. ASSUME NEW k \in DOMAIN report PROVE report[k].tenant \in Tenants(rules) /\ report[k] = Out(report[k].tenant)
  BY <1>3, <1>4
<1>6. QED
  BY <1>4, <1>5 DEF Out

--------------------------------------------------------------------------------
(* Totals.                                                                 *)

(* A sum of naturals is one.                                               *)
LEMMA SumNatural ==
  ASSUME NEW f, NEW S, IsFiniteSet(S), \A x \in S : f[x] \in Nat
  PROVE  SumFunctionOnSet(f, S) \in Nat
<1> DEFINE T == {x \in S : f[x] > 0}
<1>1. \A x \in S : f[x] \in Int
  OBVIOUS
<1>2. T \in SUBSET S /\ \A x \in S \ T : f[x] = 0
  OBVIOUS
<1>3. IsFiniteSet(T) /\ \A x \in T : f[x] \in Int /\ f[x] > 0
  BY FS_Subset
<1> HIDE DEF T
<1>4. SumFunctionOnSet(f, S) = SumFunctionOnSet(f, T) /\ SumFunctionOnSet(f, S) \in Int
  BY <1>1, <1>2, SumRestrict, SumType
<1>5. CASE T = {}
  BY <1>4, <1>5, SumEmpty
<1>6. CASE T # {}
  <2>1. SumFunctionOnSet(f, T) > 0
    BY <1>3, <1>6, SumPositive
  <2>2. QED
    BY <1>4, <2>1
<1>7. QED
  BY <1>5, <1>6

(* Leaving summands out of a sum of naturals gives no more than the whole. *)
LEMMA TotalBelow ==
  ASSUME NEW S, IsFiniteSet(S), NEW T \in SUBSET S, NEW f, \A x \in S : f[x] \in Nat, NEW g, \A x \in T : g[x] = f[x]
  PROVE  /\ SumFunctionOnSet(g, T) \in Int /\ SumFunctionOnSet(g, T) <= SumFunctionOnSet(f, S)
         /\ T = S => SumFunctionOnSet(g, T) = SumFunctionOnSet(f, S)
<1>1. IsFiniteSet(T) /\ IsFiniteSet(S \ T)
  BY FS_Subset
<1>2. SumFunctionOnSet(g, T) = SumFunctionOnSet(f, T)
  BY <1>1, SumAgree
<1>3. SumFunctionOnSet(f, T) \in Nat /\ SumFunctionOnSet(f, S \ T) \in Nat
  BY <1>1, SumNatural
<1>4. SumFunctionOnSet(f, S) = SumFunctionOnSet(f, T) + SumFunctionOnSet(f, S \ T)
  <2>1. \A x \in S : f[x] \in Int
    OBVIOUS
  <2>2. QED
    BY <2>1, SumSplit
<1>5. QED
  BY <1>2, <1>3, <1>4

(* The inductive invariant of the count and the join.                      *)
Correct == TypeOK /\ EveryMetricAskedOnce /\ CountsOK /\ ReportOK

(* Totals are lower bounds in every state of which Correct holds.          *)
LEMMA TotalsHold ==
  ASSUME Correct
  PROVE  TotalIsLowerBound
<1> SUFFICES ASSUME phase = "joined", NEW k \in DOMAIN report
             PROVE  LET t == report[k]
                        metrics == RecordedBy(RulesOf(t.tenant, rules))
                        unknown == IF t.tenant = NoTenant THEN metrics ELSE {n \in metrics : Failed(t.tenant, n)}
                        line == OutputSection(t).summary
                    IN  IF metrics = {} THEN line = Says("no distinct metric")
                        ELSE IF unknown = metrics THEN line = Says("none could be counted")
                        ELSE /\ line.shows <= TrueTotal(t.tenant, metrics)
                             /\ line.atLeast <=> unknown # {}
                             /\ ~line.atLeast => line.shows = TrueTotal(t.tenant, metrics)
                             /\ line.share # None => line.share = <<line.shows, denominator[t.tenant]>>
  BY DEF TotalIsLowerBound, Joined
<1>1. PICK out, t : out = report[k] /\ t = out.tenant
  OBVIOUS
<1>2. out = TenantOutputs(t, rules, counts, denominator) /\ t \in Tenants(rules)
  BY <1>1, Entries DEF Correct
<1>3. PICK own, tc, active : own = RulesOf(t, rules) /\ tc = TenantCounts(counts, t) /\ active = ActiveSeries(denominator, t)
  OBVIOUS
<1>4. PICK metrics : metrics = RecordedBy(own)
  OBVIOUS
<1> DEFINE missing == {n \in metrics : t = NoTenant \/ SeriesOf(tc, n) = None}
           unknown == IF t = NoTenant THEN metrics ELSE {n \in metrics : Failed(t, n)}
           line == OutputSummary(out)
<1>5. /\ out.tenant = t /\ out.activeSeries = active /\ out.outputMetrics = Cardinality(metrics)
      /\ out.outputSeries = OutputSeries(t, own, tc) /\ (out.complete <=> missing = {} /\ metrics # {})
      /\ out.share = ShareOf(OutputSeries(t, own, tc), active)
  BY <1>2, <1>3, <1>4 DEF TenantOutputs
<1>6. \A n \in metrics : t # NoTenant =>
            /\ SeriesOf(tc, n) = counts[t][n] /\ series[<<t, n>>] \in Nat
            /\ counts[t][n] \in {None, series[<<t, n>>]}
  BY <1>2, <1>3, <1>4, Tally DEF Correct
<1>7. unknown = missing
  BY <1>6 DEF Failed
<1>8. IsFiniteSet(metrics) /\ (Cardinality(metrics) = 0 <=> metrics = {})
  <2>1. own \in Seq(RuleType)
    BY <1>3, OwnRules DEF Correct, TypeOK
  <2>2. QED
    BY <1>4, <2>1, NamesOf, FS_EmptySet
<1>9. SUFFICES IF metrics = {} THEN line = Says("no distinct metric")
               ELSE IF unknown = metrics THEN line = Says("none could be counted")
               ELSE /\ line.shows <= TrueTotal(t, metrics)
                    /\ line.atLeast <=> unknown # {}
                    /\ ~line.atLeast => line.shows = TrueTotal(t, metrics)
                    /\ line.share # None => line.share = <<line.shows, denominator[t]>>
  <2>1. OutputSection(out).summary = line
    BY DEF OutputSection
  <2> HIDE DEF line
  <2>2. QED
    BY <1>1, <1>3, <1>4, <1>9, <2>1
<1>10. CASE metrics = {}
  BY <1>5, <1>8, <1>10 DEF OutputSummary
<1> DEFINE measured == {n \in metrics : SeriesOf(tc, n) # None}
           f == [n \in measured |-> SeriesOf(tc, n)]
           h == [n \in metrics |-> series[<<t, n>>]]
<1>11. OutputSeries(t, own, tc) = IF t = NoTenant \/ measured = {} THEN None ELSE SumFunctionOnSet(f, measured)
  BY <1>4 DEF OutputSeries, SumFunction
<1>12. CASE metrics # {} /\ unknown = metrics
  <2>1. t = NoTenant \/ measured = {}
    BY <1>7, <1>12
  <2>2. out.outputSeries = None
    BY <1>5, <1>11, <2>1
  <2>3. line = Says("none could be counted")
    BY <1>5, <1>8, <1>12, <2>2 DEF OutputSummary
  <2>4. QED
    BY <1>12, <2>3
<1>13. CASE metrics # {} /\ unknown # metrics
  <2>1. t # NoTenant /\ measured # {} /\ measured \in SUBSET metrics /\ measured = metrics \ missing
    BY <1>7, <1>13
  <2>2. \A n \in metrics : h[n] \in Nat
    BY <1>6, <2>1
  <2>3. \A n \in measured : f[n] = h[n]
    BY <1>6, <2>1
  <2>4. TrueTotal(t, metrics) = SumFunctionOnSet(h, metrics)
    BY DEF TrueTotal, SumFunction
  <2>5. PICK total : total = SumFunctionOnSet(f, measured)
    OBVIOUS
  <2>6. /\ total \in Int /\ total <= TrueTotal(t, metrics)
        /\ measured = metrics => total = TrueTotal(t, metrics)
    <3> HIDE DEF f, h, measured
    <3>1. QED
      BY <1>8, <2>1, <2>2, <2>3, <2>4, <2>5, TotalBelow
  <2>7. OutputSeries(t, own, tc) = total
    BY <1>11, <2>1, <2>5
  <2>8. total # None
    BY <2>6, ReportAssumption
  <2>9. line = [shows |-> total, atLeast |-> ~out.complete, share |-> IF active = None THEN None ELSE ShareOf(total, active)]
    BY <1>5, <1>8, <1>13, <2>7, <2>8 DEF OutputSummary
  <2>10. line.shows = total /\ line.atLeast = ~out.complete
         /\ line.share = IF active = None THEN None ELSE ShareOf(total, active)
    <3> HIDE DEF line
    <3>1. QED
      BY <2>9
  <2>11. line.atLeast <=> unknown # {}
    BY <1>5, <1>7, <1>13, <2>10
  <2>12. ~line.atLeast => line.shows = TrueTotal(t, metrics)
    <3>1. SUFFICES ASSUME ~line.atLeast PROVE line.shows = TrueTotal(t, metrics)
      OBVIOUS
    <3>2. missing = {}
      BY <1>7, <2>11, <3>1
    <3>3. measured = metrics
      BY <2>1, <3>2
    <3>4. QED
      BY <2>6, <2>10, <3>3
  <2>13. line.share # None => line.share = <<line.shows, denominator[t]>>
    <3>1. SUFFICES ASSUME line.share # None PROVE line.share = <<line.shows, denominator[t]>>
      OBVIOUS
    <3>2. active # None /\ line.share = ShareOf(total, active)
      BY <2>10, <3>1
    <3>3. active = denominator[t]
      BY <1>3, <3>2 DEF ActiveSeries
    <3>4. line.share = <<total, active>>
      BY <3>1, <3>2 DEF ShareOf
    <3>5. QED
      BY <2>10, <3>3, <3>4
  <2>14. QED
    BY <1>13, <2>6, <2>10, <2>11, <2>12, <2>13
<1>14. QED
  BY <1>10, <1>12, <1>13

--------------------------------------------------------------------------------
(* The page.                                                               *)

(* The alerting rules of a section, however it is sorted, are those loaded *)
(* for its tenant.                                                         *)
LEMMA OwnCounted ==
  ASSUME NEW rs \in Seq(RuleType), NEW t, NEW own, own = RulesOf(t, rs), NEW n, n = Len(own),
         NEW pos, Lists(pos, 1..n), Cardinality(1..n) = n
  PROVE  Cardinality({k \in 1..n : ~IsRecording(own[pos[k]])})
            = Cardinality({i \in DOMAIN rs : rs[i].tenant = t /\ rs[i].kind = "alerting"})
<1> DEFINE P == {i \in DOMAIN rs : rs[i].tenant = t}
           A == {i \in DOMAIN rs : rs[i].tenant = t /\ rs[i].kind = "alerting"}
           Q == {k \in 1..n : ~IsRecording(own[pos[k]])}
<1>1. own = At(rs, P) /\ P \in SUBSET DOMAIN rs
  BY DEF RulesOf
<1>2. Len(rs) \in Nat /\ DOMAIN rs = 1..Len(rs) /\ own \in Seq(RuleType) /\ n \in Nat /\ DOMAIN own = 1..n
  BY OwnRules
<1>3. PICK sel : Lists(sel, P) /\ own = [k \in 1..Cardinality(P) |-> rs[sel[k]]]
  <2> HIDE DEF P
  <2>1. P \in SUBSET (1..Len(rs))
    BY <1>1, <1>2
  <2>2. QED
    BY <1>1, <1>2, <2>1, AtLists
<1>4. Cardinality(P) = n
  <2>1. 1..Cardinality(P) = 1..n /\ Cardinality(P) \in Nat
    BY <1>2, <1>3 DEF Lists
  <2> HIDE DEF P
  <2>2. QED
    BY <1>2, <2>1
<1>5. /\ \A k \in 1..n : sel[k] \in P /\ own[k] = rs[sel[k]]
      /\ \A j, k \in 1..n : sel[j] = sel[k] => j = k
      /\ \A i \in P : \E k \in 1..n : sel[k] = i
  BY <1>3, <1>4 DEF Lists
<1>6. /\ \A k \in 1..n : pos[k] \in 1..n
      /\ \A j, k \in 1..n : pos[j] = pos[k] => j = k
      /\ \A i \in 1..n : \E k \in 1..n : pos[k] = i
  BY DEF Lists
<1> DEFINE f == [k \in 1..n |-> sel[pos[k]]]
<1>7. A = {i \in P : ~IsRecording(rs[i])}
  <2>1. \A i \in DOMAIN rs : rs[i] \in RuleType
    OBVIOUS
  <2>2. \A i \in DOMAIN rs : rs[i].kind = "alerting" <=> ~IsRecording(rs[i])
    BY <2>1 DEF RuleType, Kinds, IsRecording
  <2>3. QED
    BY <2>2
<1>8. A = {f[k] : k \in Q}
  <2>1. ASSUME NEW k \in Q PROVE f[k] \in A
    BY <1>5, <1>6, <1>7
  <2>2. ASSUME NEW i \in A PROVE \E k \in Q : f[k] = i
    <3>1. i \in P /\ ~IsRecording(rs[i])
      BY <1>7
    <3>2. PICK j \in 1..n : sel[j] = i
      BY <1>5, <3>1
    <3>3. PICK k \in 1..n : pos[k] = j
      BY <1>6
    <3>4. f[k] = i /\ own[pos[k]] = rs[i]
      BY <1>5, <3>2, <3>3
    <3>5. k \in Q
      BY <3>1, <3>4
    <3>6. QED
      BY <3>4, <3>5
  <2>3. QED
    BY <2>1, <2>2
<1>9. \A j, k \in Q : f[j] = f[k] => j = k
  <2>1. \A j, k \in 1..n : f[j] = f[k] => j = k
    <3>1. SUFFICES ASSUME NEW j \in 1..n, NEW k \in 1..n, f[j] = f[k] PROVE j = k
      OBVIOUS
    <3>2. pos[j] \in 1..n /\ pos[k] \in 1..n /\ sel[pos[j]] = sel[pos[k]]
      BY <1>6, <3>1
    <3>3. pos[j] = pos[k]
      BY <1>5, <3>2
    <3>4. QED
      BY <1>6, <3>3
  <2>2. QED
    BY <2>1
<1>10. IsFiniteSet(Q)
  <2>1. IsFiniteSet(1..n)
    BY <1>2, FS_Interval
  <2>2. QED
    BY <2>1, FS_Subset
<1> HIDE DEF A, Q, f
<1>11. Cardinality(A) = Cardinality(Q)
  BY <1>8, <1>9, <1>10, ImageSize
<1>12. QED
  BY <1>11 DEF A, Q

(* out is the report's k-th section, and what it was made of.              *)
Section(k, out, t, own, n, tc, active) ==
    /\ k \in DOMAIN report /\ out = report[k] /\ t = out.tenant
    /\ own = RulesOf(t, rules) /\ n = Len(own)
    /\ tc = TenantCounts(counts, t) /\ active = ActiveSeries(denominator, t)

(* A section's rows are its tenant's own rules in some order.              *)
LEMMA PageRows ==
  ASSUME Correct, phase = "joined", NEW k, NEW out, NEW t, NEW own, NEW n, NEW tc, NEW active,
         Section(k, out, t, own, n, tc, active)
  PROVE  /\ out = TenantOutputs(t, rules, counts, denominator) /\ t \in Tenants(rules)
         /\ Measured(tc) /\ n \in Nat /\ own \in Seq(RuleType) /\ DOMAIN own = 1..n
         /\ \A i \in 1..n : own[i] \in RuleType /\ own[i].tenant = t /\ own[i] \in Range(rules)
         /\ \E pos : Shuffled(pos, n, out.rows, own, tc, active)
<1> USE DEF Section
<1>1. out = TenantOutputs(t, rules, counts, denominator) /\ t \in Tenants(rules)
  BY Entries DEF Correct
<1>2. Measured(tc)
  BY Tally DEF Correct
<1>3. rules \in Seq(RuleType)
  BY DEF Correct, TypeOK
<1>4. /\ n \in Nat /\ own \in Seq(RuleType) /\ DOMAIN own = 1..n
      /\ \E pos : Shuffled(pos, n, out.rows, own, tc, active)
  <2>1. Measured(TenantCounts(counts, t))
    BY <1>2
  <2>2. /\ n \in Nat /\ own \in Seq(RuleType) /\ DOMAIN own = 1..n
        /\ \E pos : Shuffled(pos, n, out.rows, own, TenantCounts(counts, t), ActiveSeries(denominator, t))
    BY <1>1, <1>3, <2>1, RowsListed
  <2>3. QED
    BY <2>2
<1>5. \A i \in 1..n : own[i] \in Range(own) /\ own[i] \in RuleType
  BY <1>4 DEF Range
<1>6. Range(own) = {r \in Range(rules) : r.tenant = t}
  BY <1>3, OwnRules
<1>7. QED
  BY <1>1, <1>2, <1>4, <1>5, <1>6

(* row is the row of rule r of tenant t.                                   *)
Line(row, r, t, own, tc, active) ==
    /\ r \in RuleType /\ r.tenant = t /\ r \in Range(rules)
    /\ row.file = r.file /\ row.group = r.group /\ row.name = r.name
    /\ row.status = "no_output" <=> ~IsRecording(r)
    /\ IsRecording(r) =>
        /\ r.name \in RecordedBy(own)
        /\ row.series = IF t = NoTenant THEN None ELSE SeriesOf(tc, r.name)
        /\ row.status = IF row.series = None THEN "not_measured"
                        ELSE IF row.series = 0 THEN "no_series" ELSE "series"
        /\ row.share = ShareOf(row.series, active)

(* Each of them is the line of one rule.                                   *)
LEMMA PageLines ==
  ASSUME Correct, phase = "joined", NEW k, NEW out, NEW t, NEW own, NEW n, NEW tc, NEW active,
         Section(k, out, t, own, n, tc, active), NEW pos, Shuffled(pos, n, out.rows, own, tc, active)
  PROVE  /\ Len(out.rows) = n /\ DOMAIN out.rows = 1..n
         /\ \A i \in 1..n : pos[i] \in 1..n /\ Line(out.rows[i], own[pos[i]], t, own, tc, active)
<1>1. /\ Measured(tc) /\ n \in Nat /\ own \in Seq(RuleType) /\ DOMAIN own = 1..n
      /\ \A i \in 1..n : own[i] \in RuleType /\ own[i].tenant = t /\ own[i] \in Range(rules)
  BY PageRows
<1>2. out.rows = [i \in 1..n |-> RowOf(own[pos[i]], own, tc, active)] /\ \A i \in 1..n : pos[i] \in 1..n
  BY DEF Shuffled, Lists
<1>3. Len(out.rows) = n /\ DOMAIN out.rows = 1..n
  <2>1. PICK rows : rows = out.rows
    OBVIOUS
  <2>2. rows = [i \in 1..n |-> RowOf(own[pos[i]], own, tc, active)]
    BY <1>2, <2>1
  <2>3. DOMAIN rows = 1..n /\ rows = [i \in 1..n |-> rows[i]]
    BY <2>2
  <2>4. Len(rows) = n
    BY <1>1, <2>3
  <2>5. QED
    BY <2>1, <2>3, <2>4
<1>4. ASSUME NEW i \in 1..n, NEW row, row = out.rows[i], NEW r, r = own[pos[i]]
      PROVE  pos[i] \in 1..n /\ Line(row, r, t, own, tc, active)
  <2>1. pos[i] \in 1..n /\ r \in RuleType /\ r.tenant = t /\ r \in Range(rules)
    BY <1>1, <1>2, <1>4
  <2>2. row = RowOf(r, own, tc, active)
    BY <1>2, <1>4
  <2>3. /\ row.file = r.file /\ row.group = r.group /\ row.name = r.name
        /\ row.status = "no_output" <=> ~IsRecording(r)
        /\ IsRecording(r) =>
                /\ row.series = IF r.tenant = NoTenant THEN None ELSE SeriesOf(tc, r.name)
                /\ row.status = IF row.series = None THEN "not_measured"
                                ELSE IF row.series = 0 THEN "no_series" ELSE "series"
                /\ row.share = ShareOf(row.series, active)
    BY <1>1, <2>1, <2>2, RowFacts
  <2>4. IsRecording(r) => r.name \in RecordedBy(own)
    <3>1. SUFFICES ASSUME IsRecording(r) PROVE r.name \in RecordedBy(own)
      OBVIOUS
    <3>2. r.name # Empty
      BY <2>1, <3>1 DEF RuleType, IsRecording
    <3>3. r \in Range(own)
      BY <1>1, <1>4, <2>1 DEF Range
    <3>4. QED
      BY <3>1, <3>2, <3>3 DEF RecordedBy
  <2>5. QED
    BY <2>1, <2>3, <2>4 DEF Line
<1>5. QED
  BY <1>3, <1>4

(* A joined report has one row per rule of a tenant, and a row for every   *)
(* rule loaded.                                                            *)
LEMMA DefinitionsHold ==
  ASSUME Correct, phase = "joined"
  PROVE  /\ \A k \in DOMAIN report : Len(report[k].rows) = Len(RulesOf(report[k].tenant, rules))
         /\ \A r \in Range(rules) : \E k \in DOMAIN report :
            /\ report[k].tenant = r.tenant
            /\ \E i \in DOMAIN report[k].rows :
                LET row == report[k].rows[i]
                IN  RuleRef(r) = RuleRef(row) /\ (IsRecording(r) <=> row.status # "no_output")
<1>1. ASSUME NEW k \in DOMAIN report PROVE Len(report[k].rows) = Len(RulesOf(report[k].tenant, rules))
  <2>1. PICK out, t, own, n, tc, active : Section(k, out, t, own, n, tc, active)
    BY DEF Section
  <2>2. PICK pos : Shuffled(pos, n, out.rows, own, tc, active)
    BY <2>1, PageRows
  <2>3. Len(out.rows) = n
    BY <2>1, <2>2, PageLines
  <2>4. QED
    BY <2>1, <2>3 DEF Section
<1>2. ASSUME NEW r \in Range(rules)
      PROVE  \E k \in DOMAIN report :
            /\ report[k].tenant = r.tenant
            /\ \E i \in DOMAIN report[k].rows :
                LET row == report[k].rows[i]
                IN  RuleRef(r) = RuleRef(row) /\ (IsRecording(r) <=> row.status # "no_output")
  <2>1. r.tenant \in Tenants(rules)
    BY DEF Tenants
  <2>2. PICK k \in DOMAIN report : report[k] = TenantOutputs(r.tenant, rules, counts, denominator)
    BY <2>1, Entries DEF Correct
  <2>3. PICK out, t, own, n, tc, active : Section(k, out, t, own, n, tc, active)
    BY DEF Section
  <2>4. out = report[k] /\ t = r.tenant
    BY <2>2, <2>3 DEF Section, TenantOutputs
  <2>5. rules \in Seq(RuleType)
    BY DEF Correct, TypeOK
  <2>6. PICK pos : Shuffled(pos, n, out.rows, own, tc, active)
    BY <2>3, PageRows
  <2>7. own \in Seq(RuleType) /\ DOMAIN own = 1..n
    BY <2>3, PageRows
  <2>8. r \in Range(own)
    BY <2>3, <2>4, <2>5, OwnRules DEF Section
  <2>9. PICK j \in 1..n : own[j] = r
    BY <2>7, <2>8 DEF Range
  <2>10. PICK i \in 1..n : pos[i] = j
    BY <2>6, <2>9 DEF Shuffled, Lists
  <2>11. i \in DOMAIN out.rows
    <3>1. DOMAIN out.rows = 1..n
      BY <2>3, <2>6, PageLines
    <3>2. QED
      BY <3>1
  <2>12. /\ out.rows[i].file = r.file /\ out.rows[i].group = r.group /\ out.rows[i].name = r.name
         /\ (out.rows[i].status = "no_output" <=> ~IsRecording(r))
    <3>1. Line(out.rows[i], r, t, own, tc, active)
      BY <2>3, <2>6, <2>9, <2>10, PageLines
    <3>2. QED
      BY <3>1 DEF Line
  <2>13. k \in DOMAIN report /\ report[k].tenant = r.tenant
    BY <2>3, <2>4 DEF Section
  <2>14. i \in DOMAIN report[k].rows /\ RuleRef(r) = RuleRef(report[k].rows[i])
         /\ (IsRecording(r) <=> report[k].rows[i].status # "no_output")
    BY <2>4, <2>11, <2>12 DEF RuleRef
  <2>15. QED
    BY <2>13, <2>14
<1>3. QED
  BY <1>1, <1>2

(* The rows that the page prints.                                          *)
Printed(rows, n)      == {i \in 1..n : rows[i].status # "no_output"}
(* The recording rules among own, in the order pos.                        *)
Recorders(own, pos, n) == {i \in 1..n : IsRecording(own[pos[i]])}

(* page prints the rows at P, as recording.                                *)
Selected(page, rows, recording, P, Q) ==
    /\ P = Q
    /\ page.alerting = Len(rows) - Len(recording)
    /\ page.rows = [i \in DOMAIN recording |-> OutputRow(recording[i])]
    /\ page.notMeasured = Cardinality({row.name : row \in {x \in Range(recording) : x.status = "not_measured"}})
    /\ Len(recording) = Cardinality(P) /\ IsFiniteSet(P) /\ Range(recording) = {rows[i] : i \in P}

(* The page prints the rows of recording rules and counts the others.      *)
LEMMA PageSelects ==
  ASSUME Correct, phase = "joined", NEW k, NEW out, NEW t, NEW own, NEW n, NEW tc, NEW active,
         Section(k, out, t, own, n, tc, active), NEW pos, Shuffled(pos, n, out.rows, own, tc, active),
         NEW P, P = Printed(out.rows, n), NEW recording, recording = At(out.rows, P)
  PROVE  Selected(OutputSection(out), out.rows, recording, P, Recorders(own, pos, n))
<1>1. /\ Len(out.rows) = n /\ DOMAIN out.rows = 1..n
      /\ \A i \in 1..n : pos[i] \in 1..n /\ Line(out.rows[i], own[pos[i]], t, own, tc, active)
  BY PageLines
<1>2. n \in Nat
  BY PageRows
<1>3. P = {i \in 1..n : IsRecording(own[pos[i]])}
  BY <1>1 DEF Line, Printed
<1>4. P = {i \in DOMAIN out.rows : out.rows[i].status # "no_output"}
  BY <1>1 DEF Printed
<1>5. /\ OutputSection(out).alerting = Len(out.rows) - Len(recording)
      /\ OutputSection(out).rows = [i \in DOMAIN recording |-> OutputRow(recording[i])]
      /\ OutputSection(out).notMeasured = Cardinality({row.name : row \in
                            {x \in Range(recording) : x.status = "not_measured"}})
  BY <1>4 DEF OutputSection
<1>6. Len(recording) = Cardinality(P) /\ IsFiniteSet(P) /\ Range(recording) = {out.rows[i] : i \in P}
  <2>1. PICK rows : rows = out.rows
    OBVIOUS
  <2>2. rows = [i \in 1..n |-> RowOf(own[pos[i]], own, tc, active)]
    BY <2>1 DEF Shuffled
  <2>3. PICK X : X = {RowOf(own[pos[i]], own, tc, active) : i \in 1..n}
    OBVIOUS
  <2>4. rows \in Seq(X)
    BY <1>2, <2>2, <2>3
  <2>5. P \in SUBSET DOMAIN rows
    BY <1>4, <2>1
  <2>6. recording = At(rows, P)
    BY <2>1
  <2>7. Len(recording) = Cardinality(P) /\ IsFiniteSet(P) /\ Range(recording) = {rows[i] : i \in P}
    <3>1. ASSUME NEW Y, NEW s, s \in Seq(Y), NEW Q, Q \in SUBSET DOMAIN s, NEW l, l = At(s, Q)
          PROVE  Len(l) = Cardinality(Q) /\ IsFiniteSet(Q) /\ Range(l) = {s[i] : i \in Q}
      BY <3>1, AtSeq
    <3> HIDE <1>1, <1>2, <1>3, <1>4, <1>5
    <3>2. QED
      BY <2>4, <2>5, <2>6, <3>1
  <2>8. QED
    BY <2>1, <2>7
<1>7. QED
  BY <1>3, <1>5, <1>6 DEF Selected, Recorders

(* The metrics the page counts as not measured are those of which Join has *)
(* no figure.                                                              *)
LEMMA UnmeasuredNamed ==
  ASSUME Correct, phase = "joined", NEW k, NEW out, NEW t, NEW own, NEW n, NEW tc, NEW active,
         Section(k, out, t, own, n, tc, active), NEW pos, Shuffled(pos, n, out.rows, own, tc, active)
  PROVE  {row.name : row \in {x \in {out.rows[i] : i \in {j \in 1..n : out.rows[j].status # "no_output"}} : x.status = "not_measured"}}
            = {m \in RecordedBy(own) : t = NoTenant \/ SeriesOf(tc, m) = None}
<1> DEFINE L == {row.name : row \in {x \in {out.rows[i] : i \in {j \in 1..n : out.rows[j].status # "no_output"}} : x.status = "not_measured"}}
           M == {m \in RecordedBy(own) : t = NoTenant \/ SeriesOf(tc, m) = None}
<1>1. \A i \in 1..n : pos[i] \in 1..n /\ Line(out.rows[i], own[pos[i]], t, own, tc, active)
  BY PageLines
<1>2. own \in Seq(RuleType) /\ DOMAIN own = 1..n
  BY PageRows
<1>3. \A x : x \in L <=> \E i \in 1..n : out.rows[i].status = "not_measured" /\ x = out.rows[i].name
  OBVIOUS
<1>4. ASSUME NEW i \in 1..n, out.rows[i].status = "not_measured" PROVE out.rows[i].name \in M
  <2>1. PICK row, r : row = out.rows[i] /\ r = own[pos[i]]
    OBVIOUS
  <2>2. Line(row, r, t, own, tc, active)
    BY <1>1, <2>1
  <2>3. IsRecording(r) /\ row.name = r.name /\ r.name \in RecordedBy(own)
    BY <1>4, <2>1, <2>2 DEF Line
  <2>4. row.series = None
    BY <1>4, <2>1, <2>2, <2>3 DEF Line
  <2>5. t = NoTenant \/ SeriesOf(tc, r.name) = None
    BY <2>2, <2>3, <2>4 DEF Line
  <2>6. QED
    BY <2>1, <2>3, <2>5
<1>5. ASSUME NEW m \in M PROVE \E i \in 1..n : out.rows[i].status = "not_measured" /\ m = out.rows[i].name
  <2>1. PICK r \in Range(own) : IsRecording(r) /\ r.name = m
    BY DEF RecordedBy
  <2>2. PICK j \in 1..n : own[j] = r
    BY <1>2 DEF Range
  <2>3. PICK i \in 1..n : pos[i] = j
    BY <2>2 DEF Shuffled, Lists
  <2>4. PICK row : row = out.rows[i]
    OBVIOUS
  <2>5. Line(row, r, t, own, tc, active)
    BY <1>1, <2>2, <2>3, <2>4
  <2>6. t = NoTenant \/ SeriesOf(tc, r.name) = None
    BY <2>1
  <2>7. row.series = None
    BY <2>1, <2>5, <2>6 DEF Line
  <2>8. row.name = m /\ row.status = "not_measured"
    BY <2>1, <2>5, <2>7 DEF Line
  <2>9. QED
    BY <2>4, <2>8
<1> HIDE DEF L, M
<1>6. L = M
  <2>1. \A x : x \in L <=> x \in M
    <3>1. ASSUME NEW x \in L PROVE x \in M
      BY <1>3, <1>4
    <3>2. ASSUME NEW x \in M PROVE x \in L
      BY <1>3, <1>5
    <3>3. QED
      BY <3>1, <3>2
  <2>2. QED
    BY <2>1
<1>7. QED
  BY <1>6 DEF L, M

(* What RowsTellTheTruth says of a row.                                    *)
Truthful(row, t) ==
    /\ row.series = Says("not measured") <=> (t = NoTenant \/ Failed(t, row.name))
    /\ row.series = Says("0 (no series now)") => series[<<t, row.name>>] = 0
    /\ "shows" \in DOMAIN row.series => row.series.shows = series[<<t, row.name>>] /\ row.series.shows > 0
    /\ "shows" \in DOMAIN row.share =>
            row.share.shows = <<series[<<t, row.name>>], denominator[t]>> /\ denominator[t] > 0

(* A printed row tells the truth about its metric.                         *)
LEMMA RowTruth ==
  ASSUME Correct, phase = "joined", NEW t \in Tenants(rules), NEW own, own = RulesOf(t, rules),
         NEW tc, tc = TenantCounts(counts, t), NEW active, active = ActiveSeries(denominator, t),
         NEW x, NEW r, Line(x, r, t, own, tc, active), IsRecording(r), NEW row, row = OutputRow(x)
  PROVE  Truthful(row, t)
<1>1. /\ x.name = r.name /\ r.name \in RecordedBy(own)
      /\ x.series = IF t = NoTenant THEN None ELSE SeriesOf(tc, r.name)
      /\ x.status = IF x.series = None THEN "not_measured" ELSE IF x.series = 0 THEN "no_series" ELSE "series"
      /\ x.share = ShareOf(x.series, active)
  BY DEF Line
<1> DEFINE figure == CASE x.status = "series"    -> Shows(x.series)
                       [] x.status = "no_series" -> Says("0 (no series now)")
                       [] OTHER                  -> Says("not measured")
<1>2. row.name = x.name /\ row.series = figure /\ row.share = IF x.share = None THEN Says("-") ELSE Shows(x.share)
  BY DEF OutputRow
<1>3. \A v, w : Says(v) # Shows(w) /\ DOMAIN Says(v) = {"says"} /\ DOMAIN Shows(w) = {"shows"} /\ Shows(w).shows = w
  BY DEF Says, Shows
<1>4. Says("0 (no series now)") # Says("not measured")
  BY DEF Says
<1>5. t # NoTenant => /\ SeriesOf(tc, r.name) = counts[t][r.name] /\ series[<<t, r.name>>] \in Nat
                      /\ counts[t][r.name] \in {None, series[<<t, r.name>>]}
  BY <1>1, Tally DEF Correct
<1>6. 0 # None
  BY ReportAssumption
<1>7. CASE x.series = None
  <2>1. figure = Says("not measured")
    BY <1>1, <1>7
  <2>2. t = NoTenant \/ Failed(t, row.name)
    BY <1>1, <1>2, <1>5, <1>7 DEF Failed
  <2>3. x.share = None
    BY <1>1, <1>7 DEF ShareOf
  <2>4. row.series = Says("not measured") /\ row.share = Says("-")
    BY <1>2, <2>1, <2>3
  <2>5. QED
    BY <1>3, <1>4, <2>2, <2>4 DEF Truthful
<1>8. CASE x.series # None
  <2>1. t # NoTenant /\ x.series = series[<<t, r.name>>] /\ x.series \in Nat /\ x.series = counts[t][r.name]
    BY <1>1, <1>5, <1>8
  <2>2. ~(t = NoTenant \/ Failed(t, row.name))
    BY <1>1, <1>2, <1>8, <2>1 DEF Failed
  <2>3. figure = IF x.series = 0 THEN Says("0 (no series now)") ELSE Shows(x.series)
    <3>1. CASE x.series = 0
      BY <1>1, <1>8, <3>1
    <3>2. CASE x.series # 0
      BY <1>1, <1>8, <3>2
    <3>3. QED
      BY <3>1, <3>2
  <2> HIDE DEF figure
  <2>4. x.share # None => x.share = <<series[<<t, r.name>>], denominator[t]>> /\ denominator[t] > 0
    <3>1. SUFFICES ASSUME x.share # None PROVE x.share = <<series[<<t, r.name>>], denominator[t]>> /\ denominator[t] > 0
      OBVIOUS
    <3>2. active # None /\ ~(active <= 0) /\ x.share = <<x.series, active>>
      BY <1>1, <3>1 DEF ShareOf
    <3>3. active = denominator[t] /\ denominator # None /\ t \in DOMAIN denominator
      BY <3>2 DEF ActiveSeries
    <3>4. denominator[t] \in Int
      BY <3>3, ReportAssumption DEF Correct, TypeOK
    <3>5. QED
      BY <2>1, <3>2, <3>3, <3>4
  <2>5. row.series = (IF x.series = 0 THEN Says("0 (no series now)") ELSE Shows(x.series))
    BY <1>2, <2>3
  <2>6. /\ row.series # Says("not measured")
        /\ row.series = Says("0 (no series now)") => x.series = 0
        /\ "shows" \in DOMAIN row.series => row.series.shows = x.series /\ x.series # 0
    BY <1>3, <1>4, <2>5
  <2>7. "shows" \in DOMAIN row.share => row.share.shows = x.share /\ x.share # None
    <3>1. CASE x.share = None
      BY <1>2, <1>3, <3>1
    <3>2. CASE x.share # None
      BY <1>2, <1>3, <3>2
    <3>3. QED
      BY <3>1, <3>2
  <2>8. row.name = r.name
    BY <1>1, <1>2
  <2>9. row.series = Says("0 (no series now)") => series[<<t, row.name>>] = 0
    BY <2>1, <2>6, <2>8
  <2>10. "shows" \in DOMAIN row.series => row.series.shows = series[<<t, row.name>>] /\ row.series.shows > 0
    <3>1. SUFFICES ASSUME "shows" \in DOMAIN row.series
                   PROVE  row.series.shows = series[<<t, row.name>>] /\ row.series.shows > 0
      OBVIOUS
    <3>2. row.series.shows = x.series /\ x.series # 0
      BY <2>6, <3>1
    <3>3. x.series > 0
      BY <2>1, <3>2
    <3>4. QED
      BY <2>1, <2>8, <3>2, <3>3
  <2>11. "shows" \in DOMAIN row.share =>
              row.share.shows = <<series[<<t, row.name>>], denominator[t]>> /\ denominator[t] > 0
    BY <2>4, <2>7, <2>8
  <2>12. QED
    BY <2>2, <2>6, <2>9, <2>10, <2>11 DEF Truthful
<1>9. QED
  BY <1>7, <1>8

(* Rows tell the truth in every state of which Correct holds.              *)
LEMMA RowsHold ==
  ASSUME Correct
  PROVE  RowsTellTheTruth
<1> SUFFICES ASSUME phase = "joined", NEW k \in DOMAIN report
             PROVE  LET t    == report[k].tenant
                        page == OutputSection(report[k])
                    IN  /\ page.notMeasured = report[k].notMeasured
                        /\ page.alerting = Cardinality({i \in DOMAIN rules : rules[i].tenant = t /\ rules[i].kind = "alerting"})
                        /\ \A i \in DOMAIN page.rows : Truthful(page.rows[i], t)
  BY DEF RowsTellTheTruth, Joined, Truthful
<1>1. PICK out, t, own, n, tc, active : Section(k, out, t, own, n, tc, active)
  BY DEF Section
<1>2. PICK pos : Shuffled(pos, n, out.rows, own, tc, active)
  BY <1>1, PageRows
<1>3. PICK page : page = OutputSection(out)
  OBVIOUS
<1>4. PICK P, recording : P = {i \in 1..n : out.rows[i].status # "no_output"} /\ recording = At(out.rows, P)
  OBVIOUS
<1>5. Selected(OutputSection(out), out.rows, recording, P, Recorders(own, pos, n))
  <2>1. P = Printed(out.rows, n)
    BY <1>4 DEF Printed
  <2>2. QED
    BY <1>1, <1>2, <1>4, <2>1, PageSelects
<1>6. /\ P = {i \in 1..n : IsRecording(own[pos[i]])}
      /\ page.alerting = Len(out.rows) - Len(recording)
      /\ page.rows = [i \in DOMAIN recording |-> OutputRow(recording[i])]
      /\ page.notMeasured = Cardinality({row.name : row \in {x \in Range(recording) : x.status = "not_measured"}})
      /\ Len(recording) = Cardinality(P) /\ IsFiniteSet(P) /\ Range(recording) = {out.rows[i] : i \in P}
  BY <1>3, <1>5 DEF Selected, Recorders
<1>7. /\ Len(out.rows) = n
      /\ \A i \in 1..n : pos[i] \in 1..n /\ Line(out.rows[i], own[pos[i]], t, own, tc, active)
  BY <1>1, <1>2, PageLines
<1>8. n \in Nat /\ t \in Tenants(rules) /\ out = TenantOutputs(t, rules, counts, denominator)
  BY <1>1, PageRows
<1>9. page.notMeasured = out.notMeasured
  <2>1. {row.name : row \in {x \in Range(recording) : x.status = "not_measured"}}
            = {m \in RecordedBy(own) : t = NoTenant \/ SeriesOf(tc, m) = None}
    <3>1. {row.name : row \in {x \in {out.rows[i] : i \in {j \in 1..n : out.rows[j].status # "no_output"}} : x.status = "not_measured"}}
            = {m \in RecordedBy(own) : t = NoTenant \/ SeriesOf(tc, m) = None}
      BY <1>1, <1>2, UnmeasuredNamed
    <3>2. {out.rows[i] : i \in {j \in 1..n : out.rows[j].status # "no_output"}} = Range(recording)
      BY <1>4, <1>6
    <3>3. QED
      BY <3>1, <3>2
  <2>2. out.notMeasured = Cardinality({m \in RecordedBy(own) : t = NoTenant \/ SeriesOf(tc, m) = None})
    BY <1>1, <1>8 DEF TenantOutputs, Section
  <2>3. QED
    BY <1>6, <2>1, <2>2
<1>10. page.alerting = Cardinality({i \in DOMAIN rules : rules[i].tenant = t /\ rules[i].kind = "alerting"})
  <2> DEFINE Q == {i \in 1..n : ~IsRecording(own[pos[i]])}
  <2>1. Cardinality(Q) = Cardinality({i \in DOMAIN rules : rules[i].tenant = t /\ rules[i].kind = "alerting"})
    BY <1>1, <1>2, OwnCounted, SMTT(30) DEF Section, Shuffled, Correct, TypeOK
  <2>2. P \cup Q = 1..n /\ P \cap Q = {}
    BY <1>6
  <2>3. IsFiniteSet(Q)
    <3>1. IsFiniteSet(1..n)
      BY <1>8, FS_Interval
    <3>2. QED
      BY <3>1, FS_Subset
  <2> HIDE DEF Q
  <2>4. Cardinality(P \cup Q) = Cardinality(P) + Cardinality(Q) - Cardinality(P \cap Q)
    BY <1>6, <2>3, FS_Union
  <2>5. Cardinality(P \cup Q) = n /\ Cardinality(P \cap Q) = 0
    BY <1>2, <2>2, FS_EmptySet DEF Shuffled
  <2>6. Cardinality(P) \in Nat /\ Cardinality(Q) \in Nat
    BY <1>6, <2>3, FS_CardinalityType
  <2>7. n = Cardinality(P) + Cardinality(Q) - 0
    BY <2>4, <2>5
  <2>8. QED
    BY <1>6, <1>7, <1>8, <2>1, <2>6, <2>7
<1>11. ASSUME NEW i \in DOMAIN page.rows, NEW row, row = page.rows[i]
       PROVE  Truthful(row, t)
  <2>1. i \in DOMAIN recording /\ row = OutputRow(recording[i])
    BY <1>6, <1>11
  <2>2. recording[i] \in Range(recording)
    BY <2>1 DEF Range
  <2>3. PICK j \in P : recording[i] = out.rows[j]
    BY <1>6, <2>2
  <2>4. j \in 1..n /\ IsRecording(own[pos[j]])
    BY <1>6
  <2>5. PICK x, r : x = out.rows[j] /\ r = own[pos[j]]
    OBVIOUS
  <2>6. Line(x, r, t, own, tc, active) /\ IsRecording(r) /\ row = OutputRow(x)
    BY <1>7, <2>1, <2>3, <2>4, <2>5
  <2>7. own = RulesOf(t, rules) /\ tc = TenantCounts(counts, t) /\ active = ActiveSeries(denominator, t)
    BY <1>1 DEF Section
  <2>8. QED
    BY <1>8, <2>6, <2>7, RowTruth
<1>12. out = report[k] /\ t = report[k].tenant
  BY <1>1 DEF Section
<1>13. QED
  BY <1>3, <1>9, <1>10, <1>11, <1>12

(* A tenant's total never exceeds the series its rules write, and is said  *)
(* to be a lower bound exactly when some metric was not measured           *)
(* (ruleoutput.go:84).                                                     *)
THEOREM TotalsAreLowerBounds == Spec => []TotalIsLowerBound
<1>1. Correct => TotalIsLowerBound
  BY TotalsHold
<1>2. QED
  BY <1>1, TypeCorrect, AskedOnce, CountsHold, ReportHolds, PTL DEF Correct

(* A row gives its metric's whole count in its own tenant, or says why it  *)
(* gives none; shares are over a positive count of the same tenant         *)
(* (ruleoutput.go:33, report/ruleoutput.go).                               *)
THEOREM RowsAreTrue == Spec => []RowsTellTheTruth
<1>1. Correct => RowsTellTheTruth
  BY RowsHold
<1>2. QED
  BY <1>1, TypeCorrect, AskedOnce, CountsHold, ReportHolds, PTL DEF Correct

--------------------------------------------------------------------------------
(* Nothing is lost in loading.                                             *)

(* A file that is kept is kept for the tenant its namespace belongs to;    *)
(* one that is dropped is skipped by the policy.                           *)
LEMMA Applied ==
  ASSUME source \in Sources, NEW ns, NEW a, a = Apply(Resolve(ns))
  PROVE  /\ a.verdict = "keep" => BelongsTo(ns, a.tenant) /\ ~Skipped(ns)
         /\ a.verdict = "drop" => Skipped(ns)
<1> DEFINE hits == {i \in DOMAIN source.discovery : Maps(i, ns)}
<1>1. CASE hits = {}
  <2>1. Resolve(ns) = [ok |-> FALSE, tenant |-> NoTenant]
    BY <1>1 DEF Resolve
  <2>2. \A i \in DOMAIN source.discovery : ~Maps(i, ns)
    BY <1>1
  <2>3. source.unmapped = [mode |-> source.unmapped.mode, fallback |-> source.unmapped.fallback]
    BY SourceFacts
  <2> HIDE DEF hits
  <2>4. CASE source.unmapped.mode = "skip"
    BY <2>1, <2>2, <2>4 DEF Apply, Skipped
  <2>5. CASE source.unmapped.mode = "tenant"
    <3>1. a = [verdict |-> "keep", tenant |-> source.unmapped.fallback]
      BY <2>1, <2>5 DEF Apply
    <3>2. BelongsTo(ns, a.tenant)
      BY <2>2, <2>3, <2>5, <3>1 DEF BelongsTo
    <3>3. QED
      BY <2>5, <3>1, <3>2 DEF Skipped
  <2>6. CASE source.unmapped.mode \notin {"skip", "tenant"}
    BY <2>1, <2>6 DEF Apply
  <2>7. QED
    BY <2>4, <2>5, <2>6
<1>2. CASE hits # {}
  <2>1. Min(hits) \in hits /\ \A i \in hits : Min(hits) <= i
    <3>1. IsFiniteSet(hits) /\ hits \subseteq Int
      BY SourceFacts, PositionsFinite
    <3> HIDE DEF hits
    <3>2. QED
      BY <1>2, <3>1, Smallest
  <2>2. Resolve(ns) = [ok |-> TRUE, tenant |-> source.discovery[Min(hits)].map[ns]]
    BY <1>2 DEF Resolve
  <2>3. PICK m : m = Min(hits)
    OBVIOUS
  <2>4. m \in DOMAIN source.discovery /\ Maps(m, ns) /\ \A i \in DOMAIN source.discovery : Maps(i, ns) => m <= i
    BY <2>1, <2>3
  <2>5. a = [verdict |-> "keep", tenant |-> source.discovery[m].map[ns]]
    BY <2>2, <2>3 DEF Apply
  <2>6. \A j \in 1..m - 1 : ~Maps(j, ns)
    <3>1. PICK n : n = Len(source.discovery)
      OBVIOUS
    <3>2. n \in Nat /\ DOMAIN source.discovery = 1..n
      BY <3>1, SourceFacts
    <3>3. \A j \in 1..m - 1 : j \in DOMAIN source.discovery /\ ~(m <= j)
      BY <2>4, <3>2
    <3>4. QED
      BY <2>4, <3>3
  <2>7. BelongsTo(ns, a.tenant)
    BY <2>4, <2>5, <2>6 DEF BelongsTo
  <2>8. ~Skipped(ns)
    BY <2>4 DEF Skipped
  <2>9. QED
    BY <2>5, <2>7, <2>8
<1>3. QED
  BY <1>1, <1>2

(* The rules of file f are among rs, for their tenant, unless the policy   *)
(* skips f.                                                                *)
Written(f, rs) ==
    \/ Skipped(f.namespace)
    \/ \A k \in DOMAIN f.rules : \E r \in Range(rs) :
        BelongsTo(f.namespace, r.tenant) /\ r = Annotated(f.rules[k], r.tenant)

(* What the ruler holds of tenant t is among rs.                           *)
Held(t, rs) == \A k \in DOMAIN source.has[t] : Annotated(source.has[t][k], t) \in Range(rs)

(* How many rules each file should add.                                    *)
Sizes == [i \in DOMAIN source.files |-> IF Skipped(source.files[i].namespace) THEN 0 ELSE Len(source.files[i].rules)]
(* How many rules each tenant named should add.                            *)
Holdings ==
    LET asked == SplitTenants(source.tenants)
    IN  [i \in DOMAIN asked |-> Len(source.has[asked[i]])]
(* How many files or tenants there are.                                    *)
ToLoad == Len(IF source.dir THEN source.files ELSE SplitTenants(source.tenants))

(* The first n files or tenants are in rs, or are remembered as failed.    *)
Kept(n, rs, errs) ==
    IF source.dir
    THEN /\ \A i \in 1..n : i \in errs \/ Written(source.files[i], rs)
         /\ errs = {} => Len(rs) = SumFunctionOnSet(Sizes, 1..n)
    ELSE /\ \A i \in 1..n : i \in errs \/ Held(SplitTenants(source.tenants)[i], rs)
         /\ errs = {} => Len(rs) = SumFunctionOnSet(Holdings, 1..n)

(* The inductive invariant of the load.                                    *)
LoadOK ==
    /\ at - 1 <= ToLoad /\ Kept(at - 1, rules, loadErrs)
    /\ Accepted => loadErrs = {} /\ at > ToLoad

(* Appending joins the entries and adds the lengths.                       *)
LEMMA Grown ==
  ASSUME NEW r \in Seq(RuleType), NEW a \in Seq(RuleType), NEW s, s = r \o a
  PROVE  Range(s) = Range(r) \cup Range(a) /\ Len(s) = Len(r) + Len(a)
<1>1. PICK m, n : m = Len(r) /\ n = Len(a)
  OBVIOUS
<1>2. m \in Nat /\ n \in Nat /\ DOMAIN r = 1..m /\ DOMAIN a = 1..n /\ DOMAIN s = 1..m + n /\ Len(s) = m + n
  BY <1>1
<1>3. \A i \in 1..m : i \in 1..m + n /\ s[i] = r[i]
  BY <1>1, <1>2
<1>4. \A i \in 1..n : i + m \in 1..m + n /\ s[i + m] = a[i]
  BY <1>1, <1>2
<1>5. ASSUME NEW i \in 1..m + n PROVE s[i] \in Range(r) \cup Range(a)
  <2>1. CASE i \in 1..m
    BY <1>2, <1>3, <2>1 DEF Range
  <2>2. CASE i \notin 1..m
    <3>1. i - m \in 1..n /\ i = (i - m) + m
      BY <1>2, <2>2
    <3>2. s[i] = a[i - m]
      BY <1>4, <3>1
    <3>3. QED
      BY <1>2, <3>1, <3>2 DEF Range
  <2>3. QED
    BY <2>1, <2>2
<1>6. Range(s) \subseteq Range(r) \cup Range(a)
  BY <1>2, <1>5 DEF Range
<1>7. Range(r) \subseteq Range(s) /\ Range(a) \subseteq Range(s)
  <2>1. \A i \in 1..m : r[i] \in Range(s)
    BY <1>2, <1>3 DEF Range
  <2>2. \A i \in 1..n : a[i] \in Range(s)
    BY <1>2, <1>4 DEF Range
  <2>3. QED
    BY <1>2, <2>1, <2>2 DEF Range
<1>8. QED
  BY <1>1, <1>2, <1>6, <1>7

(* What was written stays when rules are only added.                       *)
LEMMA StillThere ==
  ASSUME NEW r, NEW s, Range(r) \subseteq Range(s)
  PROVE  /\ \A f : Written(f, r) => Written(f, s)
         /\ \A t : Held(t, r) => Held(t, s)
<1>1. ASSUME NEW f, Written(f, r) PROVE Written(f, s)
  BY <1>1 DEF Written
<1>2. ASSUME NEW t, Held(t, r) PROVE Held(t, s)
  BY <1>2 DEF Held
<1>3. QED
  BY <1>1, <1>2

(* What a file should add is the number of its rules, or nothing.          *)
LEMMA SizesType ==
  ASSUME source \in Sources
  PROVE  /\ Len(source.files) \in Nat /\ DOMAIN source.files = 1..Len(source.files)
         /\ \A i \in 1..Len(source.files) : Sizes[i] \in Int /\ Len(source.files[i].rules) \in Nat
         /\ \A i \in 1..Len(source.files) : Sizes[i] =
                IF Skipped(source.files[i].namespace) THEN 0 ELSE Len(source.files[i].rules)
<1>1. PICK F : F = [namespace : Nat, broken : BOOLEAN, rules : Seq(Definition(Kinds))]
  OBVIOUS
<1>2. source.files \in Seq(F)
  BY <1>1, SourceFacts
<1>3. PICK fs : fs = source.files
  OBVIOUS
<1>4. fs \in Seq(F)
  BY <1>2, <1>3
<1>5. Len(fs) \in Nat /\ DOMAIN fs = 1..Len(fs) /\ \A i \in 1..Len(fs) : fs[i] \in F
  BY <1>4
<1>6. \A i \in 1..Len(fs) : fs[i].rules \in Seq(Definition(Kinds))
  BY <1>1, <1>5
<1>7. \A i \in 1..Len(fs) : Len(fs[i].rules) \in Nat
  BY <1>6
<1>8. QED
  BY <1>3, <1>5, <1>7 DEF Sizes

(* What the n-th file or tenant should add comes to what those before it   *)
(* should.                                                                 *)
LEMMA OneMore ==
  ASSUME NEW n \in Nat \ {0}, NEW sizes, \A i \in 1..n : sizes[i] \in Int
  PROVE  SumFunctionOnSet(sizes, 1..n) = SumFunctionOnSet(sizes, 1..n - 1) + sizes[n]
         /\ SumFunctionOnSet(sizes, 1..n - 1) \in Int
<1>1. IsFiniteSet(1..n - 1) /\ n \notin 1..n - 1 /\ 1..n = (1..n - 1) \cup {n}
  BY FS_Interval
<1>2. \A i \in 1..n - 1 : i \in 1..n
  OBVIOUS
<1>3. sizes[n] \in Int /\ \A i \in 1..n - 1 : sizes[i] \in Int
  BY <1>2
<1>4. SumFunctionOnSet(sizes, (1..n - 1) \cup {n}) = SumFunctionOnSet(sizes, 1..n - 1) + sizes[n]
  BY <1>1, <1>3, SumAdd
<1>5. SumFunctionOnSet(sizes, 1..n - 1) \in Int
  BY <1>1, <1>3, SumType
<1>6. QED
  BY <1>1, <1>4, <1>5

(* What a tenant should add is the number of its definitions.              *)
LEMMA HoldingsType ==
  ASSUME source \in Sources, NEW asked, asked = SplitTenants(source.tenants)
  PROVE  /\ Len(asked) \in Nat /\ DOMAIN Holdings = 1..Len(asked)
         /\ \A i \in 1..Len(asked) : Holdings[i] = Len(source.has[asked[i]]) /\ Holdings[i] \in Nat
<1>1. asked \in Seq(Nat) /\ \A k \in 1..Len(asked) : asked[k] \in Range(source.tenants) \ {NoTenant}
  BY Split
<1>2. Len(asked) \in Nat /\ DOMAIN asked = 1..Len(asked)
  BY <1>1
<1>3. ASSUME NEW i \in 1..Len(asked) PROVE Len(source.has[asked[i]]) \in Nat
  <2>1. PICK ds : ds = source.has[asked[i]]
    OBVIOUS
  <2>2. ds \in Seq(Definition(STRING))
    BY <1>1, <2>1, SourceFacts
  <2>3. Len(ds) \in Nat
    BY <2>2
  <2>4. QED
    BY <2>1, <2>3
<1>4. Holdings = [i \in 1..Len(asked) |-> Len(source.has[asked[i]])]
  BY <1>2 DEF Holdings
<1>5. QED
  BY <1>2, <1>3, <1>4

(* Loading one more file keeps all its rules, or remembers that it failed. *)
LEMMA FileKept ==
  ASSUME TypeOK, LoadOK, LoadFile
  PROVE  Kept(at, rules', loadErrs')
<1>1. PICK f, t, v, a : /\ f = source.files[at] /\ t = Apply(Resolve(f.namespace)).tenant
                        /\ v = Apply(Resolve(f.namespace)).verdict /\ a = Annotate(f.rules, t)
  OBVIOUS
<1>2. f.rules \in Seq(Definition(Kinds)) /\ t \in Nat /\ a \in Seq(RuleType)
  BY <1>1, FileLoads
<1>3. (v = "keep" => BelongsTo(f.namespace, t) /\ ~Skipped(f.namespace)) /\ (v = "drop" => Skipped(f.namespace))
  BY <1>1, Applied DEF TypeOK
<1>4. v \in {"keep", "drop", "error"}
  BY <1>1, Resolved DEF TypeOK
<1>5. source.dir /\ at \in Nat \ {0} /\ at <= Len(source.files) /\ source \in Sources /\ rules \in Seq(RuleType)
  BY DEF LoadFile, TypeOK
<1>6. /\ loadErrs' = loadErrs \cup {at} \/ (loadErrs' = loadErrs /\ ~ParseFileFails(f) /\ v # "error")
      /\ rules' = IF ~ParseFileFails(f) /\ v = "keep" THEN rules \o a ELSE rules
  BY <1>1 DEF LoadFile
<1>7. \A i \in 1..at - 1 : i \in loadErrs \/ Written(source.files[i], rules)
  BY <1>5 DEF LoadOK, Kept
<1>8. loadErrs = {} => Len(rules) = SumFunctionOnSet(Sizes, 1..at - 1)
  BY <1>5 DEF LoadOK, Kept
<1>9. Range(rules) \subseteq Range(rules')
  <2>1. CASE rules' = rules \o a
    <3>1. PICK s : s = rules \o a
      OBVIOUS
    <3>2. Range(s) = Range(rules) \cup Range(a)
      BY <1>2, <1>5, <3>1, Grown
    <3>3. QED
      BY <2>1, <3>1, <3>2
  <2>2. CASE rules' = rules
    BY <2>2
  <2>3. QED
    BY <1>6, <2>1, <2>2
<1>10. SumFunctionOnSet(Sizes, 1..at) = SumFunctionOnSet(Sizes, 1..at - 1) + Sizes[at]
       /\ SumFunctionOnSet(Sizes, 1..at - 1) \in Int /\ Sizes[at] = IF Skipped(f.namespace) THEN 0 ELSE Len(f.rules)
  <2>1. at \in 1..Len(source.files) /\ \A i \in 1..at : i \in 1..Len(source.files)
    BY <1>5, SizesType
  <2>2. \A i \in 1..at : Sizes[i] \in Int
    BY <1>5, <2>1, SizesType
  <2>3. Sizes[at] = IF Skipped(f.namespace) THEN 0 ELSE Len(f.rules)
    BY <1>1, <1>5, <2>1, SizesType
  <2>4. QED
    BY <1>5, <2>2, <2>3, OneMore
<1>11. CASE loadErrs' = loadErrs \cup {at}
  <2>1. \A i \in 1..at - 1 : i \in loadErrs' \/ Written(source.files[i], rules')
    BY <1>7, <1>9, <1>11, StillThere
  <2>2. at \in loadErrs' /\ loadErrs' # {}
    BY <1>11
  <2>3. \A i \in 1..at : i = at \/ i \in 1..at - 1
    BY <1>5
  <2>4. QED
    BY <1>5, <2>1, <2>2, <2>3 DEF Kept
<1>12. CASE loadErrs' = loadErrs /\ ~ParseFileFails(f) /\ v = "drop"
  <2>1. Skipped(f.namespace) /\ rules' = rules
    BY <1>3, <1>6, <1>12
  <2>2. Written(source.files[at], rules')
    BY <1>1, <2>1 DEF Written
  <2>3. \A i \in 1..at : i = at \/ i \in 1..at - 1
    BY <1>5
  <2>4. loadErrs' = {} => Len(rules') = SumFunctionOnSet(Sizes, 1..at)
    BY <1>8, <1>10, <1>12, <2>1
  <2>5. \A i \in 1..at : i \in loadErrs' \/ Written(source.files[i], rules')
    BY <1>7, <1>12, <2>1, <2>2, <2>3
  <2>6. QED
    BY <1>5, <2>4, <2>5 DEF Kept
<1>13. CASE loadErrs' = loadErrs /\ ~ParseFileFails(f) /\ v = "keep"
  <2>1. rules' = rules \o a /\ BelongsTo(f.namespace, t) /\ ~Skipped(f.namespace)
    BY <1>3, <1>6, <1>13
  <2>2. Range(rules') = Range(rules) \cup Range(a) /\ Len(rules') = Len(rules) + Len(a)
    BY <1>2, <1>5, <2>1, Grown
  <2>3. Len(a) = Len(f.rules)
    BY <1>1, <1>2, AnnotatesAll
  <2>4. ASSUME NEW k \in DOMAIN f.rules
        PROVE  \E r \in Range(rules') : BelongsTo(f.namespace, r.tenant) /\ r = Annotated(f.rules[k], r.tenant)
    <3>1. PICK r : r = Annotated(f.rules[k], t)
      OBVIOUS
    <3>2. k \in DOMAIN a /\ a[k] = r
      BY <1>1, <3>1 DEF Annotate
    <3>3. r \in Range(rules')
      BY <2>2, <3>2 DEF Range
    <3>4. r.tenant = t /\ r = Annotated(f.rules[k], r.tenant)
      BY <3>1 DEF Annotated
    <3>5. QED
      BY <2>1, <3>3, <3>4
  <2>5. Written(source.files[at], rules')
    BY <1>1, <2>4 DEF Written
  <2>6. \A i \in 1..at - 1 : i \in loadErrs' \/ Written(source.files[i], rules')
    BY <1>7, <1>9, <1>13, StillThere
  <2>7. \A i \in 1..at : i = at \/ i \in 1..at - 1
    BY <1>5
  <2>8. loadErrs' = {} => Len(rules') = SumFunctionOnSet(Sizes, 1..at)
    BY <1>8, <1>10, <1>13, <2>1, <2>2, <2>3
  <2>9. \A i \in 1..at : i \in loadErrs' \/ Written(source.files[i], rules')
    BY <2>5, <2>6, <2>7
  <2>10. QED
    BY <1>5, <2>8, <2>9 DEF Kept
<1>14. QED
  BY <1>4, <1>6, <1>11, <1>12, <1>13

(* So does asking for one more tenant.                                     *)
LEMMA TenantKept ==
  ASSUME TypeOK, LoadOK, FetchFails \/ FetchAnswers
  PROVE  Kept(at, rules', loadErrs')
<1>1. ~source.dir /\ at \in Nat \ {0} /\ source \in Sources /\ rules \in Seq(RuleType)
  BY DEF FetchFails, FetchAnswers, FetchTenant, TypeOK
<1>2. \A i \in 1..at - 1 : i \in loadErrs \/ Held(SplitTenants(source.tenants)[i], rules)
  BY <1>1 DEF LoadOK, Kept
<1>3. (\A i \in 1..at : i = at \/ i \in 1..at - 1) /\ (loadErrs = {} => Len(rules) = SumFunctionOnSet(Holdings, 1..at - 1))
  BY <1>1 DEF LoadOK, Kept
<1>4. CASE FetchFails
  <2>1. loadErrs' # {} /\ loadErrs' = loadErrs \cup {at} /\ rules' = rules
    BY <1>4 DEF FetchFails
  <2>2. QED
    BY <1>1, <1>2, <1>3, <2>1 DEF Kept
<1>5. CASE FetchAnswers
  <2> DEFINE good0 == {k \in DOMAIN source.has[Asked] :
                source.has[Asked][k].kind \in {"recording", "alerting"} /\ source.has[Asked][k].parses}
  <2>1. PICK t, ds, good, l, a : /\ t = Asked /\ ds = source.has[t] /\ good = good0
                                 /\ l = At(ds, good) /\ a = Annotate(l, t)
    OBVIOUS
  <2>2. /\ rules' = rules \o a /\ loadErrs' = IF good = DOMAIN ds THEN loadErrs ELSE loadErrs \cup {at}
    BY <1>5, <2>1 DEF FetchAnswers
  <2>3. t \in Nat /\ ds \in Seq(Definition(STRING)) /\ a \in Seq(RuleType)
    BY <1>5, <2>1, TenantAnswers
  <2>4. Range(rules') = Range(rules) \cup Range(a) /\ Len(rules') = Len(rules) + Len(a)
    BY <1>1, <2>2, <2>3, Grown
  <2>5. \A i \in 1..at - 1 : i \in loadErrs' \/ Held(SplitTenants(source.tenants)[i], rules')
    BY <1>2, <2>2, <2>4, StillThere
  <2>6. at \in loadErrs' \/ Held(SplitTenants(source.tenants)[at], rules')
    <3>1. CASE good # DOMAIN ds
      BY <2>2, <3>1
    <3>2. CASE good = DOMAIN ds
      <4>1. Range(l) = {ds[k] : k \in DOMAIN ds}
        <5>1. good \in SUBSET DOMAIN ds
          BY <3>2
        <5>2. Range(l) = {ds[k] : k \in good}
          BY <2>1, <2>3, <5>1, AtSeq, SMTT(60)
        <5>3. QED
          BY <3>2, <5>2
      <4>2. ASSUME NEW k \in DOMAIN ds, NEW d, d = ds[k]
            PROVE  Annotated(d, t) \in Range(rules')
        <5>1. d \in Range(l)
          BY <4>1, <4>2
        <5>2. PICK j \in DOMAIN l : l[j] = d
          BY <5>1 DEF Range
        <5>3. j \in DOMAIN a /\ a[j] = Annotated(d, t)
          BY <2>1, <5>2 DEF Annotate
        <5>4. QED
          BY <2>4, <5>3 DEF Range
      <4>3. Held(t, rules')
        BY <2>1, <4>2 DEF Held
      <4>4. QED
        BY <2>1, <4>3 DEF Asked
    <3>3. QED
      BY <3>1, <3>2
  <2>7. ASSUME loadErrs' = {} PROVE Len(rules') = SumFunctionOnSet(Holdings, 1..at)
    <3>1. loadErrs = {} /\ good = DOMAIN ds
      BY <2>2, <2>7
    <3>2. Len(a) = Len(ds) /\ Len(ds) \in Nat
      <4>1. Len(ds) \in Nat /\ DOMAIN ds = 1..Len(ds)
        BY <2>3
      <4>2. Cardinality(1..Len(ds)) = Len(ds)
        <5>1. PICK n \in Nat : n = Len(ds)
          BY <4>1
        <5>2. Cardinality(1..n) = n
          BY FS_Interval
        <5>3. QED
          BY <5>1, <5>2
      <4>3. good \in SUBSET DOMAIN ds
        BY <3>1
      <4>4. Len(l) = Cardinality(good)
        BY <2>1, <2>3, <4>3, AtSeq, SMTT(60)
      <4>5. DOMAIN a = DOMAIN l
        BY <2>1 DEF Annotate
      <4>6. Len(a) = Len(l)
        <5>1. l \in Seq(Definition(STRING))
          BY <2>1, <2>3, <4>3, AtSeq, SMTT(60)
        <5>2. QED
          BY <2>3, <4>5, <5>1
      <4>7. QED
        BY <3>1, <4>1, <4>2, <4>4, <4>6
    <3>3. PICK asked : asked = SplitTenants(source.tenants)
      OBVIOUS
    <3>4. Len(asked) \in Nat /\ at <= Len(asked)
      BY <1>1, <1>5, <3>3, HoldingsType DEF FetchAnswers, FetchTenant
    <3>5. at \in 1..Len(asked) /\ \A i \in 1..at : i \in 1..Len(asked)
      BY <1>1, <3>4
    <3>6. Holdings[at] = Len(ds) /\ \A i \in 1..at : Holdings[i] \in Int
      <4>1. t = asked[at]
        BY <2>1, <3>3 DEF Asked
      <4>2. \A i \in 1..Len(asked) : Holdings[i] = Len(source.has[asked[i]]) /\ Holdings[i] \in Nat
        BY <1>1, <3>3, HoldingsType
      <4>3. QED
        BY <2>1, <3>5, <4>1, <4>2
    <3>7. SumFunctionOnSet(Holdings, 1..at) = SumFunctionOnSet(Holdings, 1..at - 1) + Holdings[at]
      BY <1>1, <3>6, OneMore
    <3>8. QED
      BY <1>3, <2>4, <3>1, <3>2, <3>6, <3>7
  <2>8. QED
    BY <1>1, <1>3, <2>5, <2>6, <2>7 DEF Kept
<1>6. QED
  BY <1>4, <1>5

(* Kept, said of the next rules, is Kept in the next state: no step        *)
(* changes the source.                                                     *)
LEMMA SameSource ==
  ASSUME source' = source
  PROVE  /\ ToLoad' = ToLoad
         /\ \A n : Kept(n, rules', loadErrs') => Kept(n, rules, loadErrs)'
<1>1. ToLoad' = ToLoad
  BY DEF ToLoad, SplitTenants
<1>2. \A ns : Skipped(ns)' <=> Skipped(ns)
  BY DEF Skipped, Maps
<1>3. \A ns, t : BelongsTo(ns, t)' <=> BelongsTo(ns, t)
  BY DEF BelongsTo, Maps
<1>4. Sizes' = Sizes /\ Holdings' = Holdings
  BY <1>2 DEF Sizes, Holdings, SplitTenants
<1>5. \A f : Written(f, rules') => Written(f, rules)'
  BY <1>2, <1>3 DEF Written
<1>6. \A t : Held(t, rules') => Held(t, rules)'
  BY DEF Held
<1>7. SplitTenants(source.tenants)' = SplitTenants(source.tenants)
  BY DEF SplitTenants
<1>8. ASSUME NEW n, Kept(n, rules', loadErrs') PROVE Kept(n, rules, loadErrs)'
  <2>1. CASE source.dir
    <3>1. \A i \in 1..n : i \in loadErrs' \/ Written(source.files[i], rules)'
      BY <1>5, <1>8, <2>1 DEF Kept
    <3>2. loadErrs' = {} => Len(rules') = SumFunctionOnSet(Sizes', 1..n)
      BY <1>4, <1>8, <2>1 DEF Kept
    <3>3. QED
      BY <2>1, <3>1, <3>2 DEF Kept
  <2>2. CASE ~source.dir
    <3>1. \A i \in 1..n : i \in loadErrs' \/ Held(SplitTenants(source.tenants)[i], rules)'
      BY <1>6, <1>7, <1>8, <2>2 DEF Kept
    <3>2. loadErrs' = {} => Len(rules') = SumFunctionOnSet(Holdings', 1..n)
      BY <1>4, <1>8, <2>2 DEF Kept
    <3>3. QED
      BY <2>2, <3>1, <3>2 DEF Kept
  <2>3. QED
    BY <2>1, <2>2
<1>9. QED
  BY <1>1, <1>8

(* There are finitely many files or tenants to load.                       *)
LEMMA LoadCount ==
  ASSUME TypeOK
  PROVE  ToLoad \in Nat
<1>1. CASE source.dir
  BY <1>1, SizesType DEF TypeOK, ToLoad
<1>2. CASE ~source.dir
  <2>1. PICK l : l = SplitTenants(source.tenants)
    OBVIOUS
  <2>2. l \in Seq(Nat)
    BY <2>1, Split DEF TypeOK
  <2>3. Len(l) \in Nat
    BY <2>2
  <2>4. QED
    BY <1>2, <2>1, <2>3 DEF ToLoad
<1>3. QED
  BY <1>1, <1>2

(* LoadOK always holds.                                                    *)
LEMMA LoadHolds == Spec => []LoadOK
<1>1. Init => LoadOK
  <2> SUFFICES ASSUME Init PROVE LoadOK
    OBVIOUS
  <2>1. at = 1 /\ rules = <<>> /\ loadErrs = {} /\ phase = "start"
    BY DEF Init, LoadInit
  <2>2. at - 1 = 0 /\ 1..0 = {}
    BY <2>1
  <2>3. ToLoad \in Nat
    BY InitType, LoadCount
  <2>4. Kept(0, rules, loadErrs)
    <3>1. Len(rules) = 0 /\ SumFunctionOnSet(Sizes, {}) = 0 /\ SumFunctionOnSet(Holdings, {}) = 0
      BY <2>1, SumEmpty
    <3>2. QED
      BY <2>2, <3>1 DEF Kept
  <2>5. ~Accepted
    BY <2>1 DEF Accepted
  <2>6. QED
    BY <2>2, <2>3, <2>4, <2>5 DEF LoadOK
<1>2. TypeOK /\ LoadOK /\ [Next]_vars => LoadOK'
  <2> SUFFICES ASSUME TypeOK, LoadOK, [Next]_vars PROVE LoadOK'
    OBVIOUS
  <2>1. at \in Nat \ {0} /\ ToLoad \in Nat
    BY LoadCount DEF TypeOK
  <2>2. source' = source
    BY DEF Next, Loading, Load, NewDefinitionsSource, WalkDirFails, LoadFile, FetchFails, FetchAnswers, FetchTenant,
           LoadEnds, Measure, Join, vars, loadVars
  <2>3. ToLoad' = ToLoad
    BY <2>2, SameSource
  <2>4. CASE UNCHANGED <<at, rules, loadErrs>> /\ (Accepted' => Accepted \/ (loadErrs = {} /\ at > ToLoad))
    <3>1. Kept(at - 1, rules', loadErrs')
      BY <2>4 DEF LoadOK
    <3>2. Kept(at - 1, rules, loadErrs)'
      <4>1. PICK n : n = at - 1
        OBVIOUS
      <4>2. Kept(n, rules, loadErrs)'
        BY <2>2, <3>1, <4>1, SameSource
      <4>3. n = at' - 1
        BY <2>4, <4>1
      <4>4. QED
        BY <4>2, <4>3
    <3>3. QED
      BY <2>3, <2>4, <3>2 DEF LoadOK
  <2>5. ASSUME at' = at + 1, phase = "loading", phase' = phase, at <= ToLoad, Kept(at, rules', loadErrs')
        PROVE  LoadOK'
    <3>1. PICK n : n = at
      OBVIOUS
    <3>2. Kept(n, rules, loadErrs)'
      BY <2>2, <2>5, <3>1, SameSource
    <3>3. n = at' - 1 /\ at' - 1 <= ToLoad'
      BY <2>1, <2>3, <2>5, <3>1
    <3>4. ~Accepted'
      BY <2>5 DEF Accepted
    <3>5. QED
      BY <3>2, <3>3, <3>4 DEF LoadOK
  <2>6. ASSUME Load PROVE LoadOK'
    <3>1. CASE NewDefinitionsSource
      <4>1. ~Accepted'
        BY <3>1 DEF NewDefinitionsSource, Accepted
      <4>2. QED
        BY <2>4, <3>1, <4>1 DEF NewDefinitionsSource
    <3>2. CASE WalkDirFails
      <4>1. ~Accepted'
        BY <3>2 DEF WalkDirFails, Accepted
      <4>2. QED
        BY <2>4, <3>2, <4>1 DEF WalkDirFails
    <3>3. CASE LoadFile
      <4>1. at' = at + 1 /\ phase = "loading" /\ phase' = phase /\ at <= ToLoad
        BY <3>3 DEF LoadFile, ToLoad
      <4>2. Kept(at, rules', loadErrs')
        BY <3>3, FileKept
      <4>3. QED
        BY <2>5, <4>1, <4>2
    <3>4. CASE FetchFails \/ FetchAnswers
      <4>1. at' = at + 1 /\ phase = "loading" /\ phase' = phase /\ at <= ToLoad
        BY <3>4 DEF FetchFails, FetchAnswers, FetchTenant, ToLoad
      <4>2. Kept(at, rules', loadErrs')
        BY <3>4, TenantKept
      <4>3. QED
        BY <2>5, <4>1, <4>2
    <3>5. CASE LoadEnds
      <4>1. Accepted' => loadErrs = {} /\ at > ToLoad
        BY <3>5 DEF LoadEnds, Accepted, ToLoad
      <4>2. QED
        BY <2>4, <3>5, <4>1 DEF LoadEnds
    <3>6. QED
      BY <2>6, <3>1, <3>2, <3>3, <3>4, <3>5 DEF Load
  <2>7. CASE Measure
    <3>1. Accepted /\ UNCHANGED <<at, rules, loadErrs>>
      BY <2>7 DEF Measure, Accepted
    <3>2. QED
      BY <2>4, <3>1
  <2>8. CASE Join
    <3>1. Accepted /\ UNCHANGED <<at, rules, loadErrs>>
      BY <2>8 DEF Join, Accepted
    <3>2. QED
      BY <2>4, <3>1
  <2>9. CASE UNCHANGED vars
    <3>1. (Accepted' => Accepted) /\ UNCHANGED <<at, rules, loadErrs>>
      BY <2>9 DEF vars, loadVars, Accepted
    <3>2. QED
      BY <2>4, <3>1
  <2>10. QED
    BY <2>6, <2>7, <2>8, <2>9 DEF Next, Loading
<1>3. QED
  BY <1>1, <1>2, TypeCorrect, PTL DEF Spec

(* An accepted load is complete.                                           *)
LEMMA NothingLost ==
  ASSUME TypeOK, LoadOK
  PROVE  NothingLostInLoading
<1> SUFFICES ASSUME Accepted
             PROVE  IF source.dir
                    THEN /\ \A i \in DOMAIN source.files : Written(source.files[i], rules)
                         /\ Len(rules) = SumFunction(Sizes)
                    ELSE /\ \A t \in Range(source.tenants) \ {NoTenant} : Held(t, rules)
                         /\ Len(rules) = SumFunction(Holdings)
  BY DEF NothingLostInLoading, Written, Held, Sizes, Holdings
<1>1. at \in Nat \ {0} /\ ToLoad \in Nat /\ at - 1 = ToLoad /\ loadErrs = {}
  BY LoadCount DEF TypeOK, LoadOK
<1>2. Kept(ToLoad, rules, {})
  BY <1>1 DEF LoadOK
<1>3. CASE source.dir
  <2>1. ToLoad = Len(source.files) /\ DOMAIN source.files = 1..ToLoad
    BY <1>3, SizesType DEF TypeOK, ToLoad
  <2>2. \A i \in 1..ToLoad : Written(source.files[i], rules)
    BY <1>2, <1>3 DEF Kept
  <2>3. Len(rules) = SumFunctionOnSet(Sizes, 1..ToLoad)
    BY <1>2, <1>3 DEF Kept
  <2>4. SumFunction(Sizes) = SumFunctionOnSet(Sizes, 1..ToLoad)
    <3>1. DOMAIN Sizes = 1..ToLoad
      BY <2>1 DEF Sizes
    <3>2. QED
      BY <3>1 DEF SumFunction
  <2>5. QED
    BY <1>3, <2>1, <2>2, <2>3, <2>4
<1>4. CASE ~source.dir
  <2>1. PICK l : l = SplitTenants(source.tenants)
    OBVIOUS
  <2>2. ToLoad = Len(l) /\ l \in Seq(Nat) /\ Range(l) = Range(source.tenants) \ {NoTenant}
    BY <1>4, <2>1, Split DEF TypeOK, ToLoad
  <2>3. \A i \in 1..ToLoad : Held(l[i], rules)
    BY <1>2, <1>4, <2>1 DEF Kept
  <2>4. DOMAIN l = 1..ToLoad
    BY <2>2
  <2>5. \A t \in Range(l) : Held(t, rules)
    BY <2>3, <2>4 DEF Range
  <2>6. Len(rules) = SumFunction(Holdings)
    <3>1. DOMAIN Holdings = 1..ToLoad
      BY <2>1, <2>2, HoldingsType DEF TypeOK
    <3>2. Len(rules) = SumFunctionOnSet(Holdings, 1..ToLoad)
      BY <1>2, <1>4 DEF Kept
    <3>3. QED
      BY <3>1, <3>2 DEF SumFunction
  <2>7. QED
    BY <1>4, <2>2, <2>5, <2>6
<1>5. QED
  BY <1>3, <1>4

(* No definition of an accepted load can drop out of the report: none is   *)
(* lost in loading, and every rule has its row in its own tenant's section *)
(* ("silently dropping a tenant's rules would understate its rule output", *)
(* cost.go:261).                                                           *)
THEOREM DefinitionsReported == Spec => []EveryDefinitionReported
<1>1. Correct /\ LoadOK => EveryDefinitionReported
  <2> SUFFICES ASSUME Correct, LoadOK PROVE EveryDefinitionReported
    OBVIOUS
  <2>1. NothingLostInLoading
    BY NothingLost DEF Correct
  <2>2. report # None => phase = "joined"
    BY DEF Correct, ReportOK
  <2>3. QED
    BY <2>1, <2>2, DefinitionsHold DEF EveryDefinitionReported, Joined
<1>2. QED
  BY <1>1, TypeCorrect, AskedOnce, CountsHold, ReportHolds, LoadHolds, PTL DEF Correct

================================================================================
