---------------------------- MODULE NamesProofs ----------------------------
(***************************************************************************)
(* What the loops of Names compute, for strings and lists of every length. *)
(* Each loop is a recursive function; a fact about all of its elements is  *)
(* a set of numbers with no least counterexample.                          *)
(***************************************************************************)
EXTENDS Names, SequenceTheorems, FiniteSetTheorems, WellFoundedInduction, TLAPS

\* Induction over the natural numbers as a fact about sets: one that is not
\* empty has a least element.
LEMMA LeastElement ==
  ASSUME NEW T, T \subseteq Nat, T # {}
  PROVE  \E n \in T : \A m \in T : n <= m
<1> DEFINE R == OpToRel(<, Nat)
<1>1. IsWellFoundedOn(R, Nat)
  BY NatLessThanWellFounded
<1>2. PICK n \in T : \A m \in T : ~(<<m, n>> \in R)
  BY <1>1, WFMin
<1>3. R = {ss \in Nat \X Nat : ss[1] < ss[2]}
  BY Zenon DEF OpToRel
<1> HIDE DEF R
<1>4. \A m \in T : n <= m
  <2> TAKE m \in T
  <2>1. <<m, n>> \in Nat \X Nat  OBVIOUS
  <2>2. ~(m < n)  BY <1>2, <1>3, <2>1
  <2> QED BY <2>2
<1> QED BY <1>2, <1>4

\* A set that holds 0, and with every number the next one, holds all to N.
LEMMA UpTo ==
  ASSUME NEW N \in Nat, NEW T, 0 \in T,
         \A n \in 1 .. N : n - 1 \in T => n \in T
  PROVE  \A n \in 0 .. N : n \in T
<1> SUFFICES ASSUME {n \in 0 .. N : n \notin T} # {} PROVE FALSE
  OBVIOUS
<1> DEFINE C == {n \in 0 .. N : n \notin T}
<1>1. PICK n \in C : \A m \in C : n <= m
  <2>1. C \subseteq Nat /\ C # {}  OBVIOUS
  <2> QED BY <2>1, LeastElement
<1>2. n # 0 /\ n \in 1 .. N /\ n - 1 \in 0 .. N
  OBVIOUS
<1>3. n - 1 \in T
  BY <1>1, <1>2
<1> QED BY <1>2, <1>3

\* f is what a loop of N steps builds: in S, from base, by op.
Loop(f, N, S, base, op) ==
  /\ f \in [0 .. N -> S]
  /\ f[0] = base
  /\ \A n \in 1 .. N : f[n] = op[<<f[n - 1], n>>]

\* A function that is defined by recursion along 0 .. N exists.
LEMMA Recursion ==
  ASSUME NEW N \in Nat, NEW S, NEW base \in S,
         NEW op \in [S \X (1 .. N) -> S]
  PROVE  \E f : Loop(f, N, S, base, op)
<1> DEFINE Good(f, k) ==
      f[0] = base /\ \A n \in 1 .. k : f[n] = op[<<f[n - 1], n>>]
    T == {k \in 0 .. N : \E f \in [0 .. k -> S] : Good(f, k)}
<1>0. ASSUME NEW k \in 0 .. N, NEW f \in [0 .. k -> S], Good(f, k)
      PROVE  k \in T
  <2> HIDE DEF Good
  <2> QED BY <1>0
<1>1. 0 \in T
  <2> DEFINE z == [i \in 0 .. 0 |-> base]
  <2>1. 0 \in 0 .. N /\ z \in [0 .. 0 -> S]  OBVIOUS
  <2>2. Good(z, 0)  OBVIOUS
  <2> HIDE DEF Good, T, z
  <2> QED BY <1>0, <2>1, <2>2
<1>2. ASSUME NEW k \in 1 .. N, k - 1 \in T PROVE k \in T
  <2>1. PICK f \in [0 .. k - 1 -> S] : Good(f, k - 1)
    BY <1>2
  <2> DEFINE g == [i \in 0 .. k |-> IF i = k THEN op[<<f[k - 1], k>>] ELSE f[i]]
  <2>2. g \in [0 .. k -> S]
    <3>1. f[k - 1] \in S  OBVIOUS
    <3>2. op[<<f[k - 1], k>>] \in S  BY <3>1
    <3> QED BY <3>2
  <2>3. Good(g, k)
    <3>1. g[0] = base  BY <2>1
    <3>2. ASSUME NEW n \in 1 .. k PROVE g[n] = op[<<g[n - 1], n>>]
      <4>1. g[n - 1] = f[n - 1]  OBVIOUS
      <4>2. CASE n = k  BY <4>1, <4>2, SMTT(20)
      <4>3. CASE n # k
        <5>1. n \in 1 .. k - 1 /\ g[n] = f[n]  BY <4>3
        <5> QED BY <2>1, <4>1, <5>1
      <4> QED BY <4>2, <4>3
    <3> QED BY <3>1, <3>2
  <2> HIDE DEF Good, T, g
  <2> QED BY <1>0, <2>2, <2>3
<1> HIDE DEF T
<1>3. N \in T
  BY <1>1, <1>2, UpTo
<1> QED BY <1>3 DEF T, Loop

\* A recursive function has the type its first value and its step have.
LEMMA LoopTyped ==
  ASSUME NEW N \in Nat, NEW S, NEW base \in S,
         NEW op \in [S \X (1 .. N) -> S],
         NEW w, w = [n \in 0 .. N |-> w[n]], w[0] = base,
         \A n \in 1 .. N : w[n - 1] \in S => w[n] = op[<<w[n - 1], n>>]
  PROVE  Loop(w, N, S, base, op)
<1> DEFINE T == {n \in 0 .. N : w[n] \in S}
<1>1. 0 \in T
  OBVIOUS
<1>2. ASSUME NEW n \in 1 .. N, n - 1 \in T PROVE n \in T
  <2>1. <<w[n - 1], n>> \in S \X (1 .. N)  BY <1>2
  <2>2. w[n - 1] \in S  BY <1>2
  <2>3. w[n] \in S  BY <1>2, <2>1, <2>2
  <2> QED BY <2>3
<1> HIDE DEF T
<1>3. \A n \in 0 .. N : n \in T
  BY <1>1, <1>2, UpTo
<1>4. \A n \in 0 .. N : w[n] \in S
  BY <1>3 DEF T
<1>5. w \in [0 .. N -> S]
  BY <1>4
<1>6. \A n \in 1 .. N : n - 1 \in 0 .. N
  OBVIOUS
<1> QED BY <1>4, <1>5, <1>6 DEF Loop
----------------------------------------------------------------------------
(* The three loops, each step from the one before. *)

\* The labels ScaleSetLabels has kept after each label it is given.
LEMMA LabelsLoop ==
  ASSUME NEW C, NEW s \in Seq(Seq(C))
  PROVE  LET w == Built(AddLabel, s) IN
         /\ w \in [0 .. Len(s) -> Seq(Seq(C))] /\ w[0] = <<>>
         /\ \A i \in 1 .. Len(s) : w[i] = AddLabel(w[i - 1], s[i])
<1> DEFINE N == Len(s)
    S == Seq(Seq(C))
    op == [a \in S \X (1 .. N) |-> AddLabel(a[1], s[a[2]])]
    P(g) == g = [i \in 0 .. N |-> IF i = 0 THEN <<>> ELSE AddLabel(g[i - 1], s[i])]
    w == Built(AddLabel, s)
<1>1. N \in Nat /\ <<>> \in S /\ op \in [S \X (1 .. N) -> S]
  BY DEF AddLabel
<1>2. \A b \in S, n \in 1 .. N : op[<<b, n>>] = AddLabel(b, s[n])
  <2> HIDE DEF N, S
  <2> QED OBVIOUS
<1>3. w = CHOOSE g : P(g)
  BY Zenon DEF Built
<1> HIDE DEF S, op, N
<1>4. PICK f : Loop(f, N, S, <<>>, op)
  BY <1>1, Recursion
<1>5. P(f)
  <2>1. f = [i \in 0 .. N |-> f[i]]  BY <1>4 DEF Loop
  <2>2. ASSUME NEW i \in 0 .. N
        PROVE f[i] = IF i = 0 THEN <<>> ELSE AddLabel(f[i - 1], s[i])
    <3>1. CASE i = 0  BY <1>4, <3>1 DEF Loop
    <3>2. CASE i # 0
      <4>1. i \in 1 .. N /\ i - 1 \in 0 .. N  BY <1>1, <3>2
      <4>2. f[i] = op[<<f[i - 1], i>>] /\ f[i - 1] \in S
        BY <1>4, <4>1 DEF Loop
      <4> QED BY <1>2, <3>2, <4>1, <4>2
    <3> QED BY <3>1, <3>2
  <2> QED BY <2>1, <2>2
<1>6. P(w)
  <2> HIDE DEF P, w
  <2> QED BY <1>3, <1>5, Zenon
<1> HIDE DEF w
<1>7. w = [n \in 0 .. N |-> w[n]] /\ w[0] = <<>>
      /\ \A n \in 1 .. N : w[n] = AddLabel(w[n - 1], s[n])
  <2>1. w = [n \in 0 .. N |-> w[n]]  BY <1>6
  <2>2. 0 \in 0 .. N /\ \A n \in 1 .. N : n \in 0 .. N /\ n # 0  BY <1>1
  <2>3. \A i \in 0 .. N :
          w[i] = IF i = 0 THEN <<>> ELSE AddLabel(w[i - 1], s[i])
    BY <1>6
  <2> QED BY <2>1, <2>2, <2>3
<1>8. Loop(w, N, S, <<>>, op)
  <2>1. \A n \in 1 .. N : w[n - 1] \in S => w[n] = op[<<w[n - 1], n>>]
    BY <1>2, <1>7
  <2> QED BY <1>1, <1>7, <2>1, LoopTyped
<1> QED BY <1>7, <1>8 DEF Loop, w, N, S

\* The labels GitHub has kept after each label it is sent.
LEMMA KeepLoop ==
  ASSUME NEW C, NEW s \in Seq(Seq(C))
  PROVE  LET w == Built(Keep, s) IN
         /\ w \in [0 .. Len(s) -> Seq(Seq(C))] /\ w[0] = <<>>
         /\ \A i \in 1 .. Len(s) : w[i] = Keep(w[i - 1], s[i])
<1> DEFINE N == Len(s)
    S == Seq(Seq(C))
    op == [a \in S \X (1 .. N) |-> Keep(a[1], s[a[2]])]
    P(g) == g = [i \in 0 .. N |-> IF i = 0 THEN <<>> ELSE Keep(g[i - 1], s[i])]
    w == Built(Keep, s)
<1>1. N \in Nat /\ <<>> \in S /\ op \in [S \X (1 .. N) -> S]
  BY DEF Keep
<1>2. \A b \in S, n \in 1 .. N : op[<<b, n>>] = Keep(b, s[n])
  <2> HIDE DEF N, S
  <2> QED OBVIOUS
<1>3. w = CHOOSE g : P(g)
  BY Zenon DEF Built
<1> HIDE DEF S, op, N
<1>4. PICK f : Loop(f, N, S, <<>>, op)
  BY <1>1, Recursion
<1>5. P(f)
  <2>1. f = [i \in 0 .. N |-> f[i]]  BY <1>4 DEF Loop
  <2>2. ASSUME NEW i \in 0 .. N
        PROVE f[i] = IF i = 0 THEN <<>> ELSE Keep(f[i - 1], s[i])
    <3>1. CASE i = 0  BY <1>4, <3>1 DEF Loop
    <3>2. CASE i # 0
      <4>1. i \in 1 .. N /\ i - 1 \in 0 .. N  BY <1>1, <3>2
      <4>2. f[i] = op[<<f[i - 1], i>>] /\ f[i - 1] \in S
        BY <1>4, <4>1 DEF Loop
      <4> QED BY <1>2, <3>2, <4>1, <4>2
    <3> QED BY <3>1, <3>2
  <2> QED BY <2>1, <2>2
<1>6. P(w)
  <2> HIDE DEF P, w
  <2> QED BY <1>3, <1>5, Zenon
<1> HIDE DEF w
<1>7. w = [n \in 0 .. N |-> w[n]] /\ w[0] = <<>>
      /\ \A n \in 1 .. N : w[n] = Keep(w[n - 1], s[n])
  <2>1. w = [n \in 0 .. N |-> w[n]]  BY <1>6
  <2>2. 0 \in 0 .. N /\ \A n \in 1 .. N : n \in 0 .. N /\ n # 0  BY <1>1
  <2>3. \A i \in 0 .. N :
          w[i] = IF i = 0 THEN <<>> ELSE Keep(w[i - 1], s[i])
    BY <1>6
  <2> QED BY <2>1, <2>2, <2>3
<1>8. Loop(w, N, S, <<>>, op)
  <2>1. \A n \in 1 .. N : w[n - 1] \in S => w[n] = op[<<w[n - 1], n>>]
    BY <1>2, <1>7
  <2> QED BY <1>1, <1>7, <2>1, LoopTyped
<1> QED BY <1>7, <1>8 DEF Loop, w, N, S

\* What sanitizeNamePart has written after each character.
LEMMA RuneLoop ==
  ASSUME NEW C, NEW s \in Seq(C)
  PROVE  LET w == Built(WriteRune, s) IN
         /\ w \in [0 .. Len(s) -> Seq(Lowercase \cup Digit \cup {"-"})] /\ w[0] = <<>>
         /\ \A i \in 1 .. Len(s) : w[i] = WriteRune(w[i - 1], s[i])
<1> DEFINE N == Len(s)
    S == Seq(Lowercase \cup Digit \cup {"-"})
    op == [a \in S \X (1 .. N) |-> WriteRune(a[1], s[a[2]])]
    P(g) == g = [i \in 0 .. N |-> IF i = 0 THEN <<>> ELSE WriteRune(g[i - 1], s[i])]
    w == Built(WriteRune, s)
<1>1. N \in Nat /\ <<>> \in S /\ op \in [S \X (1 .. N) -> S]
  BY DEF WriteRune
<1>2. \A b \in S, n \in 1 .. N : op[<<b, n>>] = WriteRune(b, s[n])
  <2> HIDE DEF N, S
  <2> QED OBVIOUS
<1>3. w = CHOOSE g : P(g)
  BY Zenon DEF Built
<1> HIDE DEF S, op, N
<1>4. PICK f : Loop(f, N, S, <<>>, op)
  BY <1>1, Recursion
<1>5. P(f)
  <2>1. f = [i \in 0 .. N |-> f[i]]  BY <1>4 DEF Loop
  <2>2. ASSUME NEW i \in 0 .. N
        PROVE f[i] = IF i = 0 THEN <<>> ELSE WriteRune(f[i - 1], s[i])
    <3>1. CASE i = 0  BY <1>4, <3>1 DEF Loop
    <3>2. CASE i # 0
      <4>1. i \in 1 .. N /\ i - 1 \in 0 .. N  BY <1>1, <3>2
      <4>2. f[i] = op[<<f[i - 1], i>>] /\ f[i - 1] \in S
        BY <1>4, <4>1 DEF Loop
      <4> QED BY <1>2, <3>2, <4>1, <4>2
    <3> QED BY <3>1, <3>2
  <2> QED BY <2>1, <2>2
<1>6. P(w)
  <2> HIDE DEF P, w
  <2> QED BY <1>3, <1>5, Zenon
<1> HIDE DEF w
<1>7. w = [n \in 0 .. N |-> w[n]] /\ w[0] = <<>>
      /\ \A n \in 1 .. N : w[n] = WriteRune(w[n - 1], s[n])
  <2>1. w = [n \in 0 .. N |-> w[n]]  BY <1>6
  <2>2. 0 \in 0 .. N /\ \A n \in 1 .. N : n \in 0 .. N /\ n # 0  BY <1>1
  <2>3. \A i \in 0 .. N :
          w[i] = IF i = 0 THEN <<>> ELSE WriteRune(w[i - 1], s[i])
    BY <1>6
  <2> QED BY <2>1, <2>2, <2>3
<1>8. Loop(w, N, S, <<>>, op)
  <2>1. \A n \in 1 .. N : w[n - 1] \in S => w[n] = op[<<w[n - 1], n>>]
    BY <1>2, <1>7
  <2> QED BY <1>1, <1>7, <2>1, LoopTyped
<1> QED BY <1>7, <1>8 DEF Loop, w, N, S
----------------------------------------------------------------------------
(* Labels.                                                                 *)

\* No two labels of out are the same up to case.
Distinct(out) ==
  \A i, j \in 1 .. Len(out) : Lower(out[i]) = Lower(out[j]) => i = j

\* AddLabel adds no label that differs from a kept one in case only.
LEMMA AddedStaysDistinct ==
  ASSUME NEW C, NEW out \in Seq(Seq(C)), NEW l \in Seq(C), Distinct(out)
  PROVE  Distinct(AddLabel(out, l))
<1>1. CASE l = <<>> \/ \E m \in ToSet(out) : Lower(m) = Lower(l)
  BY <1>1 DEF AddLabel
<1>2. CASE ~(l = <<>> \/ \E m \in ToSet(out) : Lower(m) = Lower(l))
  <2> DEFINE new == Append(out, l)
  <2>1. AddLabel(out, l) = new  BY <1>2 DEF AddLabel
  <2>2. \A i \in 1 .. Len(out) : out[i] \in ToSet(out)  BY DEF ToSet
  <2>3. \A i \in 1 .. Len(out) : Lower(out[i]) # Lower(l)  BY <1>2, <2>2
  <2>4. /\ Len(new) = Len(out) + 1 /\ new[Len(out) + 1] = l
        /\ \A i \in 1 .. Len(out) : new[i] = out[i]
    OBVIOUS
  <2> HIDE DEF new
  <2>5. ASSUME NEW i \in 1 .. Len(new), NEW j \in 1 .. Len(new),
               Lower(new[i]) = Lower(new[j])
        PROVE  i = j
    <3>1. CASE i \in 1 .. Len(out) /\ j \in 1 .. Len(out)
      <4>1. new[i] = out[i] /\ new[j] = out[j]  BY <2>4, <3>1
      <4>2. Lower(out[i]) = Lower(out[j])  BY <2>5, <4>1
      <4> HIDE DEF new
      <4> QED BY <3>1, <4>2, Zenon DEF Distinct
    <3>2. CASE i = Len(out) + 1 /\ j \in 1 .. Len(out)
      BY <2>3, <2>4, <2>5, <3>2
    <3>3. CASE i \in 1 .. Len(out) /\ j = Len(out) + 1
      BY <2>3, <2>4, <2>5, <3>3
    <3>4. CASE i = Len(out) + 1 /\ j = Len(out) + 1
      BY <3>4
    <3>5. Len(out) \in Nat  OBVIOUS
    <3> QED BY <2>4, <3>1, <3>2, <3>3, <3>4, <3>5
  <2> QED BY <2>1, <2>5 DEF Distinct
<1> QED BY <1>1, <1>2

\* What runs-on: <class name> asks for is among the labels of ScaleSetLabels, in
\* some case, and no two of them are labels that GitHub would take for one.
THEOREM ScaleSetLabelsDistinct ==
  ASSUME NEW C, NEW base \in Seq(Seq(C)), NEW name \in Seq(C), name # <<>>
  PROVE  LET out == ScaleSetLabels(base, name) IN
         /\ out \in Seq(Seq(C)) /\ out # <<>> /\ Distinct(out)
         /\ \E l \in ToSet(out) : Lower(l) = Lower(name)
<1> DEFINE all == base \o <<name>>
           w == Built(AddLabel, all)
           N == Len(all)
<1>1. all \in Seq(Seq(C)) /\ N \in Nat \ {0} /\ all[N] = name
  OBVIOUS
<1>2. /\ w \in [0 .. N -> Seq(Seq(C))] /\ w[0] = <<>>
      /\ \A i \in 1 .. N : w[i] = AddLabel(w[i - 1], all[i])
  <2> HIDE DEF all
  <2> QED BY <1>1, LabelsLoop
<1>3. ScaleSetLabels(base, name) = w[N]
  BY DEF ScaleSetLabels
<1> HIDE DEF all, w, N
<1>4. \A i \in 1 .. N : i - 1 \in 0 .. N /\ w[i - 1] \in Seq(Seq(C))
  BY <1>1, <1>2
<1>5. w[N] # <<>> /\ \E l \in ToSet(w[N]) : Lower(l) = Lower(name)
  <2>1. w[N] = AddLabel(w[N - 1], name) /\ w[N - 1] \in Seq(Seq(C))
    BY <1>1, <1>2, <1>4
  <2> DEFINE out == w[N - 1]
  <2> HIDE DEF out
  <2>2. ASSUME out \in Seq(Seq(C))
        PROVE  /\ AddLabel(out, name) # <<>>
               /\ \E l \in ToSet(AddLabel(out, name)) : Lower(l) = Lower(name)
    <3>1. ToSet(<<>>) = {}  BY DEF ToSet
    <3>2. Append(out, name) # <<>>
      <4>1. Len(Append(out, name)) = Len(out) + 1 /\ Len(out) \in Nat  BY <2>2
      <4>2. Len(Append(out, name)) # 0 /\ Len(<<>>) = 0  BY <4>1
      <4> QED BY <4>2, Zenon
    <3>3. name \in ToSet(Append(out, name))
      <4>1. Append(out, name) \in Seq(Seq(C))  BY <2>2
      <4>2. /\ Len(out) + 1 \in 1 .. Len(Append(out, name))
            /\ Append(out, name)[Len(out) + 1] = name
        BY <2>2
      <4>3. DOMAIN Append(out, name) = 1 .. Len(Append(out, name))
        BY <4>1
      <4> QED BY <4>2, <4>3 DEF ToSet
    <3> QED BY <3>1, <3>2, <3>3, Zenon DEF AddLabel
  <2> QED BY <2>1, <2>2 DEF out
<1> DEFINE T == {i \in 0 .. N : Distinct(w[i])}
<1>6. 0 \in T
  BY <1>1, <1>2 DEF Distinct
<1>7. ASSUME NEW i \in 1 .. N, i - 1 \in T PROVE i \in T
  <2>1. Distinct(w[i - 1]) /\ w[i - 1] \in Seq(Seq(C))  BY <1>4, <1>7
  <2>2. all[i] \in Seq(C)  BY <1>1 DEF N
  <2>3. Distinct(w[i])  BY <1>2, <2>1, <2>2, AddedStaysDistinct
  <2> QED BY <2>3
<1> HIDE DEF T
<1>8. \A i \in 0 .. N : i \in T
  BY <1>1, <1>6, <1>7, UpTo
<1>9. N \in 0 .. N
  BY <1>1
<1>10. Distinct(w[N])
  BY <1>8, <1>9 DEF T
<1> QED BY <1>2, <1>3, <1>5, <1>9, <1>10

\* GitHub keeps labels as they are when no two of them differ in case only.
LEMMA StoredAsSent ==
  ASSUME NEW C, NEW sent \in Seq(Seq(C)), Distinct(sent)
  PROVE  Stored(sent) = sent
<1> DEFINE w == Built(Keep, sent)
           N == Len(sent)
<1>1. /\ w \in [0 .. N -> Seq(Seq(C))] /\ w[0] = <<>>
      /\ \A i \in 1 .. N : w[i] = Keep(w[i - 1], sent[i])
  BY KeepLoop
<1>2. Stored(sent) = w[N]
  BY DEF Stored
<1>3. N \in Nat
  OBVIOUS
<1> HIDE DEF w
<1> DEFINE T == {i \in 0 .. N : w[i] = SubSeq(sent, 1, i)}
<1>4. 0 \in T
  <2>1. SubSeq(sent, 1, 0) = <<>>  OBVIOUS
  <2> QED BY <1>1, <1>3, <2>1
<1>5. ASSUME NEW i \in 1 .. N, i - 1 \in T PROVE i \in T
  <2> DEFINE kept == SubSeq(sent, 1, i - 1)
  <2>1. w[i - 1] = kept  BY <1>5
  <2>2. /\ kept \in Seq(Seq(C)) /\ Len(kept) = i - 1
        /\ \A j \in 1 .. i - 1 : kept[j] = sent[j]
    OBVIOUS
  <2>3. Append(kept, sent[i]) = SubSeq(sent, 1, i)
    OBVIOUS
  <2> HIDE DEF kept
  <2>4. \A m \in ToSet(kept) : Lower(m) # Lower(sent[i])
    <3>1. ASSUME NEW m \in ToSet(kept) PROVE Lower(m) # Lower(sent[i])
      <4>1. PICK j \in 1 .. i - 1 : m = sent[j]
        <5>1. PICK j \in DOMAIN kept : m = kept[j]  BY DEF ToSet
        <5>2. j \in 1 .. i - 1  BY <2>2
        <5> QED BY <2>2, <5>1, <5>2
      <4>2. j \in 1 .. Len(sent) /\ i \in 1 .. Len(sent) /\ j # i  OBVIOUS
      <4> QED BY <4>1, <4>2 DEF Distinct
    <3> QED BY <3>1
  <2>5. w[i] = SubSeq(sent, 1, i)
    BY <1>1, <2>1, <2>3, <2>4 DEF Keep
  <2> QED BY <2>5
<1> HIDE DEF T
<1>6. \A i \in 0 .. N : i \in T
  BY <1>3, <1>4, <1>5, UpTo
<1>7. w[N] = SubSeq(sent, 1, N)
  BY <1>3, <1>6 DEF T
<1> QED BY <1>2, <1>7

\* labelNamesMatch does not mind the order: of a list and a reordering of it,
\* as many labels are the same in lower case.
LEMMA ReorderingMatches ==
  ASSUME NEW C, NEW s \in Seq(Seq(C)), NEW e \in Reorderings(s)
  PROVE  LabelNamesMatch(e, s)
<1> DEFINE D == 1 .. Len(s)
<1>1. D = DOMAIN s /\ Len(s) \in Nat /\ IsFiniteSet(D)
  BY FS_Interval
<1>2. PICK p \in Bijection(D, D) : e = [i \in D |-> s[p[i]]]
  BY <1>1 DEF Reorderings
<1>3. /\ p \in [D -> D]
      /\ \A i, j \in D : p[i] = p[j] => i = j
      /\ \A j \in D : \E i \in D : p[i] = j
  BY DEF Bijection, Injection, Surjection, IsInjective
<1>4. e \in Seq(Seq(C)) /\ DOMAIN e = D /\ Len(e) = Len(s)
  <2>1. \A i \in D : s[p[i]] \in Seq(C)
    <3>1. \A i \in D : p[i] \in 1 .. Len(s)  BY <1>3
    <3> QED BY <3>1
  <2>2. e \in [1 .. Len(s) -> Seq(C)]
    BY <1>2, <2>1
  <2>3. ASSUME NEW n \in Nat, NEW L, NEW h \in [1 .. n -> L]
        PROVE  h \in Seq(L) /\ DOMAIN h = 1 .. n /\ Len(h) = n
    OBVIOUS
  <2>4. Len(s) \in Nat
    OBVIOUS
  <2> QED BY <2>2, <2>3, <2>4, Zenon
<1> DEFINE f == [i \in DOMAIN e |-> Lower(e[i])]
           g == [i \in DOMAIN s |-> Lower(s[i])]
<1>5. /\ DOMAIN f = D /\ DOMAIN g = D
      /\ \A i \in D : f[i] = g[p[i]]
  BY <1>1, <1>2, <1>3, <1>4
<1> HIDE DEF D, f, g
<1>6. Range(f) = Range(g)
  BY <1>3, <1>5 DEF Range
<1>7. ASSUME NEW x
      PROVE  Cardinality({i \in D : f[i] = x}) = Cardinality({i \in D : g[i] = x})
  <2> DEFINE F == {i \in D : f[i] = x}
             G == {i \in D : g[i] = x}
             q == [i \in F |-> p[i]]
  <2>1. q \in [F -> G]
    BY <1>3, <1>5
  <2>2. \A i, j \in F : q[i] = q[j] => i = j
    BY <1>3
  <2>3. \A j \in G : \E i \in F : q[i] = j
    BY <1>3, <1>5
  <2>4. IsFiniteSet(F)
    BY <1>1, FS_Subset
  <2> HIDE DEF F, G, q
  <2>5. q \in Bijection(F, G)
    BY <2>1, <2>2, <2>3 DEF Bijection, Injection, Surjection, IsInjective
  <2>6. ExistsBijection(F, G)
    BY <2>5 DEF ExistsBijection
  <2>7. Cardinality(G) = Cardinality(F)
    BY <2>4, <2>6, FS_Bijection
  <2> QED BY <2>7 DEF F, G
<1>8. ToBag(f) = ToBag(g)
  BY <1>5, <1>6, <1>7 DEF ToBag
<1> QED BY <1>4, <1>8 DEF LabelNamesMatch, f, g
----------------------------------------------------------------------------
(* Names.                                                                  *)

Alnum == Lowercase \cup Digit
NameChar == Alnum \cup {"-"}

\* strings.ToLower leaves a name of lower-case characters alone.
LEMMA LowerSame ==
  ASSUME NEW s \in Seq(NameChar)
  PROVE  Lower(s) = s
<1>1. DOMAIN ToLower = {"A", "B"}
  BY DEF ToLower
<1>2. NameChar \cap {"A", "B"} = {}
  BY DEF NameChar, Alnum, Lowercase, Digit
<1>3. \A i \in DOMAIN s : s[i] \notin DOMAIN ToLower
  BY <1>1, <1>2
<1>4. Lower(s) = [i \in DOMAIN s |-> s[i]]
  BY <1>3 DEF Lower
<1>5. s = [i \in DOMAIN s |-> s[i]]
  OBVIOUS
<1> QED BY <1>4, <1>5

\* A name that neither starts nor ends with a dash is left alone.
LEMMA TrimSame ==
  ASSUME NEW S, NEW s \in Seq(S), s # <<>>, s[1] # "-", s[Len(s)] # "-"
  PROVE  Trim(s) = s
<1> DEFINE K == {i \in DOMAIN s : s[i] # "-"}
<1>1. /\ 1 \in K /\ Len(s) \in K
      /\ \A i \in K : i \in 1 .. Len(s)
  <2>1. Len(s) \in Nat \ {0} /\ DOMAIN s = 1 .. Len(s)  OBVIOUS
  <2> QED BY <2>1
<1>2. Len(s) \in Nat
  OBVIOUS
<1> HIDE DEF K
<1>3. Max(K) = Len(s)
  BY <1>1, <1>2 DEF Max
<1>4. Min(K) = 1
  BY <1>1, <1>2 DEF Min
<1>5. Trim(s) = SubSeq(s, 1, Len(s))
  <2>1. Trim(s) = IF K = {} THEN <<>> ELSE SubSeq(s, Min(K), Max(K))
    BY DEF Trim, K
  <2> QED BY <1>1, <1>3, <1>4, <2>1
<1>6. SubSeq(s, 1, Len(s)) = s
  OBVIOUS
<1> QED BY <1>5, <1>6

\* One character of sanitizeNamePart's loop.
LEMMA RuneWritten ==
  ASSUME NEW b \in Seq(NameChar), NEW r \in NameChar,
         b # <<>> \/ r \in Alnum
  PROVE  LET new == WriteRune(b, r) IN
         /\ new \in Seq(NameChar) /\ Len(new) \in {Len(b), Len(b) + 1}
         /\ Len(new) >= 1 /\ new[Len(new)] = r
         /\ b # <<>> => new[1] = b[1]
         /\ b = <<>> => new = <<r>>
         /\ r \in Alnum \/ b[Len(b)] # "-" => new = Append(b, r)
<1> DEFINE grown == Append(b, r)
<1>1. /\ grown \in Seq(NameChar) /\ Len(grown) = Len(b) + 1 /\ Len(b) \in Nat
      /\ grown[Len(b) + 1] = r
      /\ b # <<>> => Len(b) >= 1 /\ grown[1] = b[1]
      /\ b = <<>> => grown = <<r>>
  <2>1. b # <<>> => Len(b) >= 1  OBVIOUS
  <2>2. /\ grown \in Seq(NameChar) /\ Len(grown) = Len(b) + 1 /\ Len(b) \in Nat
        /\ grown[Len(b) + 1] = r
    OBVIOUS
  <2>3. Len(b) >= 1 => grown[1] = b[1]
    OBVIOUS
  <2>4. Append(<<>>, r) = <<r>>
    OBVIOUS
  <2>5. b = <<>> => grown = <<r>>
    BY <2>4
  <2> HIDE DEF grown
  <2> QED BY <2>1, <2>2, <2>3, <2>5
<1>2. "-" \notin Alnum
  BY DEF Alnum, Lowercase, Digit
<1>3. r \in Alnum => WriteRune(b, r) = grown
  BY DEF WriteRune, Alnum
<1>4. r \notin Alnum => r = "-" /\ b # <<>>
  BY DEF NameChar
<1>5. r \notin Alnum => WriteRune(b, r) = IF b[Len(b)] = "-" THEN b ELSE grown
  BY <1>4 DEF WriteRune, Alnum, Last
<1> HIDE DEF grown
<1>6. CASE r \in Alnum
  BY <1>1, <1>3, <1>6 DEF grown
<1>7. CASE r \notin Alnum /\ b[Len(b)] # "-"
  BY <1>1, <1>4, <1>5, <1>7 DEF grown
<1>8. CASE r \notin Alnum /\ b[Len(b)] = "-"
  BY <1>1, <1>4, <1>5, <1>8
<1> QED BY <1>6, <1>7, <1>8

\* What has been written after i characters of a name that starts with a
\* letter or a digit: it starts with the same character, ends with the last
\* one read, and is no longer than what was read.
LEMMA Written ==
  ASSUME NEW s \in Seq(NameChar), s # <<>>, s[1] \in Alnum
  PROVE  LET w == Built(WriteRune, s) IN
         \A i \in 1 .. Len(s) :
           /\ w[i] \in Seq(NameChar) /\ Len(w[i]) \in 1 .. i
           /\ w[i][1] = s[1] /\ w[i][Len(w[i])] = s[i]
           /\ i > 1 /\ (s[i] \in Alnum \/ s[i - 1] # "-")
                => w[i] = Append(w[i - 1], s[i])
<1> DEFINE w == Built(WriteRune, s)
           N == Len(s)
           Good(i) ==
             /\ w[i] \in Seq(NameChar) /\ Len(w[i]) \in 1 .. i
             /\ w[i][1] = s[1] /\ w[i][Len(w[i])] = s[i]
             /\ i > 1 /\ (s[i] \in Alnum \/ s[i - 1] # "-")
                  => w[i] = Append(w[i - 1], s[i])
<1>1. /\ w \in [0 .. N -> Seq(NameChar)] /\ w[0] = <<>>
      /\ \A i \in 1 .. N : w[i] = WriteRune(w[i - 1], s[i])
  BY RuneLoop DEF NameChar, Alnum
<1>2. N \in Nat \ {0} /\ \A i \in 1 .. N : s[i] \in NameChar
  OBVIOUS
<1> HIDE DEF w, N
<1> DEFINE T == {0} \cup {i \in 1 .. N : Good(i)}
<1>3. 0 \in T
  OBVIOUS
<1>4. ASSUME NEW i \in 1 .. N, i - 1 \in T PROVE i \in T
  <2> SUFFICES Good(i)  OBVIOUS
  <2>1. w[i] = WriteRune(w[i - 1], s[i]) /\ s[i] \in NameChar
    BY <1>1, <1>2
  <2>2. CASE i = 1
    <3>1. w[0] \in Seq(NameChar) /\ w[0] = <<>>  BY <1>1
    <3>2. w[1] = <<s[1]>> /\ s[1] \in NameChar
      <4>1. s[1] \in NameChar /\ <<>> \in Seq(NameChar)  BY <2>1, <2>2
      <4>2. WriteRune(<<>>, s[1]) = <<s[1]>>  BY <4>1, RuneWritten
      <4> QED BY <2>1, <2>2, <3>1, <4>1, <4>2
    <3> DEFINE one == <<s[1]>>
    <3>3. one \in Seq(NameChar) /\ Len(one) = 1 /\ one[1] = s[1]
      BY <3>2
    <3> HIDE DEF one
    <3> QED BY <2>2, <3>2, <3>3 DEF one
  <2>3. CASE i # 1
    <3>1. i - 1 \in 1 .. N /\ i - 1 # 0  BY <1>2, <2>3
    <3>2. Good(i - 1)  BY <1>4, <3>1
    <3> DEFINE b == w[i - 1]
    <3>3. /\ b \in Seq(NameChar) /\ Len(b) \in 1 .. i - 1
          /\ b[1] = s[1] /\ b[Len(b)] = s[i - 1]
      BY <3>2
    <3>4. b # <<>>
      <4>1. Len(b) # 0 /\ Len(<<>>) = 0  BY <3>3
      <4> QED BY <4>1, Zenon
    <3> HIDE DEF b
    <3>5. w[i] = WriteRune(b, s[i])  BY <2>1 DEF b
    <3> DEFINE new == w[i]
    <3>6. /\ new \in Seq(NameChar) /\ Len(new) \in {Len(b), Len(b) + 1}
          /\ Len(new) >= 1 /\ new[Len(new)] = s[i] /\ new[1] = b[1]
          /\ s[i] \in Alnum \/ b[Len(b)] # "-" => new = Append(b, s[i])
      <4> DEFINE r == s[i]
      <4>1. b \in Seq(NameChar) /\ r \in NameChar  BY <2>1, <3>3
      <4>2. new = WriteRune(b, r)  BY <3>5
      <4> HIDE DEF r, new
      <4>3. /\ new \in Seq(NameChar) /\ Len(new) \in {Len(b), Len(b) + 1}
            /\ Len(new) >= 1 /\ new[Len(new)] = r /\ new[1] = b[1]
            /\ r \in Alnum \/ b[Len(b)] # "-" => new = Append(b, r)
        BY <3>4, <4>1, <4>2, RuneWritten
      <4> QED BY <4>3 DEF r
    <3>7. Len(new) \in 1 .. i  BY <3>3, <3>6
    <3>8. s[i] \in Alnum \/ s[i - 1] # "-" => new = Append(w[i - 1], s[i])
      BY <3>3, <3>6 DEF b
    <3> QED BY <3>3, <3>6, <3>7, <3>8
  <2> QED BY <2>2, <2>3
<1> HIDE DEF T
<1>5. \A i \in 0 .. N : i \in T
  BY <1>2, <1>3, <1>4, UpTo
<1>6. \A i \in 1 .. N : Good(i)
  <2>1. \A i \in 1 .. N : i \in 0 .. N /\ i # 0  BY <1>2
  <2> QED BY <1>5, <2>1 DEF T
<1> QED BY <1>6 DEF w, N

\* An element appended to a concatenation goes to its right part.
LEMMA AppendToConcat ==
  ASSUME NEW S, NEW u \in Seq(S), NEW t \in Seq(S), NEW i \in 1 .. Len(t)
  PROVE  Append(u \o SubSeq(t, 1, i - 1), t[i]) = u \o SubSeq(t, 1, i)
<1>1. SubSeq(t, 1, i) = Append(SubSeq(t, 1, i - 1), t[i])
  OBVIOUS
<1> DEFINE x == SubSeq(t, 1, i - 1)
<1>2. x \in Seq(S) /\ t[i] \in S
  OBVIOUS
<1> HIDE DEF x
<1>3. Append(u \o x, t[i]) = u \o Append(x, t[i])
  BY <1>2, SMTT(20)
<1> QED BY <1>1, <1>3 DEF x

\* sanitizeNamePart's loop over p and then t has done with p what it does
\* with p alone.
LEMMA WrittenSoFar ==
  ASSUME NEW p \in Seq(NameChar), NEW t \in Seq(NameChar)
  PROVE  Built(WriteRune, p \o t)[Len(p)] = Built(WriteRune, p)[Len(p)]
<1> DEFINE s == p \o t
           w == Built(WriteRune, s)
           v == Built(WriteRune, p)
           P == Len(p)
<1>1. s \in Seq(NameChar) /\ Len(s) = P + Len(t) /\ P \in Nat /\ Len(t) \in Nat
      /\ \A i \in 1 .. P : s[i] = p[i]
  OBVIOUS
<1>2. w[0] = <<>> /\ \A i \in 1 .. Len(s) : w[i] = WriteRune(w[i - 1], s[i])
  <2> HIDE DEF s
  <2> QED BY <1>1, RuneLoop DEF NameChar, Alnum
<1>3. v[0] = <<>> /\ \A i \in 1 .. P : v[i] = WriteRune(v[i - 1], p[i])
  BY RuneLoop DEF NameChar, Alnum
<1> HIDE DEF s, w, v, P
<1> DEFINE T == {i \in 0 .. P : w[i] = v[i]}
<1>4. 0 \in T
  BY <1>1, <1>2, <1>3
<1>5. ASSUME NEW i \in 1 .. P, i - 1 \in T PROVE i \in T
  <2>1. i \in 1 .. Len(s) /\ i \in 0 .. P  BY <1>1
  <2>2. w[i - 1] = v[i - 1]  BY <1>5
  <2>3. w[i] = v[i]
    BY <1>1, <1>2, <1>3, <2>1, <2>2
  <2> QED BY <2>1, <2>3
<1> HIDE DEF T
<1>6. \A i \in 0 .. P : i \in T
  BY <1>1, <1>4, <1>5, UpTo
<1>7. P \in 0 .. P
  BY <1>1
<1> QED BY <1>6, <1>7 DEF T, w, v, P, s

\* A part of a name that sanitizeNamePart copies as it is: it ends in a
\* letter or a digit, and no two dashes of it are adjacent.
Plain(t) ==
  /\ t \in Seq(NameChar) /\ t # <<>> /\ t[Len(t)] # "-"
  /\ \A i \in 1 .. Len(t) - 1 : t[i] = "-" => t[i + 1] # "-"

\* What sanitizeNamePart makes of a prefix the configuration accepts and a
\* plain part after it.
LEMMA SanitizeNamePartPlain ==
  ASSUME NEW p \in Seq(NameChar), p # <<>>, p[1] \in Alnum, p[Len(p)] # "-",
         NEW t, Plain(t)
  PROVE  LET short == SanitizeNamePart(p) IN
         /\ short \in Seq(NameChar) /\ Len(short) \in 1 .. Len(p)
         /\ short[1] = p[1]
         /\ SanitizeNamePart(p \o t) = short \o t
<1> DEFINE s == p \o t
           w == Built(WriteRune, s)
           v == Built(WriteRune, p)
           P == Len(p)
           M == Len(t)
           u == v[P]
<1>0. "-" \notin Alnum
  BY DEF Alnum, Lowercase, Digit
<1>1. t \in Seq(NameChar) /\ M \in Nat \ {0} /\ P \in Nat \ {0}
      /\ \A i \in 1 .. M : t[i] \in NameChar
  BY DEF Plain
<1>2. /\ s \in Seq(NameChar) /\ Len(s) = P + M /\ s # <<>> /\ s[1] = p[1]
      /\ s[P] = p[P] /\ \A i \in 1 .. M : s[P + i] = t[i]
  <2>1. s \in Seq(NameChar) /\ Len(s) = P + M  BY <1>1
  <2>2. s # <<>>  BY <1>1, <2>1
  <2>3. s[1] = p[1] /\ s[P] = p[P]  BY <1>1
  <2>4. \A i \in 1 .. M : s[P + i] = t[i]  BY <1>1
  <2> QED BY <2>1, <2>2, <2>3, <2>4
<1>3. u \in Seq(NameChar) /\ Len(u) \in 1 .. P /\ u[1] = p[1]
      /\ u[Len(u)] = p[P]
  <2>1. P \in 1 .. P  BY <1>1
  <2> QED BY <2>1, Written
<1>4. w[P] = u
  BY <1>1, WrittenSoFar
<1> HIDE DEF s, w, v, P, M, u
<1>5. \A i \in 1 .. P + M :
        /\ w[i] \in Seq(NameChar) /\ Len(w[i]) \in 1 .. i
        /\ w[i][1] = s[1] /\ w[i][Len(w[i])] = s[i]
        /\ i > 1 /\ (s[i] \in Alnum \/ s[i - 1] # "-")
             => w[i] = Append(w[i - 1], s[i])
  BY <1>2, Written DEF w
<1> DEFINE T == {i \in 0 .. M : w[P + i] = u \o SubSeq(t, 1, i)}
<1>6. 0 \in T
  <2>1. SubSeq(t, 1, 0) = <<>> /\ u \o <<>> = u  BY <1>1, <1>3
  <2>2. 0 \in 0 .. M /\ P + 0 = P  BY <1>1
  <2>3. w[P + 0] = u \o SubSeq(t, 1, 0)  BY <1>4, <2>1, <2>2
  <2> QED BY <2>2, <2>3
<1>7. ASSUME NEW i \in 1 .. M, i - 1 \in T PROVE i \in T
  <2>1. i \in 0 .. M /\ P + i \in 1 .. P + M /\ P + i > 1 /\ P + i - 1 = P + (i - 1)
    BY <1>1
  <2>2. t[i] = "-" => s[P + i - 1] # "-"
    <3>1. CASE i = 1
      BY <1>1, <1>2, <3>1 DEF P
    <3>2. CASE i # 1
      <4>1. i - 1 \in 1 .. M - 1 /\ i - 1 \in 1 .. M /\ (i - 1) + 1 = i
        BY <1>1, <3>2
      <4>2. t[i - 1] = "-" => t[i] # "-"  BY <4>1 DEF Plain, M
      <4> QED BY <1>2, <2>1, <4>1, <4>2
    <3> QED BY <3>1, <3>2
  <2>3. s[P + i] = t[i] /\ (t[i] \in Alnum \/ t[i] = "-")
    BY <1>1, <1>2 DEF NameChar
  <2>4. w[P + i] = Append(w[P + (i - 1)], t[i])
    <3> DEFINE j == P + i
    <3>1. /\ j \in 1 .. P + M /\ j > 1 /\ j - 1 = P + (i - 1)
          /\ s[j] \in Alnum \/ s[j - 1] # "-"
      <4>1. j \in 1 .. P + M /\ j > 1 /\ j - 1 = P + (i - 1)
        BY <1>1, <2>1
      <4>2. s[j] \in Alnum \/ s[j] = "-"  BY <2>3
      <4>3. s[j] = "-" => s[j - 1] # "-"  BY <1>1, <2>2, <2>3
      <4> QED BY <4>1, <4>2, <4>3
    <3> HIDE DEF j
    <3>2. w[j] = Append(w[j - 1], s[j])  BY <1>5, <3>1
    <3>3. s[j] = t[i]  BY <2>3 DEF j
    <3> QED BY <3>1, <3>2, <3>3 DEF j
  <2>5. w[P + (i - 1)] = u \o SubSeq(t, 1, i - 1)
    BY <1>7
  <2>6. w[P + i] = u \o SubSeq(t, 1, i)
    BY <1>1, <1>3, <2>4, <2>5, AppendToConcat DEF M
  <2> QED BY <2>1, <2>6
<1> HIDE DEF T
<1>8. w[P + M] = u \o t
  <2>1. \A i \in 0 .. M : i \in T
    BY <1>1, <1>6, <1>7, UpTo
  <2>2. M \in 0 .. M  BY <1>1
  <2>3. SubSeq(t, 1, M) = t  BY <1>1 DEF M
  <2> QED BY <2>1, <2>2, <2>3 DEF T
<1>9. SanitizeNamePart(p) = u
  <2>1. Lower(p) = p  BY LowerSame
  <2>2. u # <<>> /\ u[1] # "-" /\ u[Len(u)] # "-"
    BY <1>0, <1>3 DEF P
  <2>3. Trim(u) = u  BY <1>3, <2>2, TrimSame
  <2> QED BY <2>1, <2>3 DEF SanitizeNamePart, u, v, P
<1>10. SanitizeNamePart(s) = u \o t
  <2> DEFINE all == w[P + M]
  <2>1. Lower(s) = s  BY <1>2, LowerSame
  <2>2. P + M \in 1 .. P + M /\ s[P + M] = t[M]  BY <1>1, <1>2
  <2>3. all \in Seq(NameChar) /\ Len(all) >= 1 /\ all[1] = s[1]
        /\ all[Len(all)] = t[M]
    BY <1>1, <1>5, <2>2
  <2> HIDE DEF all
  <2>4. all # <<>> /\ all[1] # "-" /\ all[Len(all)] # "-"
    BY <1>0, <1>2, <2>3 DEF Plain, M
  <2>5. Trim(all) = all  BY <2>3, <2>4, TrimSame
  <2>6. SanitizeNamePart(s) = Trim(all)
    BY <1>2, <2>1 DEF SanitizeNamePart, w, all
  <2> QED BY <1>8, <2>5, <2>6 DEF all
<1> QED BY <1>3, <1>9, <1>10 DEF s, P
----------------------------------------------------------------------------
(* The name of a scale set: the prefix and a plain part that tells the     *)
(* class.                                                                  *)

\* Two plain parts in a row are one.
LEMMA PlainConcat ==
  ASSUME NEW a, NEW b, Plain(a), Plain(b)
  PROVE  Plain(a \o b)
<1> DEFINE s == a \o b
           A == Len(a)
           B == Len(b)
<1>1. /\ a \in Seq(NameChar) /\ b \in Seq(NameChar)
      /\ A \in Nat \ {0} /\ B \in Nat \ {0}
      /\ a[A] # "-" /\ b[B] # "-"
  BY DEF Plain
<1>2. s \in Seq(NameChar) /\ Len(s) = A + B
  BY <1>1
<1>3. (\A i \in 1 .. A : s[i] = a[i]) /\ (\A i \in 1 .. B : s[A + i] = b[i])
  BY <1>1
<1> HIDE DEF s, A, B
<1>4. s # <<>>
  <2>1. Len(s) # 0 /\ Len(<<>>) = 0  BY <1>1, <1>2
  <2> QED BY <2>1, Zenon
<1>5. s[A + B] # "-"
  <2>1. B \in 1 .. B  BY <1>1
  <2> QED BY <1>1, <1>3, <2>1
<1>6. ASSUME NEW i \in 1 .. Len(s) - 1, s[i] = "-" PROVE s[i + 1] # "-"
  <2>1. CASE i \in 1 .. A - 1
    <3>1. i \in 1 .. A /\ i + 1 \in 1 .. A  BY <1>1, <2>1
    <3>2. a[i] = "-" => a[i + 1] # "-"  BY <2>1 DEF Plain, A
    <3> QED BY <1>3, <1>6, <3>1, <3>2
  <2>2. CASE i = A
    <3>1. A \in 1 .. A  BY <1>1
    <3> QED BY <1>1, <1>3, <1>6, <2>2, <3>1
  <2>3. CASE i \in A + 1 .. A + B - 1
    <3> DEFINE j == i - A
    <3>1. /\ j \in 1 .. B - 1 /\ j \in 1 .. B /\ j + 1 \in 1 .. B
          /\ i = A + j /\ i + 1 = A + (j + 1)
      BY <1>1, <2>3
    <3> HIDE DEF j
    <3>2. b[j] = "-" => b[j + 1] # "-"  BY <3>1 DEF Plain, B
    <3>3. s[i] = b[j] /\ s[i + 1] = b[j + 1]  BY <1>3, <3>1
    <3> QED BY <1>6, <3>2, <3>3
  <2> QED BY <1>1, <1>2, <2>1, <2>2, <2>3
<1> QED BY <1>2, <1>4, <1>5, <1>6 DEF Plain, s

\* A dash and a word are a plain part.
LEMMA PlainWord ==
  ASSUME NEW d \in Seq(Alnum), d # <<>>
  PROVE  Plain(d) /\ Plain(Dash \o d)
<1>1. "-" \notin Alnum /\ "-" \in NameChar /\ Alnum \subseteq NameChar
  BY DEF NameChar, Alnum, Lowercase, Digit
<1>2. /\ Len(d) \in Nat \ {0} /\ d \in Seq(NameChar)
      /\ \A i \in 1 .. Len(d) : d[i] \in Alnum
  BY <1>1
<1>3. Plain(d)
  <2>1. Len(d) \in 1 .. Len(d) /\ \A i \in 1 .. Len(d) - 1 : i \in 1 .. Len(d)
    BY <1>2
  <2> QED BY <1>1, <1>2, <2>1 DEF Plain
<1> DEFINE s == Dash \o d
<1>4. s \in Seq(NameChar) /\ Len(s) = Len(d) + 1
      /\ \A i \in 1 .. Len(d) : s[i + 1] = d[i]
  <2>1. Dash \in Seq(NameChar) /\ Len(Dash) = 1  BY <1>1 DEF Dash
  <2> HIDE DEF Dash
  <2>2. s \in Seq(NameChar) /\ Len(s) = Len(Dash) + Len(d)
        /\ \A i \in 1 .. Len(d) : s[Len(Dash) + i] = d[i]
    <3> HIDE DEF s
    <3>1. Dash \in Seq(NameChar) /\ d \in Seq(NameChar)  BY <1>2, <2>1
    <3> QED BY <3>1 DEF s
  <2> HIDE DEF s
  <2>3. \A i \in 1 .. Len(d) : 1 + i = i + 1  BY <1>2
  <2> QED BY <1>2, <2>1, <2>2, <2>3
<1> HIDE DEF s
<1>5. s # <<>>
  <2>1. Len(s) # 0 /\ Len(<<>>) = 0  BY <1>2, <1>4
  <2> QED BY <2>1, Zenon
<1>6. \A i \in 1 .. Len(d) : s[i + 1] # "-"
  BY <1>1, <1>2, <1>4
<1>7. s[Len(s)] # "-" /\ \A i \in 1 .. Len(s) - 1 : s[i + 1] # "-"
  <2>1. Len(d) \in 1 .. Len(d) /\ Len(s) - 1 = Len(d)  BY <1>2, <1>4
  <2> QED BY <1>4, <1>6, <2>1
<1> QED BY <1>3, <1>4, <1>5, <1>7 DEF Plain, s

\* A size is a plain part.
LEMMA PlainSize ==
  ASSUME NEW n \in DOMAIN Decimal, n > 0, NEW unit \in Alnum
  PROVE  Plain(Size(n, unit))
<1> DEFINE d == Decimal[n] \o <<unit>>
<1>1. Decimal[n] \in Seq(Alnum) /\ Decimal[n] # <<>>
  <2>1. Decimal[n] \in Seq(Digit) \ {<<>>}  BY NamesAssumption
  <2>2. Digit \subseteq Alnum  BY DEF Alnum
  <2> QED BY <2>1, <2>2
<1>2. d \in Seq(Alnum) /\ Len(d) # 0
  BY <1>1
<1>3. d # <<>>
  <2>1. Len(<<>>) = 0  OBVIOUS
  <2> QED BY <1>2, <2>1, Zenon
<1>4. Size(n, unit) = Dash \o d
  BY DEF Size
<1> HIDE DEF d
<1> QED BY <1>2, <1>3, <1>4, PlainWord

\* The class has sizes, and an architecture.
Sized(class) ==
  /\ class.vcpus \in DOMAIN Decimal /\ class.vcpus > 0
  /\ class.memory_gib \in DOMAIN Decimal /\ class.memory_gib > 0
  /\ class.disk_gib \in DOMAIN Decimal /\ class.disk_gib > 0
  /\ class.arch \in DOMAIN ArchName

\* So is what the name of a scale set says of its class.
LEMMA ClassPartPlain ==
  ASSUME NEW class, Sized(class)
  PROVE  Plain(ClassPart(class))
<1> DEFINE a == Size(class.vcpus, "v")
           b == Size(class.memory_gib, "g")
           c == Size(class.disk_gib, "g")
           d == ArchName[class.arch]
<1>1. Plain(a) /\ Plain(b) /\ Plain(c)
  <2>1. "v" \in Alnum /\ "g" \in Alnum  BY DEF Alnum, Lowercase
  <2> QED BY <2>1, PlainSize DEF Sized
<1>2. d \in Seq(Alnum) /\ d # <<>>
  <2>1. class.arch \in {"amd64", "arm64", "AMD64", "other"}
    BY DEF Sized, ArchName
  <2>2. d \in {<<"x">>, <<"y">>, <<"b">>}
    BY <2>1 DEF ArchName
  <2>3. "x" \in Alnum /\ "y" \in Alnum /\ "b" \in Alnum
    BY DEF Alnum, Lowercase
  <2>4. \A x \in Alnum : <<x>> \in Seq(Alnum) /\ <<x>> # <<>>
    OBVIOUS
  <2> HIDE DEF d
  <2> QED BY <2>2, <2>3, <2>4, Zenon
<1>3. Plain(Dash \o d)
  BY <1>2, PlainWord
<1>4. ClassPart(class) = ((a \o b) \o c) \o (Dash \o d)
  BY DEF ClassPart
<1> HIDE DEF a, b, c, d
<1> QED BY <1>1, <1>3, <1>4, PlainConcat
----------------------------------------------------------------------------
(* The name of a runner.                                                   *)

\* A suffix of letters and digits is left alone.
LEMMA SanitizeNamePartWord ==
  ASSUME NEW s \in Seq(Alnum), s # <<>>
  PROVE  SanitizeNamePart(s) = s
<1> DEFINE w == Built(WriteRune, s)
           N == Len(s)
<1>1. /\ s \in Seq(NameChar) /\ N \in Nat \ {0}
      /\ \A i \in 1 .. N : s[i] \in Alnum
  BY DEF NameChar
<1>2. \A i \in 1 .. N :
        /\ w[i] \in Seq(NameChar) /\ Len(w[i]) \in 1 .. i /\ w[i][1] = s[1]
        /\ i > 1 => w[i] = Append(w[i - 1], s[i])
  BY <1>1, Written
<1> HIDE DEF w, N
<1> DEFINE T == {0} \cup {i \in 1 .. N : w[i] = SubSeq(s, 1, i)}
<1>3. 0 \in T
  OBVIOUS
<1>4. ASSUME NEW i \in 1 .. N, i - 1 \in T PROVE i \in T
  <2> SUFFICES w[i] = SubSeq(s, 1, i)  OBVIOUS
  <2>1. CASE i = 1
    <3> DEFINE one == w[1]
               sub == SubSeq(s, 1, 1)
    <3>1. one \in Seq(NameChar) /\ Len(one) \in 1 .. 1 /\ one[1] = s[1]
      BY <1>2, <2>1
    <3>2. sub \in Seq(NameChar) /\ Len(sub) \in 1 .. 1 /\ sub[1] = s[1]
      BY <1>1 DEF N
    <3> HIDE DEF one, sub
    <3>3. one = sub
      <4>1. \A k \in 1 .. 1 : k = 1  OBVIOUS
      <4>2. Len(one) = 1 /\ Len(sub) = 1  BY <3>1, <3>2, <4>1, Zenon
      <4>3. \A k \in 1 .. Len(one) : one[k] = sub[k]
        BY <3>1, <3>2, <4>1, <4>2, Zenon
      <4>4. Len(one) = Len(sub)  BY <4>2, Zenon
      <4> QED BY <3>1, <3>2, <4>3, <4>4, SeqEqual
    <3> QED BY <2>1, <3>3 DEF one, sub
  <2>2. CASE i # 1
    <3>1. i > 1 /\ i - 1 # 0  BY <1>1, <2>2
    <3>2. w[i - 1] = SubSeq(s, 1, i - 1)  BY <1>4, <3>1
    <3>3. w[i] = Append(SubSeq(s, 1, i - 1), s[i])  BY <1>2, <3>1, <3>2
    <3>4. Append(SubSeq(s, 1, i - 1), s[i]) = SubSeq(s, 1, i)
      BY <1>1, <3>1 DEF N
    <3> QED BY <3>3, <3>4
  <2> QED BY <2>1, <2>2
<1> HIDE DEF T
<1>5. \A i \in 0 .. N : i \in T
  BY <1>1, <1>3, <1>4, UpTo
<1>6. w[N] = s
  <2>1. N \in 0 .. N /\ N # 0 /\ SubSeq(s, 1, N) = s  BY <1>1 DEF N
  <2> QED BY <1>5, <2>1 DEF T
<1>7. Lower(s) = s
  BY <1>1, LowerSame
<1>8. Trim(s) = s
  <2>1. 1 \in 1 .. N /\ N \in 1 .. N /\ "-" \notin Alnum
    BY <1>1 DEF Alnum, Lowercase, Digit
  <2>2. s[1] # "-" /\ s[Len(s)] # "-"  BY <1>1, <2>1 DEF N
  <2> QED BY <2>2, TrimSame
<1> QED BY <1>6, <1>7, <1>8 DEF SanitizeNamePart, w, N

\* What randomNameSuffix may return.
Suffix == {s \in Seq(Alnum) : Len(s) = SuffixLen}

\* With a scale-set name within its limit nothing is ever cut off: a runner's
\* name is the shortened prefix, the part that tells the class, and the suffix.
THEOREM MakeRunnerNameWhole ==
  ASSUME NEW p \in Seq(NameChar), p # <<>>, p[1] \in Alnum, p[Len(p)] # "-",
         NEW t, Plain(t), Len(p \o t) <= MaxScaleSetName,
         NEW suf \in Suffix
  PROVE  LET short == SanitizeNamePart(p)
             name  == MakeRunnerName(p \o t, suf)
         IN /\ short \in Seq(NameChar) /\ short # <<>>
            /\ name = ((short \o t) \o Dash) \o suf
            /\ name \in Seq(NameChar) /\ name # <<>>
            /\ Len(name) <= MaxName /\ name[1] = p[1]
<1> DEFINE short == SanitizeNamePart(p)
           set == short \o t
           dash == Dash
           left == set \o dash
           name == left \o suf
<1>1. /\ short \in Seq(NameChar) /\ Len(short) \in 1 .. Len(p)
      /\ short[1] = p[1] /\ SanitizeNamePart(p \o t) = set
  BY SanitizeNamePartPlain
<1>2. SuffixLen \in Nat \ {0} /\ MaxScaleSetName \in Nat \ {0}
      /\ MaxName = MaxScaleSetName + 1 + SuffixLen
  BY NamesAssumption
<1>3. suf # <<>> /\ SanitizeNamePart(suf) = suf
  <2>1. suf # <<>>
    <3>1. Len(suf) # 0 /\ Len(<<>>) = 0  BY <1>2 DEF Suffix
    <3> QED BY <3>1, Zenon
  <2> QED BY <2>1, SanitizeNamePartWord DEF Suffix
<1>4. /\ dash \in Seq(NameChar) /\ suf \in Seq(NameChar) /\ Alnum \subseteq NameChar
      /\ t \in Seq(NameChar) /\ Len(t) \in Nat \ {0} /\ Len(p) \in Nat \ {0}
      /\ "-" \notin Alnum
  <2>1. Alnum \subseteq NameChar /\ "-" \in NameChar /\ "-" \notin Alnum
    BY DEF NameChar, Alnum, Lowercase, Digit
  <2>2. t \in Seq(NameChar) /\ Len(t) \in Nat \ {0} /\ Len(p) \in Nat \ {0}
    BY DEF Plain
  <2> QED BY <2>1, <2>2 DEF Dash, Suffix
<1>5. Len(p \o t) = Len(p) + Len(t)
  BY <1>4
<1>6. Len(dash) = 1 /\ Len(suf) = SuffixLen
  BY DEF Dash, Suffix
<1> HIDE DEF short, dash
<1>7. set \in Seq(NameChar)
  BY <1>1, <1>4
<1>8. Len(set) = Len(short) + Len(t) /\ (Len(short) >= 1 => set[1] = short[1])
  BY <1>1, <1>4
<1> HIDE DEF set
<1>9. left \in Seq(NameChar)
  BY <1>4, <1>7
<1>10. Len(left) = Len(set) + Len(dash) /\ (Len(set) >= 1 => left[1] = set[1])
  BY <1>4, <1>7
<1> HIDE DEF left
<1>11. name \in Seq(NameChar)
  BY <1>4, <1>9
<1>12. /\ Len(name) = Len(left) + Len(suf)
       /\ Len(left) >= 1 => name[1] = left[1]
       /\ name[Len(left) + Len(suf)] = suf[Len(suf)]
  <2>1. Len(name) = Len(left) + Len(suf)
    BY <1>4, <1>9
  <2>2. Len(left) >= 1 => name[1] = left[1]
    BY <1>4, <1>9
  <2>3. \A i \in 1 .. Len(suf) : name[Len(left) + i] = suf[i]
    BY <1>4, <1>9
  <2>4. Len(suf) \in 1 .. Len(suf)
    BY <1>2, <1>6
  <2> HIDE DEF name
  <2> QED BY <2>1, <2>2, <2>3, <2>4
<1> HIDE DEF name
<1>13. Len(name) <= MaxName /\ Len(name) >= 1 /\ name[1] = p[1]
      /\ name[Len(name)] = suf[Len(suf)]
  <2>1. Len(short) >= 1 /\ Len(short) <= Len(p)  BY <1>1, <1>4
  <2>2. Len(set) >= 1 /\ Len(set) <= MaxScaleSetName
    BY <1>1, <1>2, <1>4, <1>5, <1>8, <2>1
  <2>3. Len(left) >= 1 /\ Len(left) <= MaxScaleSetName + 1
    BY <1>2, <1>6, <1>10, <2>2
  <2>4. Len(name) >= 1 /\ Len(name) <= MaxName
    BY <1>2, <1>6, <1>12, <2>3
  <2> QED BY <1>1, <1>8, <1>10, <1>12, <2>1, <2>2, <2>3, <2>4
<1>14. name # <<>>
  <2>1. Len(name) # 0 /\ Len(<<>>) = 0  BY <1>13
  <2> QED BY <2>1, Zenon
<1>15. Trim(name) = name
  <2>1. Len(suf) \in 1 .. Len(suf)  BY <1>2, <1>6
  <2>2. name[1] # "-" /\ name[Len(name)] # "-"
    <3>1. suf[Len(suf)] \in Alnum  BY <2>1 DEF Suffix
    <3> QED BY <1>4, <1>13, <3>1
  <2> QED BY <1>11, <1>14, <2>2, TrimSame
<1>16. MakeRunnerName(p \o t, suf) = name
  <2>1. MakeRunnerName(p \o t, suf)
          = IF Len(Trim(name)) <= MaxName THEN Trim(name)
            ELSE IF MaxName - Len(suf) - 1 < 1
                   THEN SubSeq(suf, Len(suf) - MaxName + 1, Len(suf))
                 ELSE TrimRight(SubSeq(set, 1, MaxName - Len(suf) - 1))
                        \o Dash \o suf
    BY <1>1, <1>3, Zenon DEF MakeRunnerName, name, left, dash
  <2> QED BY <1>13, <1>15, <2>1
<1>17. short # <<>>
  <2>1. Len(short) # 0 /\ Len(<<>>) = 0  BY <1>1
  <2> QED BY <2>1, Zenon
<1> QED BY <1>1, <1>11, <1>13, <1>14, <1>16, <1>17
        DEF name, left, dash, set, short

\* Equal names with equally long tails have equal heads and tails.
LEMMA ConcatCancel ==
  ASSUME NEW S, NEW a \in Seq(S), NEW b \in Seq(S),
         NEW c \in Seq(S), NEW d \in Seq(S), a \o b = c \o d,
         Len(a) = Len(c)
  PROVE  a = c /\ b = d
<1>1. Len(b) = Len(d)
  BY ConcatProperties
<1>2. ASSUME NEW i \in 1 .. Len(a) PROVE a[i] = c[i]
  <2>1. (a \o b)[i] = a[i] /\ (c \o d)[i] = c[i]  BY ConcatProperties
  <2> QED BY <2>1
<1>3. ASSUME NEW i \in 1 .. Len(b) PROVE b[i] = d[i]
  <2> DEFINE j == Len(a) + i
  <2>1. (a \o b)[j] = b[i] /\ (c \o d)[j] = d[i]
    BY <1>1
  <2> QED BY <2>1
<1> QED BY <1>1, <1>2, <1>3, SeqEqual

\* Two runners of one process have the same name only if the same class and
\* the same suffix were meant.
THEOREM MakeRunnerNameTells ==
  ASSUME NEW p \in Seq(NameChar), p # <<>>, p[1] \in Alnum, p[Len(p)] # "-",
         NEW t, Plain(t), Len(p \o t) <= MaxScaleSetName,
         NEW u, Plain(u), Len(p \o u) <= MaxScaleSetName,
         NEW x \in Suffix,
         NEW y \in Suffix,
         MakeRunnerName(p \o t, x) = MakeRunnerName(p \o u, y)
  PROVE  t = u /\ x = y
<1> DEFINE short == SanitizeNamePart(p)
           left == short \o t
           right == short \o u
           dash == Dash
           ld == left \o dash
           rd == right \o dash
<1>1. /\ short \in Seq(NameChar)
      /\ MakeRunnerName(p \o t, x) = (left \o dash) \o x
      /\ MakeRunnerName(p \o u, y) = (right \o dash) \o y
  BY MakeRunnerNameWhole
<1>2. /\ t \in Seq(NameChar) /\ u \in Seq(NameChar) /\ dash \in Seq(NameChar)
      /\ x \in Seq(NameChar) /\ y \in Seq(NameChar)
  BY DEF Plain, Dash, NameChar, Suffix
<1> HIDE DEF short, dash
<1>3. left \in Seq(NameChar) /\ right \in Seq(NameChar)
  BY <1>1, <1>2
<1> HIDE DEF left, right
<1>4. ld \in Seq(NameChar) /\ rd \in Seq(NameChar)
  BY <1>2, <1>3
<1> HIDE DEF ld, rd
<1>5. ld \o x = rd \o y
  BY <1>1 DEF ld, rd
<1>6. Len(ld) = Len(rd)
  <2>1. Len(ld \o x) = Len(ld) + Len(x) /\ Len(rd \o y) = Len(rd) + Len(y)
    BY <1>2, <1>4
  <2>2. Len(ld) \in Nat /\ Len(rd) \in Nat /\ SuffixLen \in Nat
    BY <1>4, NamesAssumption
  <2>3. Len(x) = SuffixLen /\ Len(y) = SuffixLen  BY DEF Suffix
  <2> QED BY <1>5, <2>1, <2>2, <2>3
<1>7. ld = rd /\ x = y
  BY <1>2, <1>4, <1>5, <1>6, ConcatCancel
<1>8. left = right
  <2>1. Len(ld) = Len(left) + Len(dash) /\ Len(rd) = Len(right) + Len(dash)
    BY <1>2, <1>3 DEF ld, rd
  <2>2. Len(left) \in Nat /\ Len(right) \in Nat /\ Len(dash) \in Nat
    BY <1>2, <1>3
  <2>3. Len(left) + Len(dash) = Len(right) + Len(dash)
    BY <1>6, <2>1, Zenon
  <2>4. \A m, n, k \in Nat : m + k = n + k => m = n
    OBVIOUS
  <2>5. Len(left) = Len(right)
    BY <2>2, <2>3, <2>4, Zenon
  <2> QED BY <1>2, <1>3, <1>7, <2>5, ConcatCancel DEF ld, rd
<1>9. t = u
  BY <1>1, <1>2, <1>8, ConcatCancel DEF left, right
<1> QED BY <1>7, <1>9

\* What a concatenation ends with is its suffix, as IsSuffix has it.
LEMMA SuffixOfConcat ==
  ASSUME NEW S, NEW a \in Seq(S), NEW e \in Seq(S)
  PROVE  IsSuffix(e, a \o e)
<1> DEFINE s == a \o e
           A == Len(a)
           E == Len(e)
           re == [i \in 1 .. E |-> e[(E - i) + 1]]
           rs == [i \in 1 .. Len(s) |-> s[(Len(s) - i) + 1]]
<1>1. s \in Seq(S) /\ A \in Nat /\ E \in Nat
  OBVIOUS
<1>2. Len(s) = A + E
  OBVIOUS
<1>3. \A i \in 1 .. E : s[A + i] = e[i]
  OBVIOUS
<1> HIDE DEF s, A, E
<1>4. re \in Seq(S) /\ Len(re) = E
  <2>1. \A i \in 1 .. E : (E - i) + 1 \in 1 .. E  BY <1>1
  <2>2. \A i \in 1 .. E : e[i] \in S  BY DEF E
  <2>3. \A i \in 1 .. E : e[(E - i) + 1] \in S  BY <2>1, <2>2
  <2> QED BY <1>1, <2>3
<1>5. rs \in Seq(S) /\ Len(rs) = A + E
  <2> DEFINE N == Len(s)
  <2>1. N \in Nat /\ \A i \in 1 .. N : s[i] \in S  BY <1>1
  <2>2. N = A + E  BY <1>2
  <2> HIDE DEF N
  <2>3. \A i \in 1 .. N : (N - i) + 1 \in 1 .. N  BY <2>1
  <2>4. \A i \in 1 .. N : s[(N - i) + 1] \in S  BY <2>1, <2>3
  <2>5. rs = [i \in 1 .. N |-> s[(N - i) + 1]]  BY DEF N
  <2> HIDE DEF rs
  <2>6. rs \in Seq(S) /\ Len(rs) = N  BY <2>1, <2>4, <2>5
  <2> QED BY <2>2, <2>6
<1>6. \A i \in 1 .. E : rs[i] = re[i]
  <2> TAKE i \in 1 .. E
  <2>1. i \in 1 .. Len(s) /\ (Len(s) - i) + 1 = A + ((E - i) + 1)
        /\ (E - i) + 1 \in 1 .. E
    BY <1>1, <1>2
  <2> QED BY <1>3, <2>1
<1>7. Reverse(e) = re /\ Reverse(s) = rs
  BY DEF Reverse, E
<1> HIDE DEF re, rs
<1>8. SubSeq(re, 1, E) = SubSeq(rs, 1, E)
  <2> DEFINE x == SubSeq(re, 1, E)
             y == SubSeq(rs, 1, E)
  <2>1. x \in Seq(S) /\ y \in Seq(S) /\ Len(x) = E /\ Len(y) = E
    BY <1>1, <1>4, <1>5
  <2>2. \A i \in 1 .. E : x[i] = re[i] /\ y[i] = rs[i]
    BY <1>1, <1>4, <1>5
  <2> HIDE DEF x, y
  <2>3. Len(x) = Len(y) /\ \A i \in 1 .. Len(x) : x[i] = y[i]
    BY <1>6, <2>1, <2>2
  <2> QED BY <2>1, <2>3, SeqEqual DEF x, y
<1>9. E <= A + E
  BY <1>1
<1>10. IsPrefix(re, rs)
  BY <1>4, <1>5, <1>8, <1>9 DEF IsPrefix
<1> QED BY <1>7, <1>10 DEF IsSuffix, s
============================================================================
