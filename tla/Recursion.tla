----------------------------- MODULE Recursion -----------------------------
(***************************************************************************)
(* Induction over an interval, and what a recursive definition over one    *)
(* computes.  The loops of the plugins' models are definitions of this     *)
(* form; the lemmas speak of sets and functions only, so that the provers  *)
(* can use them for each loop.  Sequences of sequences, laid end to end by *)
(* such a definition, and what the proofs about them share: their prefixes *)
(* and parts, quotients, and functions applied element by element.         *)
(***************************************************************************)
EXTENDS Integers, Sequences, WellFoundedInduction, TLAPS

\* A set of naturals that is not empty has a least element.
LEMMA LeastOf ==
    \A T : T \subseteq Nat /\ T # {} => \E x \in T : \A y \in T : x <= y
<1> SUFFICES ASSUME NEW T, T \subseteq Nat, T # {}
             PROVE  \E x \in T : \A y \in T : x <= y
  OBVIOUS
<1>1. IsWellFoundedOn(OpToRel(<, Nat), Nat)
  BY NatLessThanWellFounded
<1>2. PICK x \in T : \A y \in T : ~(<<y, x>> \in OpToRel(<, Nat))
  BY <1>1, WFMin, Zenon
<1>3. \A y \in T : ~(y < x)
  BY <1>2 DEF OpToRel
<1> QED
  BY <1>3

\* What holds at 0 and goes from n - 1 to n holds up to L.
LEMMA UpTo ==
    \A L, S : /\ L \in Nat /\ 0 \in S
              /\ \A n \in 1..L : n - 1 \in S => n \in S
              => 0..L \subseteq S
<1> TAKE L, S
<1> HAVE /\ L \in Nat /\ 0 \in S
         /\ \A n \in 1..L : n - 1 \in S => n \in S
<1> DEFINE B == {n \in 0..L : n \notin S}
<1> SUFFICES ASSUME B # {} PROVE FALSE
  OBVIOUS
<1>1. B \subseteq Nat
  OBVIOUS
<1>2. PICK x \in B : \A y \in B : x <= y
  BY <1>1, LeastOf
<1>3. x \in 1..L /\ x - 1 \in 0..L
  BY <1>2
<1>4. x - 1 \in S
  BY <1>2, <1>3
<1> QED
  BY <1>2, <1>3, <1>4

\* f is the function a recursive definition over 0..L means.
Recursive(f, L, x, G) ==
    f = [n \in 0..L |-> IF n = 0 THEN x ELSE G[<<n, f[n - 1]>>]]

\* A recursive definition over an interval defines a function.
LEMMA RecursionDefines ==
    \A L, x, G : L \in Nat => \E f : Recursive(f, L, x, G)
<1> TAKE L, x, G
<1> HAVE L \in Nat
<1> DEFINE S == {m \in Nat : \E f : Recursive(f, m, x, G)}
<1>1. 0 \in S
  <2> DEFINE f == [n \in 0..0 |-> x]
  <2>1. Recursive(f, 0, x, G)
    BY DEF Recursive
  <2> QED
    BY <2>1
<1>2. ASSUME NEW m \in 1..L, m - 1 \in S PROVE m \in S
  <2>1. PICK f : Recursive(f, m - 1, x, G)
    BY <1>2
  <2> DEFINE h == [n \in 0..m |-> IF n = m THEN G[<<m, f[m - 1]>>] ELSE f[n]]
  <2>2. ASSUME NEW n \in 0..m
        PROVE  h[n] = IF n = 0 THEN x ELSE G[<<n, h[n - 1]>>]
    <3>1. CASE n = m
      <4>1. m - 1 \in 0..m /\ m - 1 # m /\ m \in 0..m /\ m # 0
        OBVIOUS
      <4>2. h[m - 1] = f[m - 1] /\ h[m] = G[<<m, f[m - 1]>>]
        BY <4>1
      <4> HIDE DEF h
      <4> QED
        BY <3>1, <4>1, <4>2
    <3>2. CASE n # m
      <4>1. n \in 0..m - 1 /\ (n # 0 => n - 1 \in 0..m - 1)
        BY <3>2
      <4>2. f[n] = IF n = 0 THEN x ELSE G[<<n, f[n - 1]>>]
        BY <2>1, <4>1 DEF Recursive
      <4>3. h[n] = f[n] /\ (n # 0 => h[n - 1] = f[n - 1])
        BY <3>2, <4>1
      <4> HIDE DEF h
      <4> QED
        BY <4>2, <4>3
    <3> QED
      BY <3>1, <3>2
  <2>3. Recursive(h, m, x, G)
    BY <2>2 DEF Recursive
  <2> QED
    BY <2>3
<1> HIDE DEF S
<1>3. 0..L \subseteq S
  BY <1>1, <1>2, UpTo
<1> QED
  BY <1>3 DEF S

\* What a recursive definition over an interval computes, step by step.
LEMMA RecursionIn ==
    \A L, x, G, U, f :
        /\ L \in Nat /\ x \in U[0] /\ Recursive(f, L, x, G)
        /\ \A n \in 1..L : \A v \in U[n - 1] : G[<<n, v>>] \in U[n]
        => \A n \in 0..L : f[n] \in U[n]
<1> TAKE L, x, G, U, f
<1> HAVE /\ L \in Nat /\ x \in U[0] /\ Recursive(f, L, x, G)
         /\ \A n \in 1..L : \A v \in U[n - 1] : G[<<n, v>>] \in U[n]
<1> DEFINE S == {n \in 0..L : f[n] \in U[n]}
<1>1. 0 \in S
  BY DEF Recursive
<1>2. ASSUME NEW n \in 1..L, n - 1 \in S PROVE n \in S
  <2>1. f[n] = G[<<n, f[n - 1]>>] /\ n \in 0..L
    BY DEF Recursive
  <2>2. G[<<n, f[n - 1]>>] \in U[n]
    BY <1>2
  <2> QED
    BY <2>1, <2>2
<1> HIDE DEF S
<1>3. 0..L \subseteq S
  BY <1>1, <1>2, UpTo
<1> QED
  BY <1>3 DEF S

\* What is pushed and popped again leaves the stack as it was.
LEMMA PopPushed ==
    \A S : \A s \in Seq(S), x \in S : SubSeq(Append(s, x), 1, Len(s)) = s
OBVIOUS

\* The same for tuples of two and three.
LEMMA Tuples ==
   \A a, b, c :
        /\ Append(<<a>>, b) = <<a, b>> /\ Append(<<a, b>>, c) = <<a, b, c>>
        /\ SubSeq(<<a, b>>, 1, Len(<<a, b>>) - 1) = <<a>>
        /\ SubSeq(<<a, b, c>>, 1, Len(<<a, b, c>>) - 1) = <<a, b>>
<1> SUFFICES ASSUME NEW a, NEW b, NEW c
             PROVE  /\ Append(<<a>>, b) = <<a, b>> /\ Append(<<a, b>>, c) = <<a, b, c>>
                    /\ SubSeq(<<a, b>>, 1, Len(<<a, b>>) - 1) = <<a>>
                    /\ SubSeq(<<a, b, c>>, 1, Len(<<a, b, c>>) - 1) = <<a, b>>
  OBVIOUS
<1> DEFINE S == {a, b, c}
<1>1. <<a>> \in Seq(S) /\ <<a, b>> \in Seq(S)
  OBVIOUS
<1>2. Append(<<a>>, b) = <<a, b>>
  <2> DEFINE u == Append(<<a>>, b)
             w == <<a, b>>
  <2>1. u \in Seq(S) /\ w \in Seq(S) /\ Len(u) = 2 /\ Len(w) = 2
    BY <1>1
  <2>2. u[1] = w[1] /\ u[2] = w[2]
    BY <1>1
  <2> HIDE DEF u, w
  <2>3. u = w
    BY <2>1, <2>2
  <2> QED
    BY <2>3 DEF u, w
<1>3. Append(<<a, b>>, c) = <<a, b, c>>
  <2> DEFINE u == Append(<<a, b>>, c)
             w == <<a, b, c>>
  <2>1. u \in Seq(S) /\ w \in Seq(S) /\ Len(u) = 3 /\ Len(w) = 3
    BY <1>1
  <2>2. u[1] = w[1] /\ u[2] = w[2] /\ u[3] = w[3]
    BY <1>1
  <2> HIDE DEF u, w
  <2>3. u = w
    BY <2>1, <2>2
  <2> QED
    BY <2>3 DEF u, w
<1>4. Len(<<a, b>>) - 1 = Len(<<a>>) /\ Len(<<a, b, c>>) - 1 = Len(<<a, b>>)
  OBVIOUS
<1>5. SubSeq(Append(<<a>>, b), 1, Len(<<a>>)) = <<a>>
  <2> HIDE DEF S
  <2>1. b \in S
    BY DEF S
  <2> QED
    BY <1>1, <2>1, PopPushed
<1>6. SubSeq(Append(<<a, b>>, c), 1, Len(<<a, b>>)) = <<a, b>>
  <2> HIDE DEF S
  <2>1. c \in S
    BY DEF S
  <2> QED
    BY <1>1, <2>1, PopPushed
<1> QED
  BY <1>2, <1>3, <1>4, <1>5, <1>6

-----------------------------------------------------------------------------
(* Sequences of sequences, laid end to end.                                *)

\* Three sequences end to end, whichever two come first.
Associates(s, t, u) == (s \o t) \o u = s \o (t \o u)

\* Concatenation is associative.
LEMMA JoinThree ==
    ASSUME NEW S, NEW s \in Seq(S), NEW t \in Seq(S), NEW u \in Seq(S)
    PROVE  Associates(s, t, u)
BY DEF Associates

\* Concatenation and the last element.
LEMMA JoinLast ==
    \A S : \A s, t \in Seq(S), x \in S :
        s \o Append(t, x) = Append(s \o t, x) /\ s \o <<x>> = Append(s, x)
OBVIOUS

\* What is appended to is not empty.
LEMMA Appended ==
    \A S : \A s \in Seq(S), x \in S :
        Append(s, x) \in Seq(S) /\ Append(s, x) # <<>> /\ Len(Append(s, x)) = Len(s) + 1
<1> SUFFICES ASSUME NEW S, NEW s \in Seq(S), NEW x \in S
             PROVE  /\ Append(s, x) \in Seq(S) /\ Append(s, x) # <<>>
                    /\ Len(Append(s, x)) = Len(s) + 1
  OBVIOUS
<1>1. Append(s, x) \in Seq(S)
  OBVIOUS
<1>2. Len(Append(s, x)) = Len(s) + 1
  OBVIOUS
<1>3. Append(s, x) # <<>>
  <2> DEFINE a == Append(s, x)
  <2>1. Len(a) = Len(s) + 1 /\ Len(s) \in Nat
    BY <1>2
  <2> HIDE DEF a
  <2>2. a # <<>>
    BY <2>1
  <2> QED
    BY <2>2 DEF a
<1> QED
  BY <1>1, <1>2, <1>3

\* Concatenation with nothing.
LEMMA Joined ==
    \A S : \A s \in Seq(S) : <<>> \o s = s /\ s \o <<>> = s
OBVIOUS

\* Concatenations are sequences over the same set.
LEMMA JoinType ==
    \A S : \A s, t \in Seq(S) : s \o t \in Seq(S) /\ Len(s \o t) = Len(s) + Len(t)
OBVIOUS

\* The first n elements of a sequence, and the rest, make it up.
SplitsAt(S, s, n) ==
    /\ SubSeq(s, 1, n) \in Seq(S) /\ SubSeq(s, n + 1, Len(s)) \in Seq(S)
    /\ Len(SubSeq(s, 1, n)) = n /\ Len(SubSeq(s, n + 1, Len(s))) = Len(s) - n
    /\ \A i \in 1..n : SubSeq(s, 1, n)[i] = s[i]
    /\ \A i \in 1..(Len(s) - n) : SubSeq(s, n + 1, Len(s))[i] = s[n + i]
    /\ s = SubSeq(s, 1, n) \o SubSeq(s, n + 1, Len(s))

\* A sequence is its first n elements and the rest.
LEMMA SplitAt ==
    ASSUME NEW S, NEW s \in Seq(S), NEW n \in 0..Len(s)
    PROVE  SplitsAt(S, s, n)
<1> DEFINE a == SubSeq(s, 1, n)
           b == SubSeq(s, n + 1, Len(s))
<1>1. /\ a \in Seq(S) /\ Len(a) = n /\ \A i \in 1..n : a[i] = s[i]
      /\ b \in Seq(S) /\ Len(b) = Len(s) - n /\ \A i \in 1..(Len(s) - n) : b[i] = s[n + i]
  <2>1. a \in Seq(S) /\ Len(a) = n
    OBVIOUS
  <2>2. \A i \in 1..n : a[i] = s[i]
    OBVIOUS
  <2>3. b \in Seq(S) /\ Len(b) = Len(s) - n
    OBVIOUS
  <2>4. \A i \in 1..(Len(s) - n) : b[i] = s[n + i]
    OBVIOUS
  <2> QED
    BY <2>1, <2>2, <2>3, <2>4
<1> HIDE DEF a, b
<1>2. a \o b \in Seq(S) /\ Len(a \o b) = Len(s)
  <2>1. a \in Seq(S) /\ b \in Seq(S) /\ Len(a) = n /\ Len(b) = Len(s) - n
    BY <1>1
  <2>2. a \o b \in Seq(S) /\ Len(a \o b) = Len(a) + Len(b)
    BY <2>1, JoinType
  <2> QED
    BY <2>1, <2>2
<1>3. \A i \in 1..Len(s) : (a \o b)[i] = s[i]
  <2> SUFFICES ASSUME NEW i \in 1..Len(s) PROVE (a \o b)[i] = s[i]
    OBVIOUS
  <2>1. CASE i <= n
    BY <1>1, <2>1
  <2>2. CASE ~(i <= n)
    <3>1. i - n \in 1..(Len(s) - n) /\ n + (i - n) = i
      BY <2>2
    <3>2. b[i - n] = s[i]
      BY <1>1, <3>1
    <3>3. (a \o b)[i] = b[i - Len(a)]
      BY <1>1, <2>2
    <3> QED
      BY <1>1, <3>2, <3>3
  <2> QED
    BY <2>1, <2>2
<1>4. a \o b = s
  <2> DEFINE u == a \o b
  <2>1. u \in Seq(S) /\ Len(u) = Len(s) /\ \A i \in 1..Len(s) : u[i] = s[i]
    BY <1>2, <1>3
  <2> HIDE DEF u
  <2>2. u = s
    BY <2>1
  <2> QED
    BY <2>2 DEF u
<1> QED
  BY <1>1, <1>4 DEF a, b, SplitsAt

\* A prefix that is one element longer.
LEMMA LongerPrefix ==
    \A S : \A s \in Seq(S) :
        /\ SubSeq(s, 1, 0) = <<>> /\ SubSeq(s, 1, Len(s)) = s
        /\ \A n \in 1..Len(s) : /\ SubSeq(s, 1, n) \in Seq(S) /\ s[n] \in S
                                /\ Len(SubSeq(s, 1, n)) = n
                                /\ SubSeq(s, 1, n - 1) \in Seq(S)
                                /\ SubSeq(s, 1, n) = Append(SubSeq(s, 1, n - 1), s[n])
OBVIOUS

\* The same for one n.
LEMMA PrefixStep ==
    ASSUME NEW S, NEW s \in Seq(S), NEW n \in 1..Len(s)
    PROVE  /\ SubSeq(s, 1, n - 1) \in Seq(S) /\ s[n] \in S
           /\ SubSeq(s, 1, n) = Append(SubSeq(s, 1, n - 1), s[n])
BY LongerPrefix

\* The sequences of ss, end to end.
Flat(ss) ==
    LET flat[n \in 0..Len(ss)] == IF n = 0 THEN <<>> ELSE flat[n - 1] \o ss[n]
    IN  flat[Len(ss)]

\* f lays the sequences of ss end to end, one by one.
Lays(f, ss) == f[0] = <<>> /\ \A n \in 1..Len(ss) : f[n] = f[n - 1] \o ss[n]

\* The same, of sequences over S.
Flattens(f, ss, S) == f \in [0..Len(ss) -> Seq(S)] /\ Lays(f, ss)

\* There is such an f.
LEMMA FlattensDefined ==
    \A S : \A ss \in Seq(Seq(S)) : \E f : Flattens(f, ss, S)
<1> TAKE S
<1> TAKE ss \in Seq(Seq(S))
<1> DEFINE L == Len(ss)
           G == [p \in (1..L) \X Seq(S) |-> p[2] \o ss[p[1]]]
           U == [n \in 0..L |-> Seq(S)]
<1>1. L \in Nat /\ \A n \in 1..L : ss[n] \in Seq(S)
  OBVIOUS
<1>2. \A n \in 1..L : \A v \in Seq(S) : <<n, v>> \in (1..L) \X Seq(S) /\ G[<<n, v>>] = v \o ss[n]
  OBVIOUS
<1>3. <<>> \in U[0]
  <2>1. 0 \in 0..L
    BY <1>1
  <2> QED
    BY <2>1
<1>4. PICK f : Recursive(f, L, <<>>, G)
  BY <1>1, RecursionDefines
<1>5. \A n \in 1..L : \A v \in U[n - 1] : G[<<n, v>>] \in U[n]
  <2> SUFFICES ASSUME NEW n \in 1..L, NEW v \in U[n - 1] PROVE G[<<n, v>>] \in U[n]
    OBVIOUS
  <2>1. n - 1 \in 0..L /\ n \in 0..L
    BY <1>1
  <2>2. v \in Seq(S) /\ U[n] = Seq(S)
    BY <2>1
  <2>3. v \o ss[n] \in Seq(S)
    BY <1>1, <2>2
  <2> QED
    BY <1>2, <2>2, <2>3
<1> HIDE DEF L, G, U
<1>6. \A n \in 0..L : f[n] \in U[n]
  BY <1>1, <1>3, <1>4, <1>5, RecursionIn
<1>7. \A n \in 0..L : f[n] \in Seq(S)
  BY <1>6 DEF U
<1>8. f \in [0..L -> Seq(S)] /\ f[0] = <<>>
  BY <1>1, <1>4, <1>7 DEF Recursive
<1>9. \A n \in 1..L : f[n] = f[n - 1] \o ss[n]
  <2> SUFFICES ASSUME NEW n \in 1..L PROVE f[n] = f[n - 1] \o ss[n]
    OBVIOUS
  <2>1. n \in 0..L /\ n # 0 /\ n - 1 \in 0..L
    BY <1>1
  <2>2. f[n] = G[<<n, f[n - 1]>>]
    BY <1>4, <2>1 DEF Recursive
  <2> QED
    BY <1>2, <1>7, <2>1, <2>2
<1> QED
  BY <1>8, <1>9 DEF Flattens, Lays, L

\* It is the only one, on the part that is flattened.
LEMMA FlattensOnce ==
    ASSUME NEW S, NEW ss \in Seq(Seq(S)), NEW f, NEW g, Flattens(f, ss, S), Lays(g, ss)
    PROVE  \A n \in 0..Len(ss) : g[n] = f[n]
<1> DEFINE T == {n \in 0..Len(ss) : g[n] = f[n]}
<1>1. Len(ss) \in Nat /\ 0 \in T
  BY DEF Flattens, Lays
<1>2. ASSUME NEW n \in 1..Len(ss), n - 1 \in T PROVE n \in T
  <2>1. n \in 0..Len(ss) /\ g[n - 1] = f[n - 1]
    BY <1>1, <1>2
  <2>2. g[n] = g[n - 1] \o ss[n] /\ f[n] = f[n - 1] \o ss[n]
    BY Zenon DEF Flattens, Lays
  <2>3. g[n] = f[n]
    BY <2>1, <2>2, Zenon
  <2> QED
    BY <2>1, <2>3
<1> HIDE DEF T
<1>3. 0..Len(ss) \subseteq T
  BY <1>1, <1>2, UpTo
<1> QED
  BY <1>3 DEF T

\* What Flat computes.
LEMMA FlatSteps ==
    ASSUME NEW S, NEW ss \in Seq(Seq(S)), NEW g, Lays(g, ss)
    PROVE  Flat(ss) = g[Len(ss)] /\ Flat(ss) \in Seq(S)
<1> DEFINE P(h) == h = [n \in 0..Len(ss) |-> IF n = 0 THEN <<>> ELSE h[n - 1] \o ss[n]]
           k == CHOOSE h : P(h)
<1>1. Len(ss) \in Nat
  OBVIOUS
<1>2. PICK f : Flattens(f, ss, S)
  BY FlattensDefined
<1>3. P(f)
  <2>1. ASSUME NEW n \in 0..Len(ss) PROVE f[n] = IF n = 0 THEN <<>> ELSE f[n - 1] \o ss[n]
    <3>1. n = 0 \/ n \in 1..Len(ss)
      BY <1>1
    <3>2. n \in 1..Len(ss) => n # 0
      BY <1>1
    <3> QED
      BY <1>2, <3>1, <3>2, Zenon DEF Flattens, Lays
  <2> QED
    BY <1>2, <2>1 DEF Flattens
<1>4. P(k)
  <2> HIDE DEF P
  <2> QED
    BY <1>3
<1>5. Flat(ss) = k[Len(ss)]
  BY DEF Flat
<1> HIDE DEF k
<1>6. Lays(k, ss)
  <2>1. \A n \in 0..Len(ss) : k[n] = IF n = 0 THEN <<>> ELSE k[n - 1] \o ss[n]
    BY <1>4
  <2>2. 0 \in 0..Len(ss) /\ \A n \in 1..Len(ss) : n \in 0..Len(ss) /\ n # 0
    BY <1>1
  <2> HIDE DEF P
  <2> QED
    BY <2>1, <2>2, Zenon DEF Lays
<1> HIDE DEF P
<1>7. (\A n \in 0..Len(ss) : k[n] = f[n]) /\ (\A n \in 0..Len(ss) : g[n] = f[n])
  BY <1>2, <1>6, FlattensOnce
<1>8. Len(ss) \in 0..Len(ss)
  BY <1>1
<1>9. f[Len(ss)] \in Seq(S)
  BY <1>2, <1>8 DEF Flattens
<1> QED
  BY <1>5, <1>7, <1>8, <1>9, Zenon

\* What FlattenSeq of the community modules computes is Flat.
LEMMA FlattenSeqIs ==
    ASSUME NEW S, NEW ss \in Seq(Seq(S)), ss # <<>>
    PROVE  LET flatten[i \in 1..Len(ss)] ==
                   IF i = 1 THEN ss[i] ELSE flatten[i - 1] \o ss[i]
           IN  flatten[Len(ss)] = Flat(ss)
<1> DEFINE L == Len(ss)
           P(h) == h = [i \in 1..L |-> IF i = 1 THEN ss[i] ELSE h[i - 1] \o ss[i]]
           k == CHOOSE h : P(h)
<1>1. L \in Nat \ {0} /\ \A n \in 1..L : ss[n] \in Seq(S)
  OBVIOUS
<1>2. PICK f : Flattens(f, ss, S)
  BY FlattensDefined
<1>3. f[1] = ss[1]
  <2>1. f[1] = <<>> \o ss[1]
    <3>1. 1 \in 1..Len(ss) /\ 1 - 1 = 0
      BY <1>1
    <3> QED
      BY <1>2, <3>1 DEF Flattens, Lays
  <2> QED
    BY <1>1, <2>1, Joined
<1>4. P([i \in 1..L |-> f[i]])
  <2> DEFINE h == [i \in 1..L |-> f[i]]
  <2>1. ASSUME NEW i \in 1..L PROVE h[i] = IF i = 1 THEN ss[i] ELSE h[i - 1] \o ss[i]
    <3>1. CASE i = 1
      BY <1>3, <3>1
    <3>2. CASE i # 1
      <4>1. i - 1 \in 1..L
        BY <1>1, <3>2
      <4>2. f[i] = f[i - 1] \o ss[i]
        BY <1>2, Zenon DEF Flattens, Lays
      <4> QED
        BY <3>2, <4>1, <4>2
    <3> QED
      BY <3>1, <3>2
  <2> QED
    BY <2>1
<1>5. P(k)
  <2> HIDE DEF P
  <2> QED
    BY <1>4
<1> HIDE DEF k
<1> DEFINE h == [n \in 0..L |-> IF n = 0 THEN <<>> ELSE k[n]]
<1>6. Lays(h, ss)
  <2>1. ASSUME NEW n \in 1..L PROVE h[n] = h[n - 1] \o ss[n]
    <3>1. k[n] = IF n = 1 THEN ss[n] ELSE k[n - 1] \o ss[n]
      BY <1>5
    <3>2. n \in 0..L /\ n - 1 \in 0..L /\ n # 0 /\ (n = 1 <=> n - 1 = 0)
      BY <1>1
    <3>3. h[n] = k[n] /\ h[n - 1] = IF n = 1 THEN <<>> ELSE k[n - 1]
      BY <3>2
    <3>4. n = 1 => <<>> \o ss[n] = ss[n]
      BY <1>1, Joined
    <3> HIDE DEF h, P
    <3> QED
      BY <3>1, <3>3, <3>4, Zenon
  <2>2. h[0] = <<>>
    BY <1>1
  <2> HIDE DEF h
  <2> QED
    BY <2>1, <2>2, Zenon DEF Lays
<1>7. h[L] = k[L]
  BY <1>1
<1> HIDE DEF h
<1>8. Flat(ss) = k[L]
  BY <1>6, <1>7, FlatSteps
<1> QED
  BY <1>8 DEF k

\* Flat, one sequence at a time.
LEMMA FlatAppend ==
    \A S : \A ss \in Seq(Seq(S)) :
        Flat(ss) \in Seq(S) /\ \A s \in Seq(S) : Flat(Append(ss, s)) = Flat(ss) \o s
<1> SUFFICES ASSUME NEW S, NEW ss \in Seq(Seq(S))
             PROVE  Flat(ss) \in Seq(S)
                    /\ \A s \in Seq(S) : Flat(Append(ss, s)) = Flat(ss) \o s
  OBVIOUS
<1>1. PICK f : Flattens(f, ss, S)
  BY FlattensDefined
<1>2. Flat(ss) \in Seq(S)
  BY <1>1, FlatSteps DEF Flattens
<1>3. ASSUME NEW s \in Seq(S) PROVE Flat(Append(ss, s)) = Flat(ss) \o s
  <2> DEFINE tt == Append(ss, s)
  <2>1. tt \in Seq(Seq(S)) /\ Len(tt) = Len(ss) + 1 /\ tt[Len(ss) + 1] = s /\ Len(ss) \in Nat
        /\ \A n \in 1..Len(ss) : tt[n] = ss[n]
    OBVIOUS
  <2> HIDE DEF tt
  <2>2. PICK h : Flattens(h, tt, S)
    BY <2>1, FlattensDefined
  <2>3. h[0] = <<>> /\ \A n \in 1..Len(ss) : h[n] = h[n - 1] \o ss[n]
    <3>1. \A n \in 1..Len(ss) : n \in 1..Len(tt)
      BY <2>1
    <3> QED
      BY <2>1, <2>2, <3>1, Zenon DEF Flattens, Lays
  <2>4. Lays(h, ss)
    BY <2>3, Zenon DEF Lays
  <2>5. Flat(ss) = h[Len(ss)]
    BY <2>4, FlatSteps
  <2>6. Flat(tt) = h[Len(tt)]
    BY <2>1, <2>2, FlatSteps DEF Flattens
  <2>7. Len(ss) + 1 \in 1..Len(tt) /\ (Len(ss) + 1) - 1 = Len(ss)
    BY <2>1
  <2>8. h[Len(ss) + 1] = h[(Len(ss) + 1) - 1] \o tt[Len(ss) + 1]
    BY <2>2, <2>7, Zenon DEF Flattens, Lays
  <2>9. Flat(tt) = Flat(ss) \o s
    BY <2>1, <2>5, <2>6, <2>7, <2>8
  <2> QED
    BY <2>9 DEF tt
<1> QED
  BY <1>2, <1>3

\* Nothing, and one sequence.
LEMMA FlatOne ==
    \A S : Flat(<<>>) = <<>> /\ \A s \in Seq(S) : Flat(<<s>>) = s
<1> TAKE S
<1>1. <<>> \in Seq(Seq(S)) /\ Len(<<>>) = 0
  OBVIOUS
<1>2. Flat(<<>>) = <<>>
  <2> DEFINE f == [n \in 0..0 |-> <<>>]
  <2>1. f[0] = <<>> /\ \A n \in 1..0 : f[n] = f[n - 1] \o <<>>[n]
    OBVIOUS
  <2>2. Lays(f, <<>>)
    BY <1>1, <2>1 DEF Lays
  <2> HIDE DEF f
  <2>3. Flat(<<>>) = f[Len(<<>>)]
    BY <1>1, <2>2, FlatSteps
  <2> QED
    BY <1>1, <2>1, <2>3
<1>3. ASSUME NEW s \in Seq(S) PROVE Flat(<<s>>) = s
  <2>1. <<s>> = Append(<<>>, s)
    OBVIOUS
  <2>2. Flat(Append(<<>>, s)) = <<>> \o s
    BY <1>1, <1>2, FlatAppend
  <2> QED
    BY <2>1, <2>2, Joined
<1> QED
  BY <1>2, <1>3

\* Flat of a concatenation is the concatenation of the two.
LEMMA FlatConcat ==
    \A S : \A ss, tt \in Seq(Seq(S)) : Flat(ss \o tt) = Flat(ss) \o Flat(tt)
<1> SUFFICES ASSUME NEW S, NEW ss \in Seq(Seq(S)), NEW tt \in Seq(Seq(S))
             PROVE  Flat(ss \o tt) = Flat(ss) \o Flat(tt)
  OBVIOUS
<1> DEFINE P(n) == SubSeq(tt, 1, n)
           T == {n \in 0..Len(tt) : Flat(ss \o P(n)) = Flat(ss) \o Flat(P(n))}
<1>1. Len(tt) \in Nat /\ P(0) = <<>> /\ P(Len(tt)) = tt
  BY LongerPrefix
<1>2. Flat(ss) \in Seq(S) /\ ss \o <<>> = ss
  BY FlatAppend, Joined
<1>3. 0 \in T
  <2>1. Flat(ss) \o <<>> = Flat(ss)
    BY <1>2, Joined
  <2>2. Flat(<<>>) = <<>> /\ 0 \in 0..Len(tt)
    BY <1>1, FlatOne
  <2>3. Flat(ss \o P(0)) = Flat(ss) \o Flat(P(0))
    BY <1>1, <1>2, <2>1, <2>2, Zenon
  <2> QED
    BY <2>2, <2>3
<1>4. ASSUME NEW n \in 1..Len(tt), n - 1 \in T PROVE n \in T
  <2> DEFINE u == P(n - 1)
             x == tt[n]
  <2>1. u \in Seq(Seq(S)) /\ x \in Seq(S) /\ P(n) = Append(u, x)
    <3> DEFINE R == Seq(S)
    <3>1. tt \in Seq(R)
      OBVIOUS
    <3> HIDE DEF R
    <3>2. SubSeq(tt, 1, n - 1) \in Seq(R) /\ tt[n] \in R
          /\ SubSeq(tt, 1, n) = Append(SubSeq(tt, 1, n - 1), tt[n])
      BY <3>1, PrefixStep
    <3> QED
      BY <3>2 DEF R
  <2>2. Flat(ss \o u) = Flat(ss) \o Flat(u)
    BY <1>4
  <2>3. n \in 0..Len(tt)
    BY <1>1
  <2> HIDE DEF u, x
  <2>4. ss \o Append(u, x) = Append(ss \o u, x) /\ ss \o u \in Seq(Seq(S))
    <3> DEFINE R == Seq(S)
    <3>1. ss \in Seq(R) /\ u \in Seq(R) /\ x \in R
      BY <2>1
    <3> HIDE DEF R
    <3>2. ss \o Append(u, x) = Append(ss \o u, x)
      BY <3>1, JoinLast
    <3>3. ss \o u \in Seq(R)
      BY <3>1, JoinType
    <3> QED
      BY <3>2, <3>3 DEF R
  <2>5. Flat(Append(ss \o u, x)) = Flat(ss \o u) \o x
    BY <2>1, <2>4, FlatAppend
  <2>6. Flat(P(n)) = Flat(u) \o x /\ Flat(u) \in Seq(S)
    BY <2>1, FlatAppend
  <2>7. (Flat(ss) \o Flat(u)) \o x = Flat(ss) \o (Flat(u) \o x)
    <3> DEFINE a == Flat(ss)
               b == Flat(u)
    <3>1. a \in Seq(S) /\ b \in Seq(S) /\ x \in Seq(S)
      BY <1>2, <2>1, <2>6
    <3> HIDE DEF a, b
    <3>2. Associates(a, b, x)
      BY <3>1, JoinThree
    <3> QED
      BY <3>2 DEF a, b, Associates
  <2>8. Flat(ss \o P(n)) = Flat(ss) \o Flat(P(n))
    BY <2>1, <2>2, <2>4, <2>5, <2>6, <2>7, Zenon
  <2> QED
    BY <2>3, <2>8
<1> HIDE DEF T
<1>5. 0..Len(tt) \subseteq T
  BY <1>1, <1>3, <1>4, UpTo
<1>6. Len(tt) \in T
  BY <1>1, <1>5
<1> QED
  BY <1>1, <1>6 DEF T

\* Sequences of one length k: the whole has as many times k elements.
LEMMA FlatLength ==
    \A S : \A k \in Nat : \A ss \in Seq(Seq(S)) :
        (\A n \in 1..Len(ss) : Len(ss[n]) = k) => Len(Flat(ss)) = Len(ss) * k
<1> SUFFICES ASSUME NEW S, NEW k \in Nat, NEW ss \in Seq(Seq(S)),
                    \A n \in 1..Len(ss) : Len(ss[n]) = k
             PROVE  Len(Flat(ss)) = Len(ss) * k
  OBVIOUS
<1> DEFINE P(n) == SubSeq(ss, 1, n)
           T == {n \in 0..Len(ss) : Len(Flat(P(n))) = n * k}
<1>1. Len(ss) \in Nat /\ P(0) = <<>> /\ P(Len(ss)) = ss
  BY LongerPrefix
<1>2. 0 \in T
  <2>1. Flat(P(0)) = <<>>
    BY <1>1, FlatOne
  <2>2. Len(<<>>) = 0 /\ 0 * k = 0 /\ 0 \in 0..Len(ss)
    BY <1>1
  <2> HIDE DEF P
  <2> QED
    BY <2>1, <2>2
<1>3. ASSUME NEW n \in 1..Len(ss), n - 1 \in T PROVE n \in T
  <2>1. P(n - 1) \in Seq(Seq(S)) /\ ss[n] \in Seq(S) /\ P(n) = Append(P(n - 1), ss[n])
    BY LongerPrefix
  <2>2. Flat(P(n)) = Flat(P(n - 1)) \o ss[n] /\ Flat(P(n - 1)) \in Seq(S)
    BY <2>1, FlatAppend
  <2>3. Len(Flat(P(n))) = Len(Flat(P(n - 1))) + Len(ss[n])
    <3> DEFINE a == Flat(P(n - 1))
               b == ss[n]
    <3>1. a \in Seq(S) /\ b \in Seq(S)
      BY <2>1, <2>2
    <3> HIDE DEF a, b
    <3>2. Len(a \o b) = Len(a) + Len(b)
      BY <3>1
    <3> QED
      BY <2>2, <3>2 DEF a, b
  <2>4. n \in 0..Len(ss) /\ Len(Flat(P(n - 1))) = (n - 1) * k /\ Len(ss[n]) = k
    BY <1>1, <1>3
  <2>5. (n - 1) * k + k = n * k
    OBVIOUS
  <2> HIDE DEF P
  <2> QED
    BY <2>3, <2>4, <2>5
<1> HIDE DEF T
<1>4. 0..Len(ss) \subseteq T
  BY <1>1, <1>2, <1>3, UpTo
<1>5. Len(ss) \in T
  BY <1>1, <1>4
<1> QED
  BY <1>1, <1>5 DEF T

-----------------------------------------------------------------------------
(* Products and quotients.                                                 *)

\* Products of naturals are ordered as their factors.
LEMMA ProductOrder ==
    \A a, b, m \in Nat : a * m \in Nat /\ (a <= b => a * m <= b * m)
OBVIOUS

\* Quotient and remainder.
LEMMA QuotientIs ==
    \A a \in Nat, m \in Nat \ {0} :
        /\ a \div m \in Nat /\ a % m \in 0..(m - 1)
        /\ a = (a \div m) * m + (a % m)
OBVIOUS

\* The quotient is the one number of which that is true.
LEMMA QuotientOnly ==
    \A a \in Nat, m \in Nat \ {0}, q \in Nat :
        q * m <= a /\ a < q * m + m => a % m = a - q * m /\ a \div m = q
<1> SUFFICES ASSUME NEW a \in Nat, NEW m \in Nat \ {0}, NEW q \in Nat, q * m <= a, a < q * m + m
    PROVE  a % m = a - q * m /\ a \div m = q
  OBVIOUS
<1> DEFINE d == a \div m
<1>1. d \in Nat /\ a % m \in 0..(m - 1) /\ a = d * m + (a % m)
  BY QuotientIs
<1> HIDE DEF d
<1>2. (d + 1) * m = d * m + m /\ (q + 1) * m = q * m + m
  BY <1>1
<1>3. d >= q + 1 => d * m >= q * m + m
  BY <1>1, <1>2, ProductOrder
<1>4. q >= d + 1 => q * m >= d * m + m
  BY <1>1, <1>2, ProductOrder
<1>5. d * m \in Nat /\ q * m \in Nat
  BY <1>1, ProductOrder
<1>6. d = q
  BY <1>1, <1>3, <1>4, <1>5
<1> QED
  BY <1>1, <1>5, <1>6 DEF d

-----------------------------------------------------------------------------
(* A function applied to each element of a sequence.                       *)

Map(m, s) == [n \in DOMAIN s |-> m[s[n]]]
Takes(m, A, B) == m \in [A -> B]

\* What is mapped keeps its length and its places.
LEMMA MapFacts ==
    ASSUME NEW A, NEW B, NEW m, Takes(m, A, B), NEW s \in Seq(A)
    PROVE  /\ Map(m, s) \in Seq(B) /\ Len(Map(m, s)) = Len(s)
           /\ \A n \in 1..Len(s) : Map(m, s)[n] = m[s[n]]
<1>1. DOMAIN s = 1..Len(s) /\ Len(s) \in Nat /\ \A n \in 1..Len(s) : s[n] \in A
  OBVIOUS
<1>2. Map(m, s) = [n \in 1..Len(s) |-> m[s[n]]]
  BY <1>1 DEF Map
<1>3. \A n \in 1..Len(s) : m[s[n]] \in B
  BY <1>1 DEF Takes
<1> QED
  BY <1>1, <1>2, <1>3

\* Mapping and appending.
LEMMA MapAppend ==
    ASSUME NEW A, NEW B, NEW m, Takes(m, A, B), NEW s \in Seq(A), NEW x \in A
    PROVE  Map(m, Append(s, x)) = Append(Map(m, s), m[x])
<1> DEFINE u == Map(m, Append(s, x))
           v == Append(Map(m, s), m[x])
<1>1. Append(s, x) \in Seq(A) /\ Len(Append(s, x)) = Len(s) + 1 /\ Len(s) \in Nat
      /\ Append(s, x)[Len(s) + 1] = x /\ \A n \in 1..Len(s) : Append(s, x)[n] = s[n]
  OBVIOUS
<1>2. Map(m, s) \in Seq(B) /\ Len(Map(m, s)) = Len(s) /\ m[x] \in B
      /\ \A n \in 1..Len(s) : Map(m, s)[n] = m[s[n]]
  <2>1. m[x] \in B
    BY DEF Takes
  <2> QED
    BY <2>1, MapFacts
<1>3. v \in Seq(B) /\ Len(v) = Len(s) + 1 /\ v[Len(s) + 1] = m[x]
      /\ \A n \in 1..Len(s) : v[n] = m[s[n]]
  BY <1>1, <1>2
<1>4. u \in Seq(B) /\ Len(u) = Len(s) + 1
      /\ \A n \in 1..(Len(s) + 1) : u[n] = m[Append(s, x)[n]]
  <2> DEFINE w == Append(s, x)
  <2>1. w \in Seq(A) /\ Len(w) = Len(s) + 1
    BY <1>1
  <2> HIDE DEF w
  <2>2. /\ Map(m, w) \in Seq(B) /\ Len(Map(m, w)) = Len(w)
        /\ \A n \in 1..Len(w) : Map(m, w)[n] = m[w[n]]
    BY <2>1, MapFacts
  <2> QED
    BY <2>1, <2>2 DEF w
<1> HIDE DEF u, v
<1>5. \A n \in 1..(Len(s) + 1) : u[n] = v[n]
  <2> SUFFICES ASSUME NEW n \in 1..(Len(s) + 1) PROVE u[n] = v[n]
    OBVIOUS
  <2>1. CASE n = Len(s) + 1
    BY <1>1, <1>3, <1>4, <2>1
  <2>2. CASE n # Len(s) + 1
    <3>1. n \in 1..Len(s)
      BY <1>1, <2>2
    <3> QED
      BY <1>1, <1>3, <1>4, <3>1
  <2> QED
    BY <2>1, <2>2
<1>6. u = v
  BY <1>1, <1>3, <1>4, <1>5
<1> QED
  BY <1>6 DEF u, v

\* Mapping and nothing.
LEMMA MapNothing ==
    \A m : Map(m, <<>>) = <<>>
BY DEF Map

\* Mapping and concatenation.
LEMMA MapJoin ==
    ASSUME NEW A, NEW B, NEW m, Takes(m, A, B), NEW s \in Seq(A), NEW t \in Seq(A)
    PROVE  Map(m, s \o t) = Map(m, s) \o Map(m, t)
<1> DEFINE P(n) == SubSeq(t, 1, n)
           T == {n \in 0..Len(t) : Map(m, s \o P(n)) = Map(m, s) \o Map(m, P(n))}
<1>1. Len(t) \in Nat /\ P(0) = <<>> /\ P(Len(t)) = t
  BY LongerPrefix
<1>2. Map(m, s) \in Seq(B)
  BY MapFacts
<1>3. 0 \in T
  <2>1. s \o <<>> = s /\ Map(m, s) \o <<>> = Map(m, s) /\ Map(m, <<>>) = <<>>
    BY <1>2, Joined, MapNothing
  <2>2. 0 \in 0..Len(t)
    BY <1>1
  <2> QED
    BY <1>1, <2>1, <2>2
<1>4. ASSUME NEW n \in 1..Len(t), n - 1 \in T PROVE n \in T
  <2> DEFINE u == P(n - 1)
             x == t[n]
  <2>1. u \in Seq(A) /\ x \in A /\ P(n) = Append(u, x)
    BY LongerPrefix
  <2>2. Map(m, s \o u) = Map(m, s) \o Map(m, u) /\ n \in 0..Len(t)
    BY <1>1, <1>4
  <2> HIDE DEF u, x
  <2>3. s \o Append(u, x) = Append(s \o u, x) /\ s \o u \in Seq(A)
    BY <2>1, JoinLast, JoinType
  <2>4. Map(m, Append(s \o u, x)) = Append(Map(m, s \o u), m[x])
    <3> DEFINE w == s \o u
    <3>1. w \in Seq(A) /\ x \in A
      BY <2>1, <2>3
    <3> HIDE DEF w
    <3>2. Map(m, Append(w, x)) = Append(Map(m, w), m[x])
      BY <3>1, MapAppend
    <3> QED
      BY <3>2 DEF w
  <2>5. Map(m, P(n)) = Append(Map(m, u), m[x])
    <3>1. Map(m, Append(u, x)) = Append(Map(m, u), m[x])
      BY <2>1, MapAppend
    <3> QED
      BY <2>1, <3>1
  <2>6. Map(m, s) \o Append(Map(m, u), m[x]) = Append(Map(m, s) \o Map(m, u), m[x])
    <3> DEFINE a == Map(m, s)
               b == Map(m, u)
               c == m[x]
    <3>1. a \in Seq(B) /\ b \in Seq(B) /\ c \in B
      BY <1>2, <2>1, MapFacts
    <3> HIDE DEF a, b, c
    <3>2. a \o Append(b, c) = Append(a \o b, c)
      BY <3>1, JoinLast
    <3> QED
      BY <3>2 DEF a, b, c
  <2>7. Map(m, s \o P(n)) = Map(m, s) \o Map(m, P(n))
    BY <2>1, <2>2, <2>3, <2>4, <2>5, <2>6, Zenon
  <2> QED
    BY <2>2, <2>7
<1> HIDE DEF T
<1>5. 0..Len(t) \subseteq T
  BY <1>1, <1>3, <1>4, UpTo
<1>6. Len(t) \in T
  BY <1>1, <1>5
<1> QED
  BY <1>1, <1>6 DEF T


\* Sequences of one element each.
LEMMA FlatSingles ==
    ASSUME NEW A, NEW s \in Seq(A)
    PROVE  Flat([n \in 1..Len(s) |-> <<s[n]>>]) = s
<1> DEFINE ss == [n \in 1..Len(s) |-> <<s[n]>>]
           T == {n \in 0..Len(s) : Flat(SubSeq(ss, 1, n)) = SubSeq(s, 1, n)}
<1>1. Len(s) \in Nat /\ SubSeq(s, 1, 0) = <<>> /\ SubSeq(s, 1, Len(s)) = s
  BY LongerPrefix
<1>2. ss \in Seq(Seq(A)) /\ Len(ss) = Len(s) /\ \A n \in 1..Len(s) : ss[n] = <<s[n]>>
  OBVIOUS
<1> HIDE DEF ss
<1>3. SubSeq(ss, 1, 0) = <<>> /\ SubSeq(ss, 1, Len(s)) = ss
  BY <1>2, LongerPrefix
<1>4. 0 \in T
  <2>1. Flat(SubSeq(ss, 1, 0)) = SubSeq(s, 1, 0)
    BY <1>1, <1>3, FlatOne
  <2> QED
    BY <1>1, <2>1
<1>5. ASSUME NEW n \in 1..Len(s), n - 1 \in T PROVE n \in T
  <2> DEFINE u == SubSeq(ss, 1, n - 1)
             v == SubSeq(s, 1, n - 1)
             x == s[n]
  <2>1. u \in Seq(Seq(A)) /\ SubSeq(ss, 1, n) = Append(u, <<x>>)
    <3>1. SubSeq(ss, 1, n) = Append(u, ss[n]) /\ u \in Seq(Seq(A))
      BY <1>2, LongerPrefix
    <3> QED
      BY <1>2, <3>1
  <2>2. v \in Seq(A) /\ x \in A /\ SubSeq(s, 1, n) = Append(v, x)
    BY LongerPrefix
  <2>3. Flat(u) = v /\ n \in 0..Len(s)
    BY <1>1, <1>5
  <2> HIDE DEF u, v, x
  <2>4. <<x>> \in Seq(A)
    BY <2>2
  <2>5. Flat(Append(u, <<x>>)) = Flat(u) \o <<x>>
    BY <2>1, <2>4, FlatAppend
  <2>6. v \o <<x>> = Append(v, x)
    BY <2>2, JoinLast
  <2> QED
    BY <2>1, <2>2, <2>3, <2>5, <2>6
<1> HIDE DEF T
<1>6. 0..Len(s) \subseteq T
  BY <1>1, <1>4, <1>5, UpTo
<1>7. Flat(SubSeq(ss, 1, Len(s))) = SubSeq(s, 1, Len(s))
  BY <1>1, <1>6 DEF T
<1> QED
  BY <1>1, <1>3, <1>7 DEF ss

\* A prefix and what follows it are a longer prefix.
LEMMA PrefixJoin ==
    ASSUME NEW S, NEW s \in Seq(S), NEW b \in 0..Len(s), NEW a \in 0..b
    PROVE  SubSeq(s, 1, a) \o SubSeq(s, a + 1, b) = SubSeq(s, 1, b)
<1> DEFINE u == SubSeq(s, 1, b)
<1>1. u \in Seq(S) /\ Len(u) = b /\ a \in 0..Len(u)
  OBVIOUS
<1>2. SubSeq(u, 1, a) = SubSeq(s, 1, a) /\ SubSeq(u, a + 1, b) = SubSeq(s, a + 1, b)
  OBVIOUS
<1> HIDE DEF u
<1>3. SplitsAt(S, u, a)
  BY <1>1, SplitAt
<1>4. u = SubSeq(u, 1, a) \o SubSeq(u, a + 1, Len(u))
  BY <1>3 DEF SplitsAt
<1> QED
  BY <1>1, <1>2, <1>4 DEF u
=============================================================================
