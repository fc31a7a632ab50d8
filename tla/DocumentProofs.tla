--------------------------- MODULE DocumentProofs ---------------------------
(***************************************************************************)
(* Proofs about the plugins of SafeApps that read or lay out what they are *)
(* given, for any request, feed, text, card and raster and for any of the  *)
(* limits: the web server, the news feed, and the printer's layout and     *)
(* raster encoding.                                                        *)
(***************************************************************************)
EXTENDS SafeApps, Recursion, TLAPS

\* A step of the composition is a step of each plugin, or leaves it alone.
LEMMA StepOfEach ==
    ASSUME [Next]_vars
    PROVE  /\ WS!Next \/ UNCHANGED ws
           /\ NF!Next \/ UNCHANGED nf
           /\ CP!Next \/ UNCHANGED cp
           /\ TL!Next \/ UNCHANGED tl
BY Zenon DEF Next, vars

-----------------------------------------------------------------------------
(* webserver: what a client asks for.                                      *)

\* The characters of a request line.
Letters == WS!Chars \cup {"F", "E", "5", "3", "6", "1"}

\* An escape is the percent sign and two digits, and means one character.
LEMMA Escapes ==
    /\ \A c \in WS!Chars : /\ WS!Escape[c] \in Seq(Letters) /\ Len(WS!Escape[c]) = 3
                           /\ WS!Escape[c] \in DOMAIN WS!Unescape
                           /\ WS!Unescape[WS!Escape[c]] = c
    /\ \A e \in DOMAIN WS!Unescape : e[1] = "%" /\ WS!Unescape[e] \in WS!Chars
<1>1. \A c \in WS!Chars : \E x, y \in {"2", "3", "6", "1", "F", "E", "5"} :
          WS!Escape[c] = <<"%", x, y>>
  BY DEF WS!Escape, WS!Chars
<1>2. /\ WS!Escape["/"] = <<"%", "2", "F">> /\ WS!Escape["."] = <<"%", "2", "E">>
      /\ WS!Escape["%"] = <<"%", "2", "5">> /\ WS!Escape["2"] = <<"%", "3", "2">>
      /\ WS!Escape["a"] = <<"%", "6", "1">>
  BY DEF WS!Escape, WS!Chars
<1>3. \A c, d \in WS!Chars : WS!Escape[c] = WS!Escape[d] => c = d
  <2> SUFFICES ASSUME NEW c \in WS!Chars, NEW d \in WS!Chars, WS!Escape[c] = WS!Escape[d]
               PROVE  c = d
    OBVIOUS
  <2>1. WS!Escape[c][2] = WS!Escape[d][2] /\ WS!Escape[c][3] = WS!Escape[d][3]
    OBVIOUS
  <2>2. \A e \in WS!Chars :
            \/ e = "/" /\ WS!Escape[e][3] = "F"
            \/ e = "." /\ WS!Escape[e][3] = "E"
            \/ e = "%" /\ WS!Escape[e][3] = "5"
            \/ e = "2" /\ WS!Escape[e][3] = "2"
            \/ e = "a" /\ WS!Escape[e][3] = "1"
    BY <1>2 DEF WS!Chars
  <2> QED
    BY <2>1, <2>2
<1>4. ASSUME NEW c \in WS!Chars
      PROVE  WS!Escape[c] \in Seq(Letters) /\ Len(WS!Escape[c]) = 3 /\ WS!Escape[c][1] = "%"
  <2>1. PICK x \in {"2", "3", "6", "1", "F", "E", "5"}, y \in {"2", "3", "6", "1", "F", "E", "5"} :
            WS!Escape[c] = <<"%", x, y>>
    BY <1>1
  <2>2. "%" \in Letters /\ x \in Letters /\ y \in Letters
    BY DEF Letters, WS!Chars
  <2> HIDE DEF Letters
  <2> QED
    BY <2>1, <2>2
<1>5. DOMAIN WS!Unescape = {WS!Escape[c] : c \in WS!Chars}
  BY DEF WS!Unescape
<1>6. ASSUME NEW c \in WS!Chars PROVE WS!Unescape[WS!Escape[c]] = c
  <2> DEFINE d == CHOOSE d \in WS!Chars : WS!Escape[d] = WS!Escape[c]
  <2>1. d \in WS!Chars /\ WS!Escape[d] = WS!Escape[c]
    OBVIOUS
  <2>2. WS!Unescape[WS!Escape[c]] = d
    BY DEF WS!Unescape
  <2> HIDE DEF d
  <2> QED
    BY <1>3, <2>1, <2>2
<1> QED
  BY <1>4, <1>5, <1>6

\* t lists the prefixes of an encoded target.
Targets(t, name, esc) ==
    /\ DOMAIN t = 0..Len(name) /\ t[0] = <<"/">>
    /\ \A n \in 0..Len(name) : t[n] \in Seq(Letters)
    /\ \A n \in 1..Len(name) : t[n] = t[n - 1] \o WS!Sent(name, esc, n)

\* Each character is sent as it is or escaped.
LEMMA SentFacts ==
    \A esc : \A name \in Seq(WS!Chars) : \A n \in 1..Len(name) :
        /\ WS!Sent(name, esc, n) \in Seq(Letters)
        /\ \/ WS!Sent(name, esc, n) = WS!Escape[name[n]]
           \/ WS!Sent(name, esc, n) = <<name[n]>> /\ name[n] # "%"
<1> SUFFICES ASSUME NEW esc, NEW name \in Seq(WS!Chars), NEW n \in 1..Len(name)
             PROVE  /\ WS!Sent(name, esc, n) \in Seq(Letters)
                    /\ \/ WS!Sent(name, esc, n) = WS!Escape[name[n]]
                       \/ WS!Sent(name, esc, n) = <<name[n]>> /\ name[n] # "%"
  OBVIOUS
<1>1. name[n] \in WS!Chars
  OBVIOUS
<1>2. name[n] \in Letters
  BY <1>1 DEF Letters
<1> HIDE DEF Letters
<1>3. WS!Escape[name[n]] \in Seq(Letters) /\ <<name[n]>> \in Seq(Letters)
  BY <1>1, <1>2, Escapes
<1> QED
  BY <1>3 DEF WS!Sent

\* An encoded target has its prefixes.
LEMMA EncodedFacts ==
    \A esc : \A name \in Seq(WS!Chars) :
        \E t : Targets(t, name, esc) /\ WS!Encoded(name, esc) = t[Len(name)]
<1> SUFFICES ASSUME NEW esc, NEW name \in Seq(WS!Chars)
             PROVE  \E t : Targets(t, name, esc) /\ WS!Encoded(name, esc) = t[Len(name)]
  OBVIOUS
<1> DEFINE L == Len(name)
           V == Seq(Letters)
           piece == [n \in 1..L |-> WS!Sent(name, esc, n)]
           G == [p \in (1..L) \X V |-> p[2] \o piece[p[1]]]
           U == [n \in 0..L |-> V]
           target == CHOOSE f : f = [n \in 0..L |->
                        IF n = 0 THEN <<"/">> ELSE f[n - 1] \o WS!Sent(name, esc, n)]
<1>1. L \in Nat
  OBVIOUS
<1>2. WS!Encoded(name, esc) = target[L]
  BY DEF WS!Encoded
<1>3. \A n \in 1..L : piece[n] = WS!Sent(name, esc, n) /\ piece[n] \in V
  BY SentFacts
<1>4. <<"/">> \in V
  <2>1. "/" \in Letters
    BY DEF Letters, WS!Chars
  <2> HIDE DEF Letters
  <2> QED
    BY <2>1
<1> HIDE DEF L, V, piece
<1>5. \A v, w \in V : v \o w \in V
  BY DEF V
<1>6. ASSUME NEW n \in 1..L, NEW v \in V PROVE G[<<n, v>>] = v \o piece[n] /\ v \o piece[n] \in V
  BY <1>3, <1>5
<1>7. PICK f : Recursive(f, L, <<"/">>, G)
  BY <1>1, RecursionDefines
<1>8. \A n \in 0..L : f[n] \in V
  <2>1. \A n \in 1..L : \A v \in U[n - 1] : G[<<n, v>>] \in U[n]
    <3> SUFFICES ASSUME NEW n \in 1..L, NEW v \in U[n - 1] PROVE G[<<n, v>>] \in U[n]
      OBVIOUS
    <3>1. U[n - 1] = V /\ U[n] = V
      BY <1>1
    <3> QED
      BY <1>6, <3>1
  <2>2. <<"/">> \in U[0]
    BY <1>1, <1>4
  <2> HIDE DEF U, G
  <2>3. \A n \in 0..L : f[n] \in U[n]
    BY <1>1, <1>7, <2>1, <2>2, RecursionIn
  <2> QED
    BY <2>3 DEF U
<1>9. f = [n \in 0..L |-> IF n = 0 THEN <<"/">> ELSE f[n - 1] \o WS!Sent(name, esc, n)]
  <2>1. ASSUME NEW n \in 0..L, n # 0
        PROVE  G[<<n, f[n - 1]>>] = f[n - 1] \o WS!Sent(name, esc, n)
    <3>1. n \in 1..L /\ n - 1 \in 0..L
      BY <1>1, <2>1
    <3> QED
      BY <1>3, <1>6, <1>8, <3>1
  <2> HIDE DEF G
  <2>2. f = [n \in 0..L |-> IF n = 0 THEN <<"/">> ELSE G[<<n, f[n - 1]>>]]
    BY <1>7 DEF Recursive
  <2> QED
    BY <2>1, <2>2
<1>10. target = [n \in 0..L |->
                    IF n = 0 THEN <<"/">> ELSE target[n - 1] \o WS!Sent(name, esc, n)]
  BY <1>9
<1> HIDE DEF target, G, U
<1>11. /\ DOMAIN target = 0..L /\ target[0] = <<"/">>
       /\ \A n \in 1..L : target[n] = target[n - 1] \o WS!Sent(name, esc, n)
  <2>1. DOMAIN target = 0..L
    BY <1>10
  <2>2. \A n \in 0..L : target[n] = IF n = 0 THEN <<"/">>
                                    ELSE target[n - 1] \o WS!Sent(name, esc, n)
    BY <1>10
  <2>3. 0 \in 0..L /\ \A n \in 1..L : n \in 0..L /\ n # 0
    BY <1>1
  <2> QED
    BY <2>1, <2>2, <2>3
<1> DEFINE S == {n \in 0..L : target[n] \in V}
<1>12. 0 \in S
  <2>1. 0 \in 0..L
    BY <1>1
  <2>2. target[0] \in V
    BY <1>4, <1>11
  <2> QED
    BY <2>1, <2>2
<1>13. ASSUME NEW n \in 1..L, n - 1 \in S PROVE n \in S
  <2>1. n \in 0..L
    BY <1>1
  <2>2. target[n - 1] \in V
    BY <1>13
  <2>3. target[n] = target[n - 1] \o piece[n]
    BY <1>3, <1>11
  <2> QED
    BY <1>6, <2>1, <2>2, <2>3
<1> HIDE DEF S
<1>14. 0..L \subseteq S
  BY <1>1, <1>12, <1>13, UpTo
<1> QED
  BY <1>2, <1>11, <1>14 DEF S, L, V, Targets


\* A prefix of a target is where the target begins.
LEMMA Prefixes ==
    \A t, name, esc : Targets(t, name, esc) /\ name \in Seq(WS!Chars) =>
        \A j, m \in 0..Len(name) : j <= m =>
            /\ Len(t[j]) <= Len(t[m])
            /\ \A i \in 1..Len(t[j]) : t[m][i] = t[j][i]
<1> SUFFICES ASSUME NEW t, NEW name \in Seq(WS!Chars), NEW esc, Targets(t, name, esc),
                    NEW j \in 0..Len(name)
             PROVE  \A m \in 0..Len(name) : j <= m =>
                        /\ Len(t[j]) <= Len(t[m])
                        /\ \A i \in 1..Len(t[j]) : t[m][i] = t[j][i]
  OBVIOUS
<1> DEFINE L == Len(name)
           V == Seq(Letters)
           begins(m) == /\ Len(t[j]) <= Len(t[m])
                        /\ \A i \in 1..Len(t[j]) : t[m][i] = t[j][i]
           S == {m \in 0..L : j <= m => begins(m)}
<1>1. L \in Nat /\ j \in 0..L
  OBVIOUS
<1>2. \A m \in 0..L : t[m] \in V
  BY DEF Targets
<1>3. ASSUME NEW m \in 1..L
      PROVE  \E w \in V : t[m] = t[m - 1] \o w
  <2>1. WS!Sent(name, esc, m) \in V
    BY SentFacts
  <2>2. t[m] = t[m - 1] \o WS!Sent(name, esc, m)
    BY DEF Targets
  <2> QED
    BY <2>1, <2>2
<1>4. begins(j)
  <2>1. Len(t[j]) \in Nat
    BY <1>1, <1>2
  <2> QED
    BY <2>1
<1> HIDE DEF L
<1>5. ASSUME NEW m \in 1..L, begins(m - 1) PROVE begins(m)
  <2>1. PICK w \in V : t[m] = t[m - 1] \o w
    BY <1>3
  <2>2. m - 1 \in 0..L
    BY <1>1
  <2>3. t[m - 1] \in V /\ t[j] \in V
    BY <1>1, <1>2, <2>2
  <2> DEFINE u == t[m - 1]
  <2> HIDE DEF u
  <2>4. /\ Len(u \o w) >= Len(u) /\ Len(u) \in Nat /\ Len(t[j]) \in Nat
        /\ \A i \in 1..Len(u) : (u \o w)[i] = u[i]
    BY <2>3 DEF u
  <2>5. Len(u \o w) \in Nat
    BY <2>3 DEF u
  <2>6. t[m] = u \o w
    BY <2>1 DEF u
  <2>7. Len(t[j]) <= Len(u) /\ \A i \in 1..Len(t[j]) : u[i] = t[j][i]
    BY <1>5 DEF u
  <2>8. \A i \in 1..Len(t[j]) : i \in 1..Len(u)
    BY <2>4, <2>7
  <2> QED
    BY <2>4, <2>5, <2>6, <2>7, <2>8
<1> HIDE DEF begins
<1>6. 0 \in S
  BY <1>1, <1>4
<1>7. ASSUME NEW m \in 1..L, m - 1 \in S PROVE m \in S
  <2>1. m \in 0..L /\ (j <= m => j = m \/ j <= m - 1)
    BY <1>1
  <2> QED
    BY <1>4, <1>5, <1>7, <2>1
<1> HIDE DEF S, V
<1>8. 0..L \subseteq S
  BY <1>1, <1>6, <1>7, UpTo
<1> QED
  BY <1>8 DEF S, L, begins

\* read is what percent_decode has read of s up to each place.
Reads(read, s) ==
    /\ read[0] = [out |-> <<>>, next |-> 1]
    /\ \A n \in 1..Len(s) : read[n] = WS!ReadOn(s, n, read[n - 1])

\* percent_decode reads a target place by place.
LEMMA ReadsFacts ==
    \A s \in Seq(Letters) :
        \E read : Reads(read, s) /\ WS!PercentDecode(s) = read[Len(s)].out
<1> SUFFICES ASSUME NEW s \in Seq(Letters)
             PROVE  \E read : Reads(read, s) /\ WS!PercentDecode(s) = read[Len(s)].out
  OBVIOUS
<1> DEFINE L == Len(s)
           R == [out : Seq(Letters), next : Nat]
           first == [out |-> <<>>, next |-> 1]
           G == [p \in (1..L) \X R |-> WS!ReadOn(s, p[1], p[2])]
           U == [n \in 0..L |-> R]
           read == CHOOSE f : f = [n \in 0..L |->
                       IF n = 0 THEN first ELSE WS!ReadOn(s, n, f[n - 1])]
<1>1. L \in Nat /\ \A n \in 1..L : s[n] \in Letters
  OBVIOUS
<1>2. WS!PercentDecode(s) = read[L].out
  BY DEF WS!PercentDecode
<1>3. first \in R
  OBVIOUS
<1>4. ASSUME NEW n \in 1..L, NEW v \in R PROVE WS!ReadOn(s, n, v) \in R
  <2>1. v.out \in Seq(Letters) /\ n + 1 \in Nat /\ n + 3 \in Nat /\ s[n] \in Letters
    BY <1>1
  <2>2. ASSUME WS!IsEscape(s, n) PROVE WS!Unescape[SubSeq(s, n, n + 2)] \in Letters
    BY <2>2, Escapes DEF WS!IsEscape, Letters
  <2> HIDE DEF Letters
  <2>3. \A a \in Letters : Append(v.out, a) \in Seq(Letters)
    BY <2>1
  <2> QED
    BY <2>1, <2>2, <2>3 DEF WS!ReadOn
<1> HIDE DEF L, R, first
<1>5. \A n \in 1..L, v \in R : G[<<n, v>>] = WS!ReadOn(s, n, v)
  OBVIOUS
<1>6. PICK f : Recursive(f, L, first, G)
  BY <1>1, RecursionDefines
<1>7. \A n \in 0..L : f[n] \in R
  <2>1. \A n \in 1..L : \A v \in U[n - 1] : G[<<n, v>>] \in U[n]
    <3> SUFFICES ASSUME NEW n \in 1..L, NEW v \in U[n - 1] PROVE G[<<n, v>>] \in U[n]
      OBVIOUS
    <3>1. U[n - 1] = R /\ U[n] = R
      BY <1>1
    <3> QED
      BY <1>4, <1>5, <3>1
  <2>2. first \in U[0]
    BY <1>1, <1>3
  <2> HIDE DEF U, G
  <2>3. \A n \in 0..L : f[n] \in U[n]
    BY <1>1, <1>6, <2>1, <2>2, RecursionIn
  <2> QED
    BY <2>3 DEF U
<1>8. f = [n \in 0..L |-> IF n = 0 THEN first ELSE WS!ReadOn(s, n, f[n - 1])]
  <2>1. ASSUME NEW n \in 0..L, n # 0 PROVE G[<<n, f[n - 1]>>] = WS!ReadOn(s, n, f[n - 1])
    <3>1. n \in 1..L /\ n - 1 \in 0..L
      BY <1>1, <2>1
    <3> QED
      BY <1>5, <1>7, <3>1
  <2> HIDE DEF G
  <2>2. f = [n \in 0..L |-> IF n = 0 THEN first ELSE G[<<n, f[n - 1]>>]]
    BY <1>6 DEF Recursive
  <2> QED
    BY <2>1, <2>2
<1>9. read = [n \in 0..L |-> IF n = 0 THEN first ELSE WS!ReadOn(s, n, read[n - 1])]
  BY <1>8
<1> HIDE DEF read, G, U
<1>10. read[0] = first
  BY <1>1, <1>9
<1>11. \A n \in 1..L : read[n] = WS!ReadOn(s, n, read[n - 1])
  <2>1. \A n \in 0..L : read[n] = IF n = 0 THEN first ELSE WS!ReadOn(s, n, read[n - 1])
    BY <1>9
  <2>2. \A n \in 1..L : n \in 0..L /\ n # 0
    BY <1>1
  <2> QED
    BY <2>1, <2>2
<1> QED
  BY <1>2, <1>10, <1>11 DEF Reads, L, first


\* Up to place k, out was read, and the next place is where reading goes on.
Read(read, k, out) == read[k] = [out |-> out, next |-> k + 1]

\* A character that is no percent sign is read as it is.
LEMMA ReadsPlain ==
    \A read, out, c : \A s \in Seq(Letters), k \in Nat :
        (/\ Reads(read, s) /\ Read(read, k, out)
         /\ k + 1 <= Len(s) /\ s[k + 1] = c /\ c # "%")
        => Read(read, k + 1, Append(out, c))
<1> TAKE read, out, c
<1> TAKE s \in Seq(Letters), k \in Nat
<1> HAVE /\ Reads(read, s) /\ Read(read, k, out)
         /\ k + 1 <= Len(s) /\ s[k + 1] = c /\ c # "%"
<1> HIDE DEF Letters
<1>1. ASSUME WS!IsEscape(s, k + 1) PROVE FALSE
  <2> DEFINE e == SubSeq(s, k + 1, k + 1 + 2)
  <2>1. k + 3 <= Len(s) /\ e \in DOMAIN WS!Unescape
    BY <1>1 DEF WS!IsEscape
  <2>2. e[1] = s[k + 1]
    BY <2>1
  <2> HIDE DEF e
  <2> QED
    BY <2>1, <2>2, Escapes
<1>2. read[k + 1] = WS!ReadOn(s, k + 1, read[k])
  <2>1. k + 1 \in 1..Len(s) /\ (k + 1) - 1 = k
    OBVIOUS
  <2> QED
    BY <2>1 DEF Reads
<1>3. read[k].next = k + 1 /\ read[k].out = out
  BY DEF Read
<1> QED
  BY <1>1, <1>2, <1>3 DEF WS!ReadOn, Read

\* An escape is read as the character it means; the places inside are passed by.
LEMMA ReadsEscape ==
    \A read, out : \A s \in Seq(Letters), k \in Nat, c \in WS!Chars :
        (/\ Reads(read, s) /\ Read(read, k, out) /\ k + 3 <= Len(s)
         /\ \A i \in 1..3 : s[k + i] = WS!Escape[c][i])
        => Read(read, k + 3, Append(out, c))
<1> TAKE read, out
<1> TAKE s \in Seq(Letters), k \in Nat, c \in WS!Chars
<1> HAVE /\ Reads(read, s) /\ Read(read, k, out) /\ k + 3 <= Len(s)
         /\ \A i \in 1..3 : s[k + i] = WS!Escape[c][i]
<1> HIDE DEF Letters
<1> DEFINE x == [out |-> Append(out, c), next |-> k + 4]
<1>1. SubSeq(s, k + 1, k + 1 + 2) = WS!Escape[c]
  <2> DEFINE e == SubSeq(s, k + 1, k + 1 + 2)
             w == WS!Escape[c]
  <2>1. w \in Seq(Letters) /\ Len(w) = 3
    BY Escapes
  <2>2. e \in Seq(Letters) /\ Len(e) = 3 /\ \A i \in 1..3 : e[i] = s[k + 1 + i - 1]
    <3>1. k + 1 \in 1..Len(s) + 1 /\ k + 1 + 2 \in 0..Len(s) /\ k + 1 + 2 >= k + 1
      OBVIOUS
    <3>2. e \in Seq(Letters) /\ Len(e) = k + 1 + 2 - (k + 1) + 1
      BY <3>1
    <3>3. \A i \in 1..3 : e[i] = s[k + 1 + i - 1]
      BY <3>1, <3>2
    <3> QED
      BY <3>2, <3>3
  <2>3. \A i \in 1..3 : k + 1 + i - 1 = k + i
    OBVIOUS
  <2>4. \A i \in 1..3 : e[i] = w[i]
    BY <2>2, <2>3
  <2> HIDE DEF e, w
  <2> QED
    BY <2>1, <2>2, <2>4 DEF e, w
<1>2. /\ read[k + 1] = WS!ReadOn(s, k + 1, read[k])
      /\ read[k + 2] = WS!ReadOn(s, k + 2, read[k + 1])
      /\ read[k + 3] = WS!ReadOn(s, k + 3, read[k + 2])
  <2>1. /\ k + 1 \in 1..Len(s) /\ (k + 1) - 1 = k
        /\ k + 2 \in 1..Len(s) /\ (k + 2) - 1 = k + 1
        /\ k + 3 \in 1..Len(s) /\ (k + 3) - 1 = k + 2
    OBVIOUS
  <2> QED
    BY <2>1 DEF Reads
<1>3. read[k + 1] = x
  <2>1. read[k].next = k + 1 /\ read[k].out = out /\ k + 1 + 3 = k + 4 /\ k + 1 + 2 <= Len(s)
    BY DEF Read
  <2>2. WS!IsEscape(s, k + 1) /\ WS!Unescape[SubSeq(s, k + 1, k + 1 + 2)] = c
    BY <1>1, <2>1, Escapes DEF WS!IsEscape
  <2> QED
    BY <1>2, <2>1, <2>2 DEF WS!ReadOn
<1>4. x.next # k + 2 /\ x.next # k + 3
  OBVIOUS
<1> HIDE DEF x
<1>5. read[k + 2] = x
  BY <1>2, <1>3, <1>4 DEF WS!ReadOn
<1>6. read[k + 3] = x
  BY <1>2, <1>4, <1>5 DEF WS!ReadOn
<1> QED
  BY <1>6 DEF x, Read

\* percent_decode gives back what the client asked for, whatever it escaped.
LEMMA DecodeFacts ==
    \A esc : \A name \in Seq(WS!Chars) :
        WS!PercentDecode(WS!Encoded(name, esc)) = <<"/">> \o name
<1> SUFFICES ASSUME NEW esc, NEW name \in Seq(WS!Chars)
             PROVE  WS!PercentDecode(WS!Encoded(name, esc)) = <<"/">> \o name
  OBVIOUS
<1>1. PICK t : Targets(t, name, esc) /\ WS!Encoded(name, esc) = t[Len(name)]
  BY EncodedFacts
<1> DEFINE L == Len(name)
           s == t[L]
           text(j) == [i \in 1..j + 1 |-> IF i = 1 THEN "/" ELSE name[i - 1]]
<1>2. L \in Nat /\ \A j \in 1..L : name[j] \in WS!Chars
  OBVIOUS
<1>3. \A j \in 0..L : t[j] \in Seq(Letters) /\ Len(t[j]) \in Nat
  BY <1>1 DEF Targets
<1>4. s \in Seq(Letters)
  BY <1>2, <1>3
<1> HIDE DEF s
<1>5. PICK read : Reads(read, s) /\ WS!PercentDecode(s) = read[Len(s)].out
  BY <1>4, ReadsFacts
<1> DEFINE done(j) == Read(read, Len(t[j]), text(j))
           S == {j \in 0..L : done(j)}
<1>6. \A j \in 0..L : Len(t[j]) <= Len(s) /\ \A i \in 1..Len(t[j]) : s[i] = t[j][i]
  BY <1>1, <1>2, Prefixes DEF s
<1>7. \A j \in 1..L : text(j) = Append(text(j - 1), name[j])
  <2> SUFFICES ASSUME NEW j \in 1..L PROVE text(j) = Append(text(j - 1), name[j])
    OBVIOUS
  <2> DEFINE C == Letters
  <2>1. "/" \in C /\ \A i \in 1..L : name[i] \in C
    BY DEF Letters, WS!Chars
  <2> HIDE DEF C
  <2>2. text(j - 1) \in Seq(C) /\ Len(text(j - 1)) = j
    BY <1>2, <2>1
  <2>3. \A i \in 1..j : text(j - 1)[i] = text(j)[i]
    BY <1>2
  <2>4. text(j)[j + 1] = name[j] /\ text(j) \in Seq(C) /\ Len(text(j)) = j + 1
    BY <1>2, <2>1
  <2> DEFINE p == text(j)
             q == text(j - 1)
             z == name[j]
  <2> HIDE DEF p, q
  <2>5. p \in Seq(C) /\ q \in Seq(C) /\ z \in C /\ Len(q) = j /\ Len(p) = j + 1
        /\ (\A i \in 1..j : q[i] = p[i]) /\ p[j + 1] = z
    BY <2>1, <2>2, <2>3, <2>4 DEF p, q
  <2> HIDE DEF z
  <2>6. p = Append(q, z)
    BY <2>5
  <2> QED
    BY <2>6 DEF p, q, z
<1> HIDE DEF text
<1>8. done(0)
  <2>1. t[0] = <<"/">> /\ Len(t[0]) = 1
    BY <1>1 DEF Targets
  <2>2. 0 \in 0..L
    BY <1>2
  <2>3. 0 + 1 <= Len(s) /\ s[0 + 1] = "/"
    BY <1>6, <2>1, <2>2
  <2>4. Read(read, 0, <<>>)
    BY <1>5 DEF Reads, Read
  <2>5. Read(read, 0 + 1, Append(<<>>, "/"))
    BY <1>4, <1>5, <2>3, <2>4, ReadsPlain
  <2>6. Append(<<>>, "/") = text(0)
    BY DEF text
  <2> QED
    BY <2>1, <2>5, <2>6
<1>9. ASSUME NEW j \in 1..L, done(j - 1) PROVE done(j)
  <2> DEFINE k == Len(t[j - 1])
             c == name[j]
             w == WS!Sent(name, esc, j)
  <2>1. j - 1 \in 0..L /\ j \in 0..L /\ c \in WS!Chars
    BY <1>2
  <2>2. t[j - 1] \in Seq(Letters) /\ k \in Nat /\ t[j] \in Seq(Letters)
    BY <1>3, <2>1
  <2>3. t[j] = t[j - 1] \o w /\ w \in Seq(Letters)
    BY <1>1, SentFacts DEF Targets
  <2>4. \/ w = WS!Escape[c]
        \/ w = <<c>> /\ c # "%"
    BY SentFacts
  <2> HIDE DEF w, c
  <2> DEFINE u == t[j - 1]
  <2>5. Len(u \o w) = k + Len(w) /\ \A i \in 1..Len(w) : (u \o w)[k + i] = w[i]
    BY <2>2, <2>3
  <2>6. Len(t[j]) = k + Len(w) /\ \A i \in 1..Len(w) : t[j][k + i] = w[i]
    BY <2>3, <2>5
  <2> HIDE DEF k, u
  <2>7. /\ k + Len(w) <= Len(s)
        /\ \A i \in 1..Len(w) : s[k + i] = w[i]
    <3>1. Len(w) \in Nat
      BY <2>3
    <3>2. \A i \in 1..Len(w) : k + i \in 1..Len(t[j])
      BY <2>2, <2>6, <3>1
    <3> QED
      BY <1>6, <2>1, <2>6, <3>2
  <2>8. Read(read, k, text(j - 1))
    BY <1>9 DEF k
  <2>9. Read(read, k + Len(w), Append(text(j - 1), c))
    <3>1. CASE w = WS!Escape[c]
      <4>1. Len(w) = 3
        BY <2>1, <3>1, Escapes
      <4>2. k + 3 <= Len(s) /\ \A i \in 1..3 : s[k + i] = WS!Escape[c][i]
        BY <2>7, <3>1, <4>1
      <4>3. Read(read, k + 3, Append(text(j - 1), c))
        BY <1>4, <1>5, <2>1, <2>2, <2>8, <4>2, ReadsEscape
      <4> QED
        BY <4>1, <4>3
    <3>2. CASE w = <<c>> /\ c # "%"
      <4>1. Len(w) = 1 /\ w[1] = c
        BY <3>2
      <4>2. k + 1 <= Len(s) /\ s[k + 1] = c
        BY <2>7, <4>1
      <4>3. Read(read, k + 1, Append(text(j - 1), c))
        BY <1>4, <1>5, <2>2, <2>8, <3>2, <4>2, ReadsPlain
      <4> QED
        BY <4>1, <4>3
    <3> QED
      BY <2>4, <3>1, <3>2
  <2> QED
    BY <1>7, <2>6, <2>9 DEF c
<1> HIDE DEF done, L
<1>10. 0 \in S
  BY <1>2, <1>8
<1>11. ASSUME NEW j \in 1..L, j - 1 \in S PROVE j \in S
  <2>1. j \in 0..L /\ done(j - 1)
    BY <1>2, <1>11
  <2> QED
    BY <1>9, <2>1
<1> HIDE DEF S
<1>12. L \in S
  <2>1. L \in 0..L
    BY <1>2
  <2>2. 0..L \subseteq S
    BY <1>2, <1>10, <1>11, UpTo
  <2> QED
    BY <2>1, <2>2
<1>13. read[Len(s)].out = text(L)
  <2>1. Read(read, Len(s), text(L))
    BY <1>12 DEF S, done, s
  <2> QED
    BY <2>1 DEF Read
<1>14. text(L) = <<"/">> \o name
  <2> DEFINE C == Letters
  <2>1. "/" \in C /\ name \in Seq(C)
    BY DEF Letters, WS!Chars
  <2> HIDE DEF C
  <2>2. text(L) \in Seq(C) /\ Len(text(L)) = L + 1 /\ text(L)[1] = "/"
        /\ \A i \in 1..L : text(L)[i + 1] = name[i]
    BY <1>2, <2>1 DEF text, L
  <2>3. \A i \in 1..L : (<<"/">> \o name)[i + 1] = name[i]
    BY <1>2, <2>1 DEF L
  <2>4. <<"/">> \o name \in Seq(C) /\ Len(<<"/">> \o name) = L + 1 /\ (<<"/">> \o name)[1] = "/"
    BY <1>2, <2>1 DEF L
  <2> DEFINE p == text(L)
             q == <<"/">> \o name
  <2> HIDE DEF p, q
  <2>5. \A i \in 1..L + 1 : p[i] = q[i]
    <3>1. \A i \in 1..L + 1 : i = 1 \/ \E k \in 1..L : i = k + 1
      <4> SUFFICES ASSUME NEW i \in 1..L + 1, i # 1 PROVE \E k \in 1..L : i = k + 1
        OBVIOUS
      <4>1. i - 1 \in 1..L /\ i = (i - 1) + 1
        BY <1>2
      <4> QED
        BY <4>1
    <3> QED
      BY <2>2, <2>3, <2>4, <3>1 DEF p, q
  <2>6. p = q
    BY <1>2, <2>2, <2>4, <2>5 DEF p, q
  <2> QED
    BY <2>6 DEF p, q
<1> QED
  BY <1>1, <1>5, <1>13, <1>14 DEF s, L


\* What resolve_file leaves of a path is made of its characters.
LEMMA TrimmedFacts == \A path \in Seq(WS!Chars) : WS!Trimmed(path) \in Seq(WS!Chars)
<1> SUFFICES ASSUME NEW path \in Seq(WS!Chars) PROVE WS!Trimmed(path) \in Seq(WS!Chars)
  OBVIOUS
<1> DEFINE rest == {i \in 1..Len(path) : path[i] # "/"}
           first == CHOOSE i \in rest : \A j \in rest : i <= j
<1>1. WS!Trimmed(path) = IF rest = {} THEN <<>> ELSE SubSeq(path, first, Len(path))
  BY DEF WS!Trimmed
<1>2. ASSUME rest # {} PROVE first \in 1..Len(path)
  <2>1. rest \subseteq Nat /\ rest \subseteq 1..Len(path)
    OBVIOUS
  <2>2. \E i \in rest : \A j \in rest : i <= j
    BY <1>2, <2>1, LeastOf
  <2> HIDE DEF rest
  <2>3. first \in rest
    BY <2>2
  <2> QED
    BY <2>1, <2>3
<1> HIDE DEF first, rest
<1>3. ASSUME first \in 1..Len(path) PROVE SubSeq(path, first, Len(path)) \in Seq(WS!Chars)
  BY <1>3
<1> QED
  BY <1>1, <1>2, <1>3

\* Only names the host accepts are files of the folder.
LEMMA OnlyPlainFiles ==
    \A name \in Seq(WS!Chars) :
        name \in Files /\ name \notin {<<".">>, <<".", ".">>} => WS!Plain(name)
<1> SUFFICES ASSUME NEW name \in Seq(WS!Chars), name \in Files,
                    name \notin {<<".">>, <<".", ".">>}
             PROVE  WS!Plain(name)
  OBVIOUS
<1>1. name # WS!INDEX
  <2> SUFFICES ASSUME name = <<"index">> PROVE FALSE
    BY DEF WS!INDEX
  <2>1. name[1] = "index" /\ 1 \in 1..Len(name)
    OBVIOUS
  <2>2. name[1] \in WS!Chars
    BY <2>1
  <2> QED
    BY <2>1, <2>2 DEF WS!Chars
<1>2. name \in Seq({".", "2", "a"})
  BY <1>1, WebAssumption, Zenon
<1>3. \A i \in DOMAIN name : name[i] \in {".", "2", "a"}
  BY <1>2
<1> QED
  BY <1>3 DEF WS!Plain

\* A file has a name.
LEMMA Named == <<>> \notin Files
<1>1. <<>> # WS!INDEX
  BY DEF WS!INDEX
<1> QED
  BY <1>1, WebAssumption, Zenon

\* What is answered to a path is what its name asks for, of the files given out.
LEMMA ResolveFacts ==
    \A found \in SUBSET Files : \A path \in Seq(WS!Chars) :
        LET f == WS!Resolve(path)
            asked == IF WS!Trimmed(path) = <<>> THEN WS!INDEX ELSE WS!Trimmed(path)
        IN  (IF f \in found THEN f ELSE WS!NotFound)
              = IF asked \in found \ {<<".">>, <<".", ".">>} THEN asked ELSE WS!NotFound
<1> SUFFICES ASSUME NEW found \in SUBSET Files, NEW path \in Seq(WS!Chars)
             PROVE  LET f == WS!Resolve(path)
                        asked == IF WS!Trimmed(path) = <<>> THEN WS!INDEX
                                 ELSE WS!Trimmed(path)
                    IN  (IF f \in found THEN f ELSE WS!NotFound)
                          = IF asked \in found \ {<<".">>, <<".", ".">>} THEN asked
                            ELSE WS!NotFound
  OBVIOUS
<1> DEFINE name == WS!Trimmed(path)
           f == WS!Resolve(path)
           dots == {<<".">>, <<".", ".">>}
<1>1. name \in Seq(WS!Chars)
  BY TrimmedFacts
<1>2. f = CASE name = <<>> -> WS!INDEX
            [] name # <<>> /\ WS!Plain(name) -> name
            [] OTHER -> <<>>
  BY DEF WS!Resolve
<1>3. WS!INDEX \notin dots
  BY DEF WS!INDEX
<1>4. WS!Plain(name) => name \notin dots
  BY DEF WS!Plain
<1>5. name \in Files /\ name \notin dots => WS!Plain(name)
  BY <1>1, OnlyPlainFiles
<1>6. <<>> \notin found
  BY Named
<1> HIDE DEF name, f, dots
<1>7. (IF f \in found THEN f ELSE WS!NotFound)
        = IF (IF name = <<>> THEN WS!INDEX ELSE name) \in found \ dots
          THEN (IF name = <<>> THEN WS!INDEX ELSE name) ELSE WS!NotFound
  <2>1. CASE name = <<>>
    BY <1>2, <1>3, <2>1
  <2>2. CASE name # <<>> /\ WS!Plain(name)
    BY <1>2, <1>4, <2>2
  <2>3. CASE name # <<>> /\ ~WS!Plain(name)
    <3>1. f = <<>>
      BY <1>2, <2>3
    <3>2. f \notin found
      BY <1>6, <3>1
    <3> QED
      BY <1>5, <2>3, <3>2
  <2> QED
    BY <2>1, <2>2, <2>3
<1> QED
  BY <1>7 DEF name, f, dots

\* Whatever is resolved, from a whole path or not, is no name or a plain one.
LEMMA ResolvePlain ==
    \A path : LET f == WS!Resolve(path) IN f = <<>> \/ f = WS!INDEX \/ WS!Plain(f)
BY DEF WS!Resolve

-----------------------------------------------------------------------------
(* webserver: the listener and its connections.                            *)

WebInv ==
    /\ elapsed \in Nat /\ WS!HeldBriefly
    /\ bound = listener /\ (loaded \/ shown = 0)
    /\ WS!SendsWhatWasAsked /\ WS!ShowsBoundPort

\* Nothing is heard and shown at the start.
LEMMA WebInit == WS!Init => WebInv
<1> SUFFICES ASSUME WS!Init PROVE WebInv
  OBVIOUS
<1>1. 0 < Budget + WriteTimeout
  BY WebAssumption DEF WS!MaxReads
<1>2. reply = <<>> /\ elapsed = 0 /\ bound = listener /\ shown = 0 /\ conn = WS!NoConn
  BY DEF WS!Init
<1>3. WS!HeldBriefly /\ elapsed \in Nat
  BY <1>1, <1>2 DEF WS!HeldBriefly
<1>4. WS!SendsWhatWasAsked
  <2>1. conn.name = <<>> /\ conn.readable = FALSE
    BY <1>2 DEF WS!NoConn
  <2>2. WS!Given(FALSE) = {}
    BY DEF WS!Given
  <2> QED
    BY <1>2, <2>1, <2>2, Zenon DEF WS!SendsWhatWasAsked
<1> QED
  BY <1>2, <1>3, <1>4 DEF WebInv, WS!ShowsBoundPort

\* Any answer is a file that is given out, of a plain name, or an error.
LEMMA AnswerPlain ==
    ASSUME NEW name, NEW sent, WS!Answer(name, sent)
    PROVE  LET found == WS!Given(conn'.readable)
           IN  /\ conn'.name = name /\ found \in SUBSET Files
               /\ reply' = LET f == WS!Resolve(WS!PercentDecode(sent))
                           IN  IF f \in found THEN f ELSE WS!NotFound
               /\ reply' \in found \cup {<<>>, WS!NotFound, WS!BadRequest}
               /\ reply' \in found => reply' = WS!INDEX \/ WS!Plain(reply')
<1> DEFINE f == WS!Resolve(WS!PercentDecode(sent))
<1>1. PICK readable \in BOOLEAN :
          /\ conn' = [name |-> name, readable |-> readable]
          /\ \/ f \in WS!Given(readable) /\ reply' = f
             \/ f \notin WS!Given(readable) /\ reply' = WS!NotFound
  BY DEF WS!Answer
<1>2. f = <<>> \/ f = WS!INDEX \/ WS!Plain(f)
  BY ResolvePlain
<1> HIDE DEF f
<1>3. conn'.name = name /\ conn'.readable = readable
  BY <1>1
<1> DEFINE found == WS!Given(readable)
<1>4. found \in SUBSET Files
  BY DEF WS!Given
<1>5. <<>> \notin found
  BY <1>4, Named
<1>6. WS!NotFound \notin found
  <2> SUFFICES ASSUME <<"404">> \in Files PROVE FALSE
    BY <1>4 DEF WS!NotFound
  <2>1. <<"404">> \in Seq({".", "2", "a"})
    <3>1. <<"404">> # WS!INDEX
      <4> SUFFICES ASSUME <<"404">> = <<"index">> PROVE FALSE
        BY DEF WS!INDEX
      <4> QED
        OBVIOUS
    <3> QED
      BY <3>1, WebAssumption, Zenon
  <2>2. <<"404">>[1] \in {".", "2", "a"}
    BY <2>1
  <2> QED
    BY <2>2
<1> HIDE DEF found
<1>7. /\ reply' = IF f \in found THEN f ELSE WS!NotFound
      /\ reply' \in found \cup {<<>>, WS!NotFound, WS!BadRequest}
      /\ reply' \in found => reply' = WS!INDEX \/ WS!Plain(reply')
  BY <1>1, <1>2, <1>5, <1>6, Zenon DEF found
<1> QED
  BY <1>3, <1>4, <1>7 DEF f, found

\* A request that arrives whole is answered with what was asked.
LEMMA AcceptStep ==
    ASSUME WS!Accept
    PROVE  WS!SendsWhatWasAsked'
<1>1. PICK name \in WS!Names : \E sent \in WS!Encodings(name) :
          WS!Answer(<<"/">> \o name, sent)
  BY Zenon DEF WS!Accept
<1>2. PICK esc : WS!Answer(<<"/">> \o name, WS!Encoded(name, esc))
  BY <1>1 DEF WS!Encodings
<1>3. name \in Seq(WS!Chars)
  BY DEF WS!Names
<1> DEFINE path == <<"/">> \o name
           found == WS!Given(conn'.readable)
           f == WS!Resolve(path)
<1>4. path \in Seq(WS!Chars)
  <2>1. "/" \in WS!Chars
    BY DEF WS!Chars
  <2> QED
    BY <1>3, <2>1
<1>5. WS!PercentDecode(WS!Encoded(name, esc)) = path
  BY <1>3, DecodeFacts
<1> HIDE DEF path, f, found
<1>6. /\ conn'.name = path /\ found \in SUBSET Files
      /\ reply' = IF f \in found THEN f ELSE WS!NotFound
      /\ reply' \in found \cup {<<>>, WS!NotFound, WS!BadRequest}
      /\ reply' \in found => reply' = WS!INDEX \/ WS!Plain(reply')
  BY <1>2, <1>5, AnswerPlain DEF path, f, found
<1>7. reply' = LET asked == IF WS!Trimmed(path) = <<>> THEN WS!INDEX ELSE WS!Trimmed(path)
               IN  IF asked \in found \ {<<".">>, <<".", ".">>} THEN asked ELSE WS!NotFound
  BY <1>4, <1>6, ResolveFacts DEF f
<1> QED
  BY <1>6, <1>7, Zenon DEF WS!SendsWhatWasAsked, found

\* A target that is cut short is answered with a plain file or an error.
LEMMA AcceptCutStep ==
    ASSUME WS!AcceptCut
    PROVE  WS!SendsWhatWasAsked'
<1>1. PICK sent : WS!Answer(<<"cut">>, sent)
  BY DEF WS!AcceptCut
<1>2. Head(<<"cut">>) # "/"
  OBVIOUS
<1> DEFINE found == WS!Given(conn'.readable)
<1>3. /\ conn'.name = <<"cut">>
      /\ reply' \in found \cup {<<>>, WS!NotFound, WS!BadRequest}
      /\ reply' \in found => reply' = WS!INDEX \/ WS!Plain(reply')
  BY <1>1, AnswerPlain
<1> QED
  BY <1>2, <1>3, Zenon DEF WS!SendsWhatWasAsked

\* Nothing is given out on a connection whose file is not read.
LEMMA NothingGiven ==
    ASSUME NEW name, name = <<>> \/ Head(name) # "/",
           conn' = [name |-> name, readable |-> FALSE],
           reply' = <<>> \/ reply' = WS!BadRequest
    PROVE  WS!SendsWhatWasAsked'
<1>1. conn'.name = name /\ conn'.readable = FALSE
  OBVIOUS
<1>2. WS!Given(FALSE) = {}
  BY DEF WS!Given
<1> QED
  BY <1>1, <1>2, Zenon DEF WS!SendsWhatWasAsked

\* Each action of the web server keeps the invariant.
LEMMA WebStep ==
    ASSUME WebInv, WS!Next
    PROVE  WebInv'
<1>1. 0 < Budget + WriteTimeout /\ WriteTimeout \in Nat /\ Budget \in Nat
      /\ \A t \in 0..WS!MaxReads : t \in Nat /\ t < Budget + WriteTimeout
  BY WebAssumption DEF WS!MaxReads
<1> USE DEF WebInv, WS!still
<1>2. ASSUME UNCHANGED WS!still
      PROVE  elapsed' \in Nat /\ WS!HeldBriefly' /\ WS!SendsWhatWasAsked'
  BY <1>2, Zenon DEF WS!HeldBriefly, WS!SendsWhatWasAsked
<1>3. ASSUME UNCHANGED <<loaded, port, bound, listener, shown>>
      PROVE  bound' = listener' /\ (loaded \/ shown = 0)' /\ WS!ShowsBoundPort'
  BY <1>3, Zenon DEF WS!ShowsBoundPort
<1>4. CASE WS!Load
  BY <1>2, <1>4 DEF WS!Load, WS!ShowsBoundPort
<1>5. CASE WS!Unload
  BY <1>2, <1>5 DEF WS!Unload, WS!ShowsBoundPort
<1>6. CASE WS!Configure
  BY <1>2, <1>6 DEF WS!Configure, WS!ShowsBoundPort
<1>7. CASE WS!Enter
  BY <1>2, <1>7 DEF WS!Enter, WS!ShowsBoundPort
<1>8. CASE WS!Leave
  BY <1>2, <1>8 DEF WS!Leave, WS!ShowsBoundPort
<1>9. ASSUME WS!Connect, NEW reads \in 0..WS!MaxReads, WS!Read(reads), WS!SendsWhatWasAsked'
      PROVE  WebInv'
  <2>1. PICK t \in 0..reads : elapsed' = t
    BY <1>9 DEF WS!Read
  <2>2. t \in 0..WS!MaxReads
    BY <2>1 DEF WS!MaxReads
  <2>3. elapsed' \in Nat /\ WS!HeldBriefly'
    BY <1>1, <2>1, <2>2 DEF WS!HeldBriefly
  <2> QED
    BY <1>3, <1>9, <2>3 DEF WS!Connect
<1>10. WS!MaxReads \in 0..WS!MaxReads /\ 1 \in 0..WS!MaxReads
  BY DEF WS!MaxReads
<1>11. CASE WS!Accept
  BY <1>9, <1>10, <1>11, AcceptStep DEF WS!Accept
<1>12. CASE WS!AcceptCut
  BY <1>9, <1>10, <1>12, AcceptCutStep DEF WS!AcceptCut
<1>13. CASE WS!AcceptBad
  <2>1. Head(<<"bad">>) # "/"
    OBVIOUS
  <2>2. WS!SendsWhatWasAsked'
    BY <1>13, <2>1, NothingGiven, Zenon DEF WS!AcceptBad
  <2> QED
    BY <1>9, <1>10, <1>13, <2>2 DEF WS!AcceptBad
<1>14. CASE WS!AcceptSilent
  <2>1. Head(<<"silent">>) # "/"
    OBVIOUS
  <2>2. WS!SendsWhatWasAsked'
    BY <1>14, <2>1, NothingGiven, Zenon DEF WS!AcceptSilent
  <2> QED
    BY <1>9, <1>10, <1>14, <2>2 DEF WS!AcceptSilent
<1>15. CASE WS!Write
  <2>1. UNCHANGED <<loaded, port, bound, listener, shown>> /\ UNCHANGED <<conn, reply>>
        /\ WS!MayWrite /\ \E t \in 0..WriteTimeout : elapsed' = elapsed + t
    BY <1>15, Zenon DEF WS!Write
  <2>2. elapsed' \in Nat /\ WS!HeldBriefly'
    BY <1>1, <2>1 DEF WS!HeldBriefly, WS!MayWrite
  <2>3. WS!SendsWhatWasAsked'
    BY <2>1, Zenon DEF WS!SendsWhatWasAsked
  <2> QED
    BY <1>3, <2>1, <2>2, <2>3
<1>16. CASE WS!NextPart
  <2>1. UNCHANGED <<loaded, port, bound, listener, shown>> /\ UNCHANGED <<conn, elapsed, reply>>
    BY <1>16, Zenon DEF WS!NextPart
  <2>2. elapsed' \in Nat /\ WS!HeldBriefly' /\ WS!SendsWhatWasAsked'
    BY <2>1, Zenon DEF WS!HeldBriefly, WS!SendsWhatWasAsked
  <2> QED
    BY <1>3, <2>1, <2>2
<1>17. CASE WS!Close
  <2>1. UNCHANGED <<loaded, port, bound, listener, shown>> /\ elapsed' = 0 /\ reply' = <<>>
        /\ conn' = WS!NoConn
    BY <1>17, Zenon DEF WS!Close
  <2>2. elapsed' \in Nat /\ WS!HeldBriefly'
    BY <1>1, <2>1 DEF WS!HeldBriefly
  <2>3. WS!SendsWhatWasAsked'
    BY <2>1, NothingGiven, Zenon DEF WS!NoConn
  <2> QED
    BY <1>3, <2>1, <2>2, <2>3
<1> QED
  BY <1>4, <1>5, <1>6, <1>7, <1>8, <1>11, <1>12, <1>13, <1>14, <1>15, <1>16, <1>17
  DEF WS!Next

\* A client of the web server gets the file of the name it asked for, whatever
\* its characters and however they are escaped, or a 404 when there is none, it
\* is too large or it is not read; one that stops in the middle gets such a file
\* of a plain name or an error.  It reaches the server where the screen says,
\* while there is a listener, and gives the plugin back in time.
THEOREM ServesWhatIsAsked == Spec => []ServesAsAsked
<1>1. Init => WebInv
  BY WebInit DEF Init
<1>2. WebInv /\ [Next]_vars => WebInv'
  <2> SUFFICES ASSUME WebInv, [Next]_vars PROVE WebInv'
    OBVIOUS
  <2>1. CASE UNCHANGED ws
    BY <2>1, Zenon DEF ws, WebInv, WS!HeldBriefly, WS!SendsWhatWasAsked, WS!ShowsBoundPort
  <2> QED
    BY <2>1, WebStep, StepOfEach
<1>3. WebInv => ServesAsAsked
  BY DEF WebInv, ServesAsAsked, WS!ServesAsAsked
<1> QED
  BY <1>1, <1>2, <1>3, PTL DEF Spec

-----------------------------------------------------------------------------
(* news_feed: what parse_feed_entries lists of a document.                 *)

Docs == Seq(NF!Tokens)
Opens(b, n) == b[n] = NF!Tags(b)[1]
Closes(b, n) == b[n] = NF!Tags(b)[2]
Titled(b, n) == b[n] \in {"title", "empty"}

\* A tag is one thing only.
LEMMA TagFacts ==
    \A b : \A n : /\ ~(Opens(b, n) /\ Closes(b, n))
                  /\ ~(Titled(b, n) /\ (Opens(b, n) \/ Closes(b, n)))
<1> TAKE b
<1> TAKE n
<1>1. \/ NF!Tags(b) = <<"<entry", "</entry>">>
      \/ NF!Tags(b) = <<"<item", "</item>">>
  BY DEF NF!Tags
<1>2. \/ NF!Tags(b)[1] = "<entry" /\ NF!Tags(b)[2] = "</entry>"
      \/ NF!Tags(b)[1] = "<item" /\ NF!Tags(b)[2] = "</item>"
  BY <1>1
<1> QED
  BY <1>2 DEF Opens, Closes, Titled

\* Find finds the first of the tokens it looks for.
LEMMA FindFacts ==
    \A tok : \A b \in Docs : \A c \in 1..Len(b) + 1 :
        \/ NF!Find(b, tok, c) = 0 /\ \A k \in c..Len(b) : b[k] # tok
        \/ /\ NF!Find(b, tok, c) \in c..Len(b) /\ b[NF!Find(b, tok, c)] = tok
           /\ \A k \in c..(NF!Find(b, tok, c) - 1) : b[k] # tok
<1> TAKE tok
<1> TAKE b \in Docs
<1> TAKE c \in 1..Len(b) + 1
<1> DEFINE N == c..Len(b)
           first == CHOOSE n \in N : b[n] = tok /\ \A k \in c..(n - 1) : b[k] # tok
<1>1. NF!Find(b, tok, c) = IF \E n \in N : b[n] = tok THEN first ELSE 0
  BY DEF NF!Find
<1>2. ASSUME \E n \in N : b[n] = tok
      PROVE  first \in N /\ b[first] = tok /\ \A k \in c..(first - 1) : b[k] # tok
  <2> DEFINE T == {n \in N : b[n] = tok}
  <2>1. Len(b) \in Nat
    BY DEF Docs
  <2>2. T \subseteq Nat /\ T # {}
    BY <1>2, <2>1
  <2>3. PICK n \in T : \A k \in T : n <= k
    BY <2>2, LeastOf
  <2>4. n \in N /\ b[n] = tok
    BY <2>3
  <2>5. \A k \in c..(n - 1) : k \in N /\ ~(n <= k)
    BY <2>1, <2>4
  <2>6. \A k \in c..(n - 1) : b[k] # tok
    BY <2>3, <2>5
  <2>7. \E m \in N : b[m] = tok /\ \A k \in c..(m - 1) : b[k] # tok
    BY <2>4, <2>6
  <2> QED
    BY <2>7, Zenon
<1> HIDE DEF first
<1>3. CASE \E n \in N : b[n] = tok
  BY <1>1, <1>2, <1>3
<1>4. CASE ~\E n \in N : b[n] = tok
  BY <1>1, <1>4
<1> QED
  BY <1>3, <1>4

\* extract_first_entry gives the title of an entry when it is its first.
LEMMA ExtractFacts ==
    \A b \in Docs : \A s, e \in 1..Len(b) :
        LET x == NF!ExtractFirstEntry(b, s, e)
        IN  \/ /\ x = <<>>
               /\ \A t \in s..(e - 1) : b[t] = "title" => \E k \in s..(t - 1) : Titled(b, k)
            \/ \E t \in s..(e - 1) :
                  x = <<t>> /\ b[t] = "title" /\ \A k \in s..(t - 1) : ~Titled(b, k)
<1> TAKE b \in Docs
<1> TAKE s, e \in 1..Len(b)
<1> DEFINE N == s..(e - 1)
           is(n) == /\ n # 0 => b[n] \in {"title", "empty"}
                    /\ \A k \in s..((IF n = 0 THEN e ELSE n) - 1) : b[k] \notin {"title", "empty"}
           first == CHOOSE n \in N \cup {0} : is(n)
           x == NF!ExtractFirstEntry(b, s, e)
<1>1. x = IF first # 0 /\ b[first] = "title" THEN <<first>> ELSE <<>>
  BY DEF NF!ExtractFirstEntry
<1>2. s \in Nat /\ e \in Nat /\ s > 0
  BY DEF Docs
<1>3. \E n \in N \cup {0} : is(n)
  <2> DEFINE T == {n \in N : Titled(b, n)}
  <2>1. CASE T = {}
    <3>1. \A k \in N : b[k] \notin {"title", "empty"}
      BY <2>1 DEF Titled
    <3>2. is(0)
      BY <3>1
    <3> QED
      BY <3>2
  <2>2. CASE T # {}
    <3>1. T \subseteq Nat
      BY <1>2
    <3>2. PICK n \in T : \A k \in T : n <= k
      BY <2>2, <3>1, LeastOf
    <3>3. n \in N /\ n # 0 /\ Titled(b, n)
      BY <1>2, <3>2
    <3>4. \A k \in s..(n - 1) : k \in N /\ ~(n <= k)
      BY <1>2, <3>3
    <3>5. \A k \in s..(n - 1) : ~Titled(b, k)
      BY <3>2, <3>4
    <3>6. is(n)
      BY <3>3, <3>5 DEF Titled
    <3> QED
      BY <3>3, <3>6
  <2> QED
    BY <2>1, <2>2
<1> HIDE DEF is, N
<1>4. first \in N \cup {0} /\ is(first)
  BY <1>3, Zenon
<1> HIDE DEF first, x
<1>5. CASE first = 0
  <2>1. \A k \in N : ~Titled(b, k)
    BY <1>4, <1>5 DEF is, N, Titled
  <2>2. x = <<>>
    BY <1>1, <1>5
  <2>3. \A t \in N : b[t] # "title"
    BY <2>1 DEF Titled
  <2> QED
    BY <2>2, <2>3 DEF N, x
<1>6. CASE first # 0
  <2>1. first \in N /\ Titled(b, first) /\ \A k \in s..(first - 1) : ~Titled(b, k)
    BY <1>4, <1>6 DEF is, Titled
  <2>2. CASE b[first] = "title"
    <3>1. x = <<first>>
      BY <1>1, <1>6, <2>2
    <3> QED
      BY <2>1, <2>2, <3>1 DEF N, x
  <2>3. CASE b[first] # "title"
    <3>1. x = <<>>
      BY <1>1, <2>3
    <3>2. ASSUME NEW t \in N, b[t] = "title" PROVE \E k \in s..(t - 1) : Titled(b, k)
      <4>1. Titled(b, t) /\ t # first
        BY <2>3, <3>2 DEF Titled
      <4>2. ~(t < first)
        BY <1>2, <2>1, <4>1 DEF N
      <4>3. first \in s..(t - 1)
        BY <1>2, <2>1, <4>1, <4>2 DEF N
      <4> QED
        BY <2>1, <4>3
    <3> QED
      BY <3>1, <3>2 DEF N, x
  <2> QED
    BY <2>2, <2>3
<1> QED
  BY <1>5, <1>6


\* In a well-formed feed every entry that opens closes, and before the next one.
LEMMA WellFormedFacts ==
    \A b \in Docs : NF!WellFormed(b) =>
        /\ \A s \in 1..Len(b) : Opens(b, s) => \E k \in s..Len(b) : Closes(b, k)
        /\ \A s, o \in 1..Len(b) : s < o /\ Opens(b, s) /\ Opens(b, o) =>
               \E k \in s..(o - 1) : Closes(b, k)
<1> TAKE b \in Docs
<1> HAVE NF!WellFormed(b)
<1> DEFINE opens(n) == {k \in 1..n : b[k] = NF!Tags(b)[1]}
           closes(n) == {k \in 1..n : b[k] = NF!Tags(b)[2]}
           latest(n) == CHOOSE k \in opens(n) : \A j \in opens(n) : j <= k
           depth(n) == IF opens(n) = {} THEN 0
                       ELSE IF \E k \in closes(n) : k > latest(n) THEN 0 ELSE 1
<1>1. /\ depth(Len(b)) = 0
      /\ \A n \in DOMAIN b : b[n] = NF!Tags(b)[1] => n = 1 \/ depth(n - 1) = 0
  BY DEF NF!WellFormed
<1>2. Len(b) \in Nat /\ DOMAIN b = 1..Len(b)
  BY DEF Docs
<1>3. ASSUME NEW n \in Nat, depth(n) = 0, NEW s \in 1..n, Opens(b, s)
      PROVE  \E k \in s..n : Closes(b, k)
  <2>1. s \in opens(n)
    BY <1>3 DEF Opens
  <2> DEFINE T == {n - k : k \in opens(n)}
  <2>2. T \subseteq Nat /\ T # {}
    BY <2>1
  <2>3. PICK x \in T : \A y \in T : x <= y
    BY <2>2, LeastOf
  <2>4. PICK m \in opens(n) : x = n - m
    BY <2>3
  <2>5. \A j \in opens(n) : j <= m
    <3> SUFFICES ASSUME NEW j \in opens(n) PROVE j <= m
      OBVIOUS
    <3>1. n - j \in T
      OBVIOUS
    <3>2. n - m <= n - j
      BY <2>3, <2>4, <3>1
    <3>3. j \in Nat /\ m \in Nat
      BY <1>3
    <3> QED
      BY <3>2, <3>3
  <2> HIDE DEF opens, T
  <2>6. latest(n) \in opens(n) /\ \A j \in opens(n) : j <= latest(n)
    BY <2>5, Zenon
  <2> HIDE DEF latest
  <2>7. PICK k \in closes(n) : k > latest(n)
    BY <1>3, <2>1
  <2>8. s <= latest(n) /\ latest(n) \in 1..n
    BY <2>1, <2>6 DEF opens
  <2>9. k \in 1..n /\ Closes(b, k)
    BY DEF closes, Closes
  <2>10. k \in s..n
    BY <1>3, <2>7, <2>8, <2>9
  <2> QED
    BY <2>9, <2>10
<1> HIDE DEF depth
<1>4. ASSUME NEW s \in 1..Len(b), Opens(b, s) PROVE \E k \in s..Len(b) : Closes(b, k)
  BY <1>1, <1>2, <1>3, <1>4
<1>5. ASSUME NEW s \in 1..Len(b), NEW o \in 1..Len(b), s < o, Opens(b, s), Opens(b, o)
      PROVE  \E k \in s..(o - 1) : Closes(b, k)
  <2>1. o # 1 /\ o - 1 \in Nat /\ s \in 1..o - 1
    BY <1>2, <1>5
  <2>2. depth(o - 1) = 0
    BY <1>1, <1>2, <1>5, <2>1 DEF Opens
  <2> QED
    BY <1>3, <1>5, <2>1, <2>2
<1> QED
  BY <1>4, <1>5

\* What a title of an entry is.
LEMMA TitleFacts ==
    \A b \in Docs : \A t :
        t \in NF!TitlesOf(b) <=>
            /\ t \in 1..Len(b) /\ b[t] = "title"
            /\ \E s \in 1..(t - 1) :
                  Opens(b, s) /\ \A k \in (s + 1)..(t - 1) : ~Titled(b, k) /\ ~Closes(b, k)
<1> TAKE b \in Docs
<1> TAKE t
<1>1. DOMAIN b = 1..Len(b)
  BY DEF Docs
<1>2. \A k : b[k] \notin {"title", "empty", NF!Tags(b)[2]} <=> ~Titled(b, k) /\ ~Closes(b, k)
  BY Zenon DEF Titled, Closes
<1>3. t \in NF!TitlesOf(b) <=>
          /\ t \in 1..Len(b) /\ b[t] = "title"
          /\ \E s \in 1..(t - 1) :
                b[s] = NF!Tags(b)[1] /\ \A k \in (s + 1)..(t - 1) :
                                           b[k] \notin {"title", "empty", NF!Tags(b)[2]}
  BY <1>1, Zenon DEF NF!TitlesOf
<1> QED
  BY <1>2, <1>3, Zenon DEF Opens

\* No entry is open where r goes on, and its titles are those before that.
ListedTo(b, r) ==
    /\ r.cursor \in 1..Len(b) + 1 /\ r.titles \in Seq(1..Len(b))
    /\ r.cursor = 1 \/ Closes(b, r.cursor - 1)
    /\ Len(r.titles) <= MaxHeadlines
    /\ \A i \in 1..Len(r.titles) : /\ r.titles[i] \in NF!TitlesOf(b)
                                    /\ r.titles[i] < r.cursor
    /\ \A i, j \in 1..Len(r.titles) : i < j => r.titles[i] < r.titles[j]
    /\ \A t \in NF!TitlesOf(b) :
          t < r.cursor => \E i \in 1..Len(r.titles) : r.titles[i] = t

\* The list is full or no title is left.
AllListed(b, r) ==
    \/ Len(r.titles) = MaxHeadlines
    \/ \A t \in NF!TitlesOf(b) : t < r.cursor

\* A title behind the cursor belongs to an entry that opens there.
LEMMA TitlesBehind ==
    \A b \in Docs, c \in Nat : c = 1 \/ Closes(b, c - 1) =>
        \A t \in NF!TitlesOf(b) : t >= c /\ c >= 1 =>
            \E s \in c..(t - 1) :
                Opens(b, s) /\ \A k \in (s + 1)..(t - 1) : ~Titled(b, k) /\ ~Closes(b, k)
<1> TAKE b \in Docs, c \in Nat
<1> HAVE c = 1 \/ Closes(b, c - 1)
<1> TAKE t \in NF!TitlesOf(b)
<1> HAVE t >= c /\ c >= 1
<1>1. t \in 1..Len(b) /\ Len(b) \in Nat
  BY TitleFacts DEF Docs
<1>2. PICK s \in 1..(t - 1) :
          Opens(b, s) /\ \A k \in (s + 1)..(t - 1) : ~Titled(b, k) /\ ~Closes(b, k)
  BY TitleFacts
<1>3. s >= c
  <2> SUFFICES ASSUME s < c PROVE FALSE
    BY <1>1, <1>2
  <2>1. Closes(b, c - 1)
    BY <1>2
  <2>2. s # c - 1
    BY <1>2, <2>1, TagFacts
  <2>3. c - 1 \in (s + 1)..(t - 1)
    BY <1>1, <1>2, <2>2
  <2> QED
    BY <1>2, <2>1, <2>3
<1> QED
  BY <1>1, <1>2, <1>3

\* One round lists the title of the next entry, if it has one.
LEMMA EntryListed ==
    \A b \in Docs : \A r : NF!WellFormed(b) /\ ListedTo(b, r) =>
        LET s == NF!Find(b, NF!Tags(b)[1], r.cursor)
            e == NF!Find(b, NF!Tags(b)[2], s)
        IN  s # 0 /\ e # 0 =>
              /\ s \in r.cursor..Len(b) /\ e \in (s + 1)..Len(b) /\ Closes(b, e)
              /\ \/ /\ NF!ExtractFirstEntry(b, s, e) = <<>>
                    /\ \A t \in NF!TitlesOf(b) : t <= e => t < r.cursor
                 \/ \E x \in NF!TitlesOf(b) :
                       /\ NF!ExtractFirstEntry(b, s, e) = <<x>> /\ r.cursor <= x /\ x < e
                       /\ \A t \in NF!TitlesOf(b) : t <= e => t < r.cursor \/ t = x
<1> TAKE b \in Docs
<1> TAKE r
<1> HAVE NF!WellFormed(b) /\ ListedTo(b, r)
<1> DEFINE c == r.cursor
           s == NF!Find(b, NF!Tags(b)[1], c)
           e == NF!Find(b, NF!Tags(b)[2], s)
           T == NF!TitlesOf(b)
           X == NF!ExtractFirstEntry(b, s, e)
<1> SUFFICES ASSUME s # 0, e # 0
             PROVE  /\ s \in c..Len(b) /\ e \in (s + 1)..Len(b) /\ Closes(b, e)
                    /\ \/ /\ X = <<>>
                          /\ \A t \in T : t <= e => t < c
                       \/ \E x \in T :
                             /\ X = <<x>> /\ c <= x /\ x < e
                             /\ \A t \in T : t <= e => t < c \/ t = x
  BY Zenon
<1>1. Len(b) \in Nat /\ c \in 1..Len(b) + 1 /\ (c = 1 \/ Closes(b, c - 1))
  BY DEF Docs, ListedTo
<1>2. /\ s \in c..Len(b) /\ Opens(b, s) /\ \A k \in c..(s - 1) : ~Opens(b, k)
  BY <1>1, FindFacts DEF Opens
<1>3. e # 0
  OBVIOUS
<1> HIDE DEF s, c
<1>4. s \in 1..Len(b) /\ s \in 1..Len(b) + 1
  BY <1>1, <1>2
<1>5. e \in s..Len(b) /\ Closes(b, e) /\ \A k \in s..(e - 1) : ~Closes(b, k)
  BY <1>4, <1>3, FindFacts DEF Closes
<1> HIDE DEF e
<1>6. e \in (s + 1)..Len(b) /\ e \in 1..Len(b)
  <2>1. e # s
    BY <1>2, <1>5, TagFacts
  <2> QED
    BY <1>1, <1>4, <1>5, <2>1
<1>7. ASSUME NEW t \in T, t <= e, ~(t < c)
      PROVE  t \in (s + 1)..(e - 1) /\ b[t] = "title" /\ \A k \in s..(t - 1) : ~Titled(b, k)
  <2>1. t \in 1..Len(b) /\ b[t] = "title"
    BY TitleFacts
  <2>2. PICK o \in c..(t - 1) :
            Opens(b, o) /\ \A k \in (o + 1)..(t - 1) : ~Titled(b, k) /\ ~Closes(b, k)
    BY <1>1, <1>7, <2>1, TitlesBehind
  <2>3. t # e
    BY <1>5, <2>1, TagFacts DEF Titled
  <2>4. o >= s
    BY <1>1, <1>2, <2>1, <2>2
  <2>5. o = s
    <3> SUFFICES ASSUME s < o PROVE FALSE
      BY <1>4, <2>1, <2>2, <2>4
    <3>1. o \in 1..Len(b)
      BY <1>1, <2>1, <2>2
    <3>2. PICK k \in s..(o - 1) : Closes(b, k)
      BY <1>2, <1>4, <2>2, <3>1, WellFormedFacts
    <3>3. k \in s..(e - 1)
      BY <1>1, <1>4, <1>6, <1>7, <2>1, <2>2, <3>1, <3>2
    <3> QED
      BY <1>5, <3>2, <3>3
  <2>6. t \in (s + 1)..(e - 1)
    BY <1>4, <1>6, <1>7, <2>1, <2>2, <2>3, <2>5
  <2>7. \A k \in s..(t - 1) : k = s \/ k \in (s + 1)..(t - 1)
    BY <1>4, <2>6
  <2> QED
    BY <1>2, <2>1, <2>2, <2>5, <2>6, <2>7, TagFacts
<1>8. \/ /\ X = <<>>
         /\ \A t \in s..(e - 1) : b[t] = "title" => \E k \in s..(t - 1) : Titled(b, k)
      \/ \E t \in s..(e - 1) :
            X = <<t>> /\ b[t] = "title" /\ \A k \in s..(t - 1) : ~Titled(b, k)
  BY <1>4, <1>6, ExtractFacts
<1> HIDE DEF X
<1>9. CASE /\ X = <<>>
           /\ \A t \in s..(e - 1) : b[t] = "title" => \E k \in s..(t - 1) : Titled(b, k)
  <2>1. \A t \in T : t <= e => t < c
    <3> SUFFICES ASSUME NEW t \in T, t <= e, ~(t < c) PROVE FALSE
      OBVIOUS
    <3>1. t \in s..(e - 1) /\ b[t] = "title" /\ \A k \in s..(t - 1) : ~Titled(b, k)
      BY <1>4, <1>6, <1>7
    <3> QED
      BY <1>9, <3>1
  <2> QED
    BY <1>2, <1>5, <1>6, <1>9, <2>1 DEF X, s, e, c
<1>10. ASSUME NEW x \in s..(e - 1),
             X = <<x>>, b[x] = "title", \A k \in s..(x - 1) : ~Titled(b, k)
      PROVE  x \in T /\ X = <<x>> /\ c <= x /\ x < e /\ \A t \in T : t <= e => t < c \/ t = x
  <2>1. x # s
    BY <1>2, <1>10, TagFacts DEF Titled
  <2>2. s \in 1..(x - 1) /\ x \in 1..Len(b) /\ c <= x /\ x < e
    BY <1>1, <1>2, <1>4, <1>6, <1>10, <2>1
  <2>3. \A k \in (s + 1)..(x - 1) : k \in s..(x - 1) /\ k \in s..(e - 1)
    BY <1>4, <1>6, <1>10
  <2>4. x \in T
    BY <1>2, <1>5, <1>10, <2>2, <2>3, TitleFacts
  <2>5. ASSUME NEW t \in T, t <= e, ~(t < c) PROVE t = x
    <3>1. t \in (s + 1)..(e - 1) /\ b[t] = "title" /\ \A k \in s..(t - 1) : ~Titled(b, k)
      BY <1>7, <2>5
    <3>2. Titled(b, t) /\ Titled(b, x)
      BY <1>10, <3>1 DEF Titled
    <3>3. ~(t < x)
      BY <1>4, <1>10, <3>1, <3>2
    <3>4. ~(x < t)
      BY <1>4, <1>10, <3>1, <3>2
    <3> QED
      BY <1>4, <1>6, <3>1, <3>3, <3>4
  <2> QED
    BY <1>10, <2>2, <2>4, <2>5
<1>11. CASE \E t \in s..(e - 1) :
            X = <<t>> /\ b[t] = "title" /\ \A k \in s..(t - 1) : ~Titled(b, k)
  <2>1. PICK x \in s..(e - 1) :
            X = <<x>> /\ b[x] = "title" /\ \A k \in s..(x - 1) : ~Titled(b, k)
    BY <1>11
  <2>2. x \in T /\ X = <<x>> /\ c <= x /\ x < e /\ \A t \in T : t <= e => t < c \/ t = x
    BY <1>10, <2>1
  <2> QED
    BY <1>2, <1>5, <1>6, <2>2 DEF X, s, e, c
<1> QED
  BY <1>8, <1>9, <1>11


\* A title behind the ones of a list, in front of what comes, goes at its end.
LEMMA ListTitle ==
    \A b \in Docs : \A r, x, e :
        /\ ListedTo(b, r) /\ Len(r.titles) < MaxHeadlines
        /\ x \in NF!TitlesOf(b) /\ r.cursor <= x /\ x < e /\ e \in 1..Len(b) /\ Closes(b, e)
        /\ \A t \in NF!TitlesOf(b) : t <= e => t < r.cursor \/ t = x
        => ListedTo(b, [cursor |-> e + 1, titles |-> r.titles \o <<x>>])
<1> SUFFICES ASSUME NEW b \in Docs, NEW r, NEW x, NEW e,
                    ListedTo(b, r), Len(r.titles) < MaxHeadlines,
                    x \in NF!TitlesOf(b), r.cursor <= x, x < e, e \in 1..Len(b), Closes(b, e),
                    \A t \in NF!TitlesOf(b) : t <= e => t < r.cursor \/ t = x
             PROVE  ListedTo(b, [cursor |-> e + 1, titles |-> r.titles \o <<x>>])
  BY Zenon
<1> DEFINE T == NF!TitlesOf(b)
           c == r.cursor
           q == r.titles
           p == q \o <<x>>
           D == 1..Len(b)
<1>1. Len(b) \in Nat /\ x \in D /\ c \in 1..Len(b) + 1 /\ q \in Seq(D)
  BY TitleFacts DEF ListedTo, Docs
<1>2. /\ \A i \in 1..Len(q) : q[i] \in T /\ q[i] < c
      /\ \A i, j \in 1..Len(q) : i < j => q[i] < q[j]
      /\ \A t \in T : t < c => \E i \in 1..Len(q) : q[i] = t
  BY DEF ListedTo
<1> HIDE DEF c, q, T, D
<1>3. /\ p \in Seq(D) /\ Len(p) = Len(q) + 1 /\ p[Len(q) + 1] = x
      /\ \A i \in 1..Len(q) : p[i] = q[i]
  BY <1>1
<1>4. Len(q) \in Nat /\ Len(q) < MaxHeadlines
  BY <1>1 DEF q
<1> HIDE DEF p
<1>5. \A i \in 1..Len(p) : i \in 1..Len(q) \/ i = Len(q) + 1
  BY <1>3, <1>4
<1>6. x \in Nat /\ c \in Nat /\ e \in Nat /\ c <= x /\ x < e /\ \A i \in 1..Len(q) : q[i] \in Nat
  BY <1>1 DEF D, c
<1>7. \A i \in 1..Len(p) : p[i] \in T /\ p[i] < e + 1
  <2> SUFFICES ASSUME NEW i \in 1..Len(p) PROVE p[i] \in T /\ p[i] < e + 1
    OBVIOUS
  <2>1. CASE i \in 1..Len(q)
    BY <1>2, <1>3, <1>6, <2>1
  <2>2. CASE i = Len(q) + 1
    BY <1>3, <1>6, <2>2 DEF T
  <2> QED
    BY <1>5, <2>1, <2>2
<1>8. \A i, j \in 1..Len(p) : i < j => p[i] < p[j]
  <2> SUFFICES ASSUME NEW i \in 1..Len(p), NEW j \in 1..Len(p), i < j PROVE p[i] < p[j]
    OBVIOUS
  <2>1. i \in 1..Len(q)
    BY <1>3, <1>4, <1>5
  <2>2. CASE j \in 1..Len(q)
    BY <1>2, <1>3, <2>1, <2>2
  <2>3. CASE j = Len(q) + 1
    <3>1. q[i] < c /\ p[i] = q[i] /\ p[j] = x /\ q[i] \in Nat
      BY <1>2, <1>3, <1>6, <2>1, <2>3
    <3> QED
      BY <1>6, <3>1
  <2> QED
    BY <1>5, <2>2, <2>3
<1>9. ASSUME NEW t \in T, t < e + 1 PROVE \E i \in 1..Len(p) : p[i] = t
  <2>1. t \in Nat
    BY <1>1, TitleFacts DEF T
  <2>2. t < c \/ t = x
    BY <1>6, <1>9, <2>1 DEF T, c
  <2>3. CASE t < c
    <3>1. PICK i \in 1..Len(q) : q[i] = t
      BY <1>2, <2>3
    <3>2. i \in 1..Len(p) /\ p[i] = t
      BY <1>3, <1>4, <3>1
    <3> QED
      BY <3>2
  <2>4. CASE t = x
    <3>1. Len(q) + 1 \in 1..Len(p)
      BY <1>3, <1>4
    <3> QED
      BY <1>3, <2>4, <3>1
  <2> QED
    BY <2>2, <2>3, <2>4
<1> DEFINE v == [cursor |-> e + 1, titles |-> p]
<1>10. v.cursor = e + 1 /\ v.titles = p
  OBVIOUS
<1>11. e + 1 \in 1..Len(b) + 1 /\ Closes(b, (e + 1) - 1) /\ Len(p) <= MaxHeadlines
  <2>1. (e + 1) - 1 = e /\ e + 1 \in 1..Len(b) + 1
    BY <1>1
  <2>2. Len(p) <= MaxHeadlines
    BY <1>3, <1>4, FeedAssumption
  <2> QED
    BY <2>1, <2>2
<1> HIDE DEF v
<1>12. ListedTo(b, v)
  BY <1>3, <1>7, <1>8, <1>9, <1>10, <1>11 DEF ListedTo, T, D
<1> QED
  BY <1>12 DEF v, p, q

\* A round keeps the list, and goes on unless all is listed.
LEMMA RoundFacts ==
    \A b \in Docs : \A r : NF!WellFormed(b) /\ ListedTo(b, r) =>
        /\ ListedTo(b, NF!ReadEntry(b, r))
        /\ AllListed(b, r) => AllListed(b, NF!ReadEntry(b, r))
        /\ AllListed(b, r) \/ NF!ReadEntry(b, r).cursor > r.cursor
<1> SUFFICES ASSUME NEW b \in Docs, NEW r, NF!WellFormed(b), ListedTo(b, r)
             PROVE  /\ ListedTo(b, NF!ReadEntry(b, r))
                    /\ AllListed(b, r) => AllListed(b, NF!ReadEntry(b, r))
                    /\ AllListed(b, r) \/ NF!ReadEntry(b, r).cursor > r.cursor
  BY Zenon
<1> DEFINE s == NF!Find(b, NF!Tags(b)[1], r.cursor)
           f == NF!Find(b, NF!Tags(b)[2], s)
           e == IF s = 0 THEN 0 ELSE f
           X == NF!ExtractFirstEntry(b, s, e)
           on == [cursor |-> e + 1, titles |-> r.titles \o X]
           T == NF!TitlesOf(b)
<1>1. NF!ReadEntry(b, r) = IF Len(r.titles) < MaxHeadlines /\ e # 0 THEN on ELSE r
  BY DEF NF!ReadEntry
<1>2. Len(b) \in Nat /\ r.cursor \in 1..Len(b) + 1 /\ Len(r.titles) \in Nat
      /\ Len(r.titles) <= MaxHeadlines /\ MaxHeadlines \in Nat
      /\ (r.cursor = 1 \/ Closes(b, r.cursor - 1)) /\ r.titles \in Seq(1..Len(b))
  BY FeedAssumption DEF ListedTo, Docs
<1>3. CASE ~(Len(r.titles) < MaxHeadlines)
  <2>1. NF!ReadEntry(b, r) = r
    BY <1>1, <1>3
  <2>2. Len(r.titles) = MaxHeadlines
    BY <1>2, <1>3
  <2> QED
    BY <2>1, <2>2 DEF AllListed
<1>4. CASE e = 0
  <2>1. NF!ReadEntry(b, r) = r
    BY <1>1, <1>4
  <2>2. ASSUME NEW t \in T, ~(t < r.cursor) PROVE FALSE
    <3>1. t \in 1..Len(b)
      BY TitleFacts
    <3>2. PICK o \in r.cursor..(t - 1) : Opens(b, o)
      <4>1. r.cursor \in Nat /\ t >= r.cursor /\ r.cursor >= 1
        BY <1>2, <2>2, <3>1
      <4> HIDE DEF s, f
      <4> QED
        BY <1>2, <4>1, TitlesBehind
    <3>3. o \in r.cursor..Len(b) /\ o \in 1..Len(b)
      BY <1>2, <3>1, <3>2
    <3>4. s \in r.cursor..Len(b) /\ Opens(b, s)
      <4> DEFINE tok == NF!Tags(b)[1]
                 c == r.cursor
                 z == NF!Find(b, tok, c)
      <4>1. c \in 1..Len(b) + 1 /\ ~(\A k \in c..Len(b) : b[k] # tok)
        BY <1>2, <3>2, <3>3 DEF Opens
      <4>2. s = z
        OBVIOUS
      <4> HIDE DEF tok, c, z, s, f
      <4>3. z \in c..Len(b) /\ b[z] = tok
        BY <4>1, FindFacts DEF z
      <4> QED
        BY <4>2, <4>3 DEF Opens, tok, c
    <3> HIDE DEF s
    <3>5. s \in 1..Len(b) /\ s \in 1..Len(b) + 1 /\ s # 0
      BY <1>2, <3>4
    <3>6. f = 0
      BY <1>4, <3>5
    <3> HIDE DEF f
    <3>7. \A k \in s..Len(b) : ~Closes(b, k)
      <4>1. f = 0 => \A k \in s..Len(b) : ~Closes(b, k)
        <5>1. \A n \in s..Len(b) : n # 0
          BY <3>5
        <5> QED
          BY <3>5, <5>1, FindFacts DEF Closes, f
      <4> QED
        BY <3>6, <4>1
    <3> QED
      BY <3>4, <3>5, <3>7, WellFormedFacts
  <2>3. AllListed(b, r)
    BY <2>2 DEF AllListed
  <2> QED
    BY <2>1, <2>3
<1>5. CASE Len(r.titles) < MaxHeadlines /\ e # 0
  <2>1. NF!ReadEntry(b, r) = on
    BY <1>1, <1>5
  <2>2. s # 0 /\ f # 0 /\ e = f
    BY <1>5
  <2>3. /\ s \in r.cursor..Len(b) /\ f \in (s + 1)..Len(b) /\ Closes(b, f)
        /\ \/ /\ NF!ExtractFirstEntry(b, s, f) = <<>>
              /\ \A t \in T : t <= f => t < r.cursor
           \/ \E x \in T :
                 /\ NF!ExtractFirstEntry(b, s, f) = <<x>> /\ r.cursor <= x /\ x < f
                 /\ \A t \in T : t <= f => t < r.cursor \/ t = x
    BY <2>2, EntryListed
  <2> HIDE DEF s, f, T
  <2>4. e \in 1..Len(b) /\ e > r.cursor /\ Closes(b, e) /\ e + 1 > r.cursor
    BY <1>2, <2>2, <2>3
  <2>5. /\ \/ X = <<>> /\ \A t \in T : t <= e => t < r.cursor
           \/ \E x \in T : /\ X = <<x>> /\ r.cursor <= x /\ x < e
                           /\ \A t \in T : t <= e => t < r.cursor \/ t = x
    BY <2>2, <2>3
  <2> HIDE DEF X, e
  <2>6. on.cursor = e + 1 /\ on.titles = r.titles \o X
    OBVIOUS
  <2> HIDE DEF on
  <2>7. \A t \in T : t \in Nat
    BY <1>2, TitleFacts DEF T
  <2>8. ListedTo(b, on)
    <3>1. CASE X = <<>> /\ \A t \in T : t <= e => t < r.cursor
      <4>1. on.titles = r.titles
        BY <1>2, <2>6, <3>1
      <4>2. on.cursor \in 1..Len(b) + 1 /\ Closes(b, on.cursor - 1)
        <5>1. (e + 1) - 1 = e /\ e + 1 \in 1..Len(b) + 1
          BY <1>2, <2>4
        <5> QED
          BY <2>4, <2>6, <5>1
      <4>3. \A t \in T : t < on.cursor <=> t < r.cursor
        <5>1. \A t \in T : t < e + 1 <=> t < r.cursor
          BY <1>2, <2>4, <2>7, <3>1
        <5> QED
          BY <2>6, <5>1
      <4> QED
        BY <4>1, <4>2, <4>3 DEF ListedTo, T
    <3>2. CASE \E x \in T : /\ X = <<x>> /\ r.cursor <= x /\ x < e
                            /\ \A t \in T : t <= e => t < r.cursor \/ t = x
      <4>1. PICK x \in T : /\ X = <<x>> /\ r.cursor <= x /\ x < e
                           /\ \A t \in T : t <= e => t < r.cursor \/ t = x
        BY <3>2
      <4>2. on = [cursor |-> e + 1, titles |-> r.titles \o <<x>>]
        BY <4>1 DEF on
      <4>3. ListedTo(b, [cursor |-> e + 1, titles |-> r.titles \o <<x>>])
        BY <1>5, <2>4, <4>1, ListTitle DEF T
      <4> QED
        BY <4>2, <4>3
    <3> QED
      BY <2>5, <3>1, <3>2
  <2>9. ASSUME AllListed(b, r) PROVE AllListed(b, on)
    <3>1. \A t \in T : t < r.cursor
      BY <1>5, <1>2, <2>9 DEF AllListed, T
    <3>2. \A t \in T : t < e + 1
      BY <1>2, <2>4, <2>7, <3>1
    <3> QED
      BY <2>6, <3>2 DEF AllListed, T
  <2> QED
    BY <2>1, <2>4, <2>6, <2>8, <2>9
<1> QED
  BY <1>3, <1>4, <1>5


\* What is listed of a document: its titles in order, up to the cap.
TitlesListed(b, rows) ==
    LET titles == NF!TitlesOf(b)
        listed == {rows[i] : i \in DOMAIN rows}
    IN  /\ listed \subseteq titles /\ Len(rows) <= MaxHeadlines
        /\ \A i, j \in DOMAIN rows : i < j => rows[i] < rows[j]
        /\ \A t \in titles \ listed : /\ Len(rows) = MaxHeadlines
                                      /\ \A n \in listed : n < t

\* A list that is full, or behind which no title is left, is what is to be listed.
LEMMA AllIsListed ==
    \A b \in Docs : \A r : ListedTo(b, r) /\ AllListed(b, r) => TitlesListed(b, r.titles)
<1> SUFFICES ASSUME NEW b \in Docs, NEW r, ListedTo(b, r), AllListed(b, r)
             PROVE  TitlesListed(b, r.titles)
  OBVIOUS
<1> DEFINE T == NF!TitlesOf(b)
           rows == r.titles
           listed == {rows[i] : i \in DOMAIN rows}
<1>1. DOMAIN rows = 1..Len(rows) /\ Len(rows) <= MaxHeadlines
  BY DEF ListedTo
<1>2. /\ \A i \in DOMAIN rows : rows[i] \in T /\ rows[i] < r.cursor
      /\ \A i, j \in DOMAIN rows : i < j => rows[i] < rows[j]
      /\ \A t \in T : t < r.cursor => \E i \in DOMAIN rows : rows[i] = t
  BY <1>1 DEF ListedTo
<1>3. \A t \in T : t \in Nat
  <2>1. Len(b) \in Nat
    BY DEF Docs
  <2> QED
    BY <2>1, TitleFacts
<1>4. r.cursor \in Nat
  BY DEF ListedTo, Docs
<1> HIDE DEF rows
<1>5. listed \subseteq T /\ \A n \in listed : n < r.cursor
  BY <1>2
<1>6. \A t \in T \ listed : ~(t < r.cursor)
  BY <1>2
<1> HIDE DEF listed, T
<1>7. ASSUME NEW t \in T \ listed
      PROVE  Len(rows) = MaxHeadlines /\ \A n \in listed : n < t
  <2>1. Len(rows) = MaxHeadlines
    BY <1>6 DEF AllListed, T, rows
  <2>2. \A n \in listed : n < t
    BY <1>3, <1>4, <1>5, <1>6
  <2> QED
    BY <2>1, <2>2
<1> QED
  BY <1>1, <1>2, <1>5, <1>7 DEF TitlesListed, T, rows, listed

\* A round leaves a place in the document and places of it.
LEMMA RoundIn ==
    \A b \in Docs : \A r \in [cursor : Nat, titles : Seq(1..Len(b))] :
        ListedTo(b, NF!ReadEntry(b, r)) =>
            NF!ReadEntry(b, r) \in [cursor : Nat, titles : Seq(1..Len(b))]
<1> TAKE b \in Docs
<1> DEFINE R == [cursor : Nat, titles : Seq(1..Len(b))]
<1> TAKE r \in R
<1> HAVE ListedTo(b, NF!ReadEntry(b, r))
<1> DEFINE v == NF!ReadEntry(b, r)
<1>1. v.cursor \in 1..Len(b) + 1 /\ v.titles \in Seq(1..Len(b)) /\ Len(b) \in Nat
  BY DEF ListedTo, Docs
<1>2. v = r \/ \E x, y : v = [cursor |-> x, titles |-> y]
  BY DEF NF!ReadEntry
<1> HIDE DEF v
<1>3. CASE v = r
  BY <1>3 DEF v
<1>4. ASSUME NEW x, NEW y, v = [cursor |-> x, titles |-> y] PROVE v \in R
  <2>1. v.cursor = x /\ v.titles = y
    BY <1>4
  <2>2. x \in Nat /\ y \in Seq(1..Len(b))
    BY <1>1, <2>1
  <2> HIDE DEF R
  <2>3. [cursor |-> x, titles |-> y] \in R
    BY <2>2 DEF R
  <2> QED
    BY <1>4, <2>3
<1> QED
  BY <1>2, <1>3, <1>4 DEF v

\* parse_feed_entries lists the titles of a well-formed feed, for any document.
LEMMA ParseFacts ==
    \A b \in Docs : NF!WellFormed(b) => TitlesListed(b, NF!ParseFeedEntries(b))
<1> SUFFICES ASSUME NEW b \in Docs, NF!WellFormed(b)
             PROVE  TitlesListed(b, NF!ParseFeedEntries(b))
  OBVIOUS
<1> DEFINE L == Len(b)
           R == [cursor : Nat, titles : Seq(1..Len(b))]
           start == [cursor |-> 1, titles |-> <<>>]
           G == [p \in (1..L) \X R |-> NF!ReadEntry(b, p[2])]
           W(n) == {r \in R : ListedTo(b, r) /\ (AllListed(b, r) \/ r.cursor > n)}
           U == [n \in 0..L |-> W(n)]
           after == CHOOSE f : f = [n \in 0..L |->
                        IF n = 0 THEN start ELSE NF!ReadEntry(b, f[n - 1])]
<1>1. L \in Nat
  BY DEF Docs
<1>2. NF!ParseFeedEntries(b) = after[L].titles
  BY DEF NF!ParseFeedEntries
<1>3. start \in W(0)
  <2>1. start \in R /\ start.cursor = 1 /\ start.titles = <<>> /\ Len(start.titles) = 0
    OBVIOUS
  <2>2. 1 \in 1..L + 1
    BY <1>1
  <2>3. \A t \in NF!TitlesOf(b) : ~(t < 1)
    BY <1>1, TitleFacts
  <2>4. ListedTo(b, start)
    <3> DEFINE q == start.titles
    <3>1. q \in Seq(1..L) /\ \A i \in 1..Len(q) : FALSE
      BY <2>1
    <3>2. Len(q) <= MaxHeadlines
      BY <2>1, FeedAssumption
    <3> HIDE DEF start, q
    <3>3. \A t \in NF!TitlesOf(b) : ~(t < start.cursor)
      BY <2>1, <2>3
    <3> QED
      BY <2>1, <2>2, <3>1, <3>2, <3>3 DEF ListedTo, q
  <2> HIDE DEF start, R
  <2> QED
    BY <2>1, <2>4
<1>4. ASSUME NEW n \in 1..L, NEW r \in W(n - 1)
      PROVE  NF!ReadEntry(b, r) \in W(n)
  <2> DEFINE v == NF!ReadEntry(b, r)
  <2>1. r \in R /\ ListedTo(b, r) /\ (AllListed(b, r) \/ r.cursor > n - 1)
    OBVIOUS
  <2>2. ListedTo(b, v) /\ (AllListed(b, r) => AllListed(b, v))
        /\ (AllListed(b, r) \/ v.cursor > r.cursor)
    BY <2>1, RoundFacts
  <2>3. v \in R
    BY <2>1, <2>2, RoundIn
  <2>4. v.cursor \in Nat /\ r.cursor \in Nat
    BY <2>1, <2>3
  <2> HIDE DEF v, R
  <2>5. AllListed(b, v) \/ v.cursor > n
    BY <1>1, <2>1, <2>2, <2>4
  <2> QED
    BY <2>2, <2>3, <2>5 DEF v
<1>5. \A n \in 0..L : W(n) \subseteq R
  OBVIOUS
<1> HIDE DEF L, R, start
<1>6. \A n \in 1..L : \A r \in R : G[<<n, r>>] = NF!ReadEntry(b, r)
  OBVIOUS
<1>7. \A n \in 0..L : U[n] = W(n)
  OBVIOUS
<1> HIDE DEF U, W, G
<1>8. \A n \in 1..L : n - 1 \in 0..L /\ n \in 0..L /\ n # 0
  BY <1>1
<1>9. PICK f : Recursive(f, L, start, G)
  BY <1>1, RecursionDefines
<1>10. \A n \in 0..L : f[n] \in R
  <2>1. start \in U[0]
    BY <1>1, <1>3, <1>7
  <2>2. \A n \in 1..L : \A r \in U[n - 1] : G[<<n, r>>] \in U[n]
    <3> SUFFICES ASSUME NEW n \in 1..L, NEW r \in U[n - 1] PROVE G[<<n, r>>] \in U[n]
      OBVIOUS
    <3>1. r \in W(n - 1) /\ r \in R
      BY <1>5, <1>7, <1>8
    <3> QED
      BY <1>4, <1>6, <1>7, <1>8, <3>1
  <2>3. \A n \in 0..L : f[n] \in U[n]
    BY <1>1, <1>9, <2>1, <2>2, RecursionIn
  <2> QED
    BY <1>5, <1>7, <2>3
<1>11. f = [n \in 0..L |-> IF n = 0 THEN start ELSE NF!ReadEntry(b, f[n - 1])]
  <2>1. ASSUME NEW n \in 0..L, n # 0 PROVE G[<<n, f[n - 1]>>] = NF!ReadEntry(b, f[n - 1])
    <3>1. n \in 1..L /\ n - 1 \in 0..L
      BY <1>1, <2>1
    <3> QED
      BY <1>6, <1>10, <3>1
  <2>2. f = [n \in 0..L |-> IF n = 0 THEN start ELSE G[<<n, f[n - 1]>>]]
    BY <1>9 DEF Recursive
  <2> QED
    BY <2>1, <2>2
<1>12. after = [n \in 0..L |-> IF n = 0 THEN start ELSE NF!ReadEntry(b, after[n - 1])]
  BY <1>11
<1> HIDE DEF after
<1> DEFINE S == {n \in 0..L : after[n] \in W(n)}
<1>13. 0 \in S
  <2>1. 0 \in 0..L
    BY <1>1
  <2>2. after[0] = start
    BY <1>12, <2>1
  <2> QED
    BY <1>3, <2>1, <2>2
<1>14. ASSUME NEW n \in 1..L, n - 1 \in S PROVE n \in S
  <2>1. after[n] = NF!ReadEntry(b, after[n - 1])
    BY <1>8, <1>12
  <2>2. after[n - 1] \in W(n - 1)
    BY <1>14
  <2> QED
    BY <1>4, <1>8, <2>1, <2>2
<1> HIDE DEF S
<1>15. after[L] \in W(L)
  <2>1. 0..L \subseteq S
    BY <1>1, <1>13, <1>14, UpTo
  <2>2. L \in 0..L
    BY <1>1
  <2> QED
    BY <2>1, <2>2 DEF S
<1> DEFINE r == after[L]
<1>16. ListedTo(b, r) /\ (AllListed(b, r) \/ r.cursor > L)
  BY <1>15 DEF W
<1> HIDE DEF r
<1>17. AllListed(b, r)
  <2> SUFFICES ASSUME r.cursor > L PROVE AllListed(b, r)
    BY <1>16
  <2>1. r.cursor \in Nat
    BY <1>1, <1>16 DEF ListedTo, L
  <2>2. \A t \in NF!TitlesOf(b) : t < r.cursor
    BY <1>1, <2>1, TitleFacts DEF L
  <2> QED
    BY <2>2 DEF AllListed
<1> QED
  BY <1>2, <1>16, <1>17, AllIsListed DEF r


-----------------------------------------------------------------------------
(* news_feed: the list, the views over it and the queued actions.          *)

FeedList == [v |-> "list", rows |-> headlines]
Alone == newsStack = <<FeedList>>
Over(v) == newsStack = <<FeedList, NF!View(v)>>
Presses == {<<<<"key">>>>, <<<<"edit">>>>} \cup {<<<<"view", i>>>> : i \in 1..2}
Closing(u) == <<"done", u>>

\* Where the views, the queue and the two flags can be, each press handled in time.
FeedShapes ==
    \/ newsStack = <<>> /\ queue = <<>> /\ ~editing /\ ~covered
    \/ Alone /\ ~editing /\ ~covered /\ queue \in {<<>>} \cup Presses
    \/ Alone /\ ~editing /\ covered /\ queue = <<<<"show">>>>
    \/ Alone /\ editing /\ covered /\ \E u : queue = <<<<"show">>, Closing(u)>>
    \/ Alone /\ editing /\ ~covered /\ \E u : queue = <<Closing(u)>>
    \/ Over("info") /\ ~editing /\ ~covered /\ queue = <<<<"hide">>>>
    \/ Over("info") /\ ~editing /\ covered /\ queue \in {<<>>, <<<<"key">>>>}
    \/ Over("editor") /\ editing /\ ~covered /\ queue = <<<<"hide">>>>
    \/ Over("editor") /\ editing /\ covered /\ queue \in {<<>>, <<<<"key">>>>}

\* What is listed is what was parsed of the document at the URL.
FeedData == headlines # <<>> => headlines = NF!ParseFeedEntries(NF!Body(url))

FeedInv ==
    /\ feed \in Feeds /\ FeedData
    /\ ~hasty => FeedShapes

\* Queues and stacks of one and two.
LEMMA Shorts ==
    \A x, y :
        /\ <<x>> # <<>> /\ <<x, y>> # <<>> /\ Len(<<x>>) = 1 /\ Len(<<x, y>>) = 2
        /\ Head(<<x>>) = x /\ Tail(<<x>>) = <<>>
        /\ Head(<<x, y>>) = x /\ Tail(<<x, y>>) = <<y>>
        /\ Append(<<>>, x) = <<x>> /\ Append(<<x>>, y) = <<x, y>>
        /\ <<>> \o <<x>> = <<x>> /\ <<>> \o <<x, y>> = <<x, y>>
        /\ NF!Last(<<x>>) = x /\ NF!Last(<<x, y>>) = y
        /\ NF!Front(<<x>>) = <<>> /\ NF!Front(<<x, y>>) = <<x>>
<1> TAKE x, y
<1>1. /\ <<x>> # <<>> /\ <<x, y>> # <<>> /\ Len(<<x>>) = 1 /\ Len(<<x, y>>) = 2
      /\ Head(<<x>>) = x /\ Tail(<<x>>) = <<>>
      /\ Head(<<x, y>>) = x /\ Tail(<<x, y>>) = <<y>>
  OBVIOUS
<1>2. Append(<<>>, x) = <<x>> /\ Append(<<x>>, y) = <<x, y>>
  <2>1. Append(<<>>, x) = <<x>>
    OBVIOUS
  <2> QED
    BY <2>1, Tuples
<1>3. <<>> \o <<x>> = <<x>> /\ <<>> \o <<x, y>> = <<x, y>>
  OBVIOUS
<1>4. NF!Last(<<x>>) = x /\ NF!Last(<<x, y>>) = y
  BY DEF NF!Last
<1>5. NF!Front(<<x>>) = <<>> /\ NF!Front(<<x, y>>) = <<x>>
  <2>1. SubSeq(<<x>>, 1, Len(<<x>>) - 1) = <<>>
    OBVIOUS
  <2> QED
    BY <2>1, Tuples, Zenon DEF NF!Front
<1> QED
  BY <1>1, <1>2, <1>3, <1>4, <1>5

\* A stack of one holds no second view, and the list is a list.
LEMMA NotTwo == ~(1 > 1) /\ ~(Len(<<>>) > 1)
OBVIOUS

\* The list counts as one.
LEMMA FeedListView == FeedList.v = "list"
BY DEF FeedList

\* What is on top.
LEMMA NewsTop ==
    /\ newsStack = <<>> => NF!Top = "none"
    /\ Alone => NF!Top = "list" /\ Len(newsStack) = 1 /\ newsStack # <<>>
    /\ \A v : Over(v) => NF!Top = v /\ Len(newsStack) = 2 /\ newsStack # <<>>
BY Shorts DEF NF!Top, Alone, Over, FeedList, NF!View

\* Fetching, alone or before there is a view, leaves the list alone on the stack.
LEMMA Rendered ==
    ASSUME NEW q, NF!FetchAndRender(q)
    PROVE  /\ covered' = FALSE
           /\ headlines' # <<>> => headlines' = NF!ParseFeedEntries(NF!Body(url'))
           /\ newsStack = <<>> \/ Alone => Alone' /\ queue' = q
<1>1. PICK rows \in NF!Fetched(NF!CurrentUrl) :
          /\ headlines' = rows
          /\ LET list == [v |-> "list", rows |-> rows]
             IN  IF NF!Top = "list"
                 THEN newsStack' = Append(NF!Front(newsStack), list) /\ queue' = q
                 ELSE NF!Pushed(newsStack, q, list)
  BY DEF NF!FetchAndRender
<1>2. covered' = FALSE /\ url' = NF!CurrentUrl
  BY DEF NF!FetchAndRender
<1>3. headlines' # <<>> => headlines' = NF!ParseFeedEntries(NF!Body(url'))
  BY <1>1, <1>2 DEF NF!Fetched
<1> DEFINE list == [v |-> "list", rows |-> rows]
<1>4. list = FeedList'
  BY <1>1 DEF FeedList
<1> HIDE DEF list
<1>5. CASE newsStack = <<>>
  <2>1. NF!Top # "list"
    BY <1>5, NewsTop
  <2>2. newsStack' = Append(<<>>, list) /\ queue' = q
    BY <1>1, <1>5, <2>1 DEF NF!Pushed, list
  <2> QED
    BY <1>2, <1>3, <1>4, <2>2, Shorts DEF Alone
<1>6. CASE Alone
  <2>1. NF!Top = "list" /\ newsStack # <<>>
    BY <1>6, NewsTop
  <2>2. newsStack' = Append(NF!Front(newsStack), list) /\ queue' = q
    BY <1>1, <2>1 DEF list
  <2>3. NF!Front(newsStack) = <<>>
    BY <1>6, Shorts DEF Alone
  <2> QED
    BY <1>2, <1>3, <1>4, <2>2, <2>3, Shorts DEF Alone
<1> QED
  BY <1>2, <1>3, <1>5, <1>6

\* The first action of each queue.
LEMMA NewsHeads ==
    /\ \A q \in Presses : /\ q # <<>> /\ Tail(q) = <<>>
                          /\ Head(q)[1] \in {"key", "edit", "view"}
    /\ \A u : Closing(u)[1] = "done"
    /\ <<"show">>[1] = "show" /\ <<"hide">>[1] = "hide" /\ <<"key">>[1] = "key"
<1>1. \A q \in Presses : /\ q # <<>> /\ Tail(q) = <<>>
                         /\ Head(q)[1] \in {"key", "edit", "view"}
  <2> SUFFICES ASSUME NEW q \in Presses
               PROVE  q # <<>> /\ Tail(q) = <<>> /\ Head(q)[1] \in {"key", "edit", "view"}
    OBVIOUS
  <2>1. \E x : q = <<x>> /\ x[1] \in {"key", "edit", "view"}
    BY DEF Presses
  <2> QED
    BY <2>1, Shorts
<1>2. \A u : Closing(u)[1] = "done"
  BY DEF Closing
<1>3. <<"show">>[1] = "show" /\ <<"hide">>[1] = "hide" /\ <<"key">>[1] = "key"
  OBVIOUS
<1> QED
  BY <1>1, <1>2, <1>3

\* A press that finds no action waiting leaves such a state.
LEMMA PressStep ==
    ASSUME FeedShapes, ~hasty',
           NF!Reload \/ NF!Tap \/ NF!MenuKey
    PROVE  FeedShapes'
<1>1. PICK q : NF!Press(q) /\ \/ newsStack # <<>> /\ q = <<<<"key">>>>
                              \/ NF!Top = "list" /\ q \in Presses
  BY DEF NF!Reload, NF!Tap, NF!MenuKey, Presses
<1>2. queue = <<>> /\ queue' = <<>> \o q
      /\ UNCHANGED <<newsStack, headlines, editing, covered>>
  BY <1>1 DEF NF!Press, NF!data
<1>3. \E x : q = <<x>>
  BY <1>1 DEF Presses
<1>4. queue' = q
  BY <1>2, <1>3, Shorts
<1>5. Alone' <=> Alone
  BY <1>2 DEF Alone, FeedList
<1>6. \A v : Over(v)' <=> Over(v)
  BY <1>2 DEF Over, FeedList
<1>7. <<<<"key">>>> \in Presses
  BY DEF Presses
<1>8. \A d : <<<<"show">>, d>> # <<>> /\ <<d>> # <<>>
  OBVIOUS
<1>9. \/ Alone /\ ~editing /\ ~covered
      \/ Over("info") /\ ~editing /\ covered /\ q = <<<<"key">>>>
      \/ Over("editor") /\ editing /\ covered /\ q = <<<<"key">>>>
  BY <1>1, <1>2, <1>8, NewsTop DEF FeedShapes
<1> QED
  BY <1>1, <1>2, <1>4, <1>5, <1>6, <1>7, <1>9 DEF FeedShapes


\* The actions of a queue are not each other's.
LEMMA NewsQueues ==
    /\ NF!Handles("view") => queue # <<>> /\ Head(queue)[1] = "view"
    /\ NF!Handles("edit") => queue # <<>> /\ Head(queue)[1] = "edit"
    /\ NF!Handles("key") => queue # <<>> /\ Head(queue)[1] = "key"
    /\ NF!Handles("hide") => queue # <<>> /\ Head(queue)[1] = "hide"
    /\ NF!Handles("show") => queue # <<>> /\ Head(queue)[1] = "show"
    /\ NF!Handles("done") => queue # <<>> /\ Head(queue)[1] = "done"
    /\ queue = <<<<"hide">>>> => Head(queue)[1] = "hide" /\ Tail(queue) = <<>>
    /\ queue = <<<<"show">>>> => Head(queue)[1] = "show" /\ Tail(queue) = <<>>
    /\ queue = <<<<"key">>>> => Head(queue)[1] = "key" /\ Tail(queue) = <<>>
    /\ \A u :
          /\ queue = <<<<"show">>, Closing(u)>> =>
                Head(queue)[1] = "show" /\ Tail(queue) = <<Closing(u)>>
          /\ queue = <<Closing(u)>> => Head(queue)[1] = "done" /\ Tail(queue) = <<>>
    /\ queue \in Presses => Head(queue)[1] \in {"key", "edit", "view"} /\ Tail(queue) = <<>>
<1>1. \A a : NF!Handles(a) => queue # <<>> /\ Head(queue)[1] = a
  BY DEF NF!Handles
<1>2. \A a : queue = <<a>> => Head(queue)[1] = a[1] /\ Tail(queue) = <<>>
  BY Shorts
<1>3. ASSUME NEW a, NEW d, queue = <<a, d>>
      PROVE  Head(queue)[1] = a[1] /\ Tail(queue) = <<d>>
  <2>1. Head(<<a, d>>) = a /\ Tail(<<a, d>>) = <<d>>
    BY Shorts, Zenon
  <2> QED
    BY <1>3, <2>1, Zenon
<1>4. queue = <<<<"hide">>>> => Head(queue)[1] = "hide" /\ Tail(queue) = <<>>
  BY <1>2, NewsHeads
<1>5. queue = <<<<"show">>>> => Head(queue)[1] = "show" /\ Tail(queue) = <<>>
  BY <1>2, NewsHeads
<1>6. queue = <<<<"key">>>> => Head(queue)[1] = "key" /\ Tail(queue) = <<>>
  BY <1>2, NewsHeads
<1>7. ASSUME NEW u
      PROVE  /\ queue = <<<<"show">>, Closing(u)>> =>
                   Head(queue)[1] = "show" /\ Tail(queue) = <<Closing(u)>>
             /\ queue = <<Closing(u)>> => Head(queue)[1] = "done" /\ Tail(queue) = <<>>
  BY <1>2, <1>3, NewsHeads
<1> QED
  BY <1>1, <1>4, <1>5, <1>6, <1>7, NewsHeads

\* The states in which an action is handled.
LEMMA NewsWhere ==
    ASSUME FeedShapes
    PROVE  /\ NF!Handles("view") \/ NF!Handles("edit") =>
                 Alone /\ ~editing /\ ~covered /\ Tail(queue) = <<>>
           /\ NF!Handles("key") =>
                 /\ Tail(queue) = <<>>
                 /\ \/ Alone /\ ~editing /\ ~covered
                    \/ Over("info") /\ ~editing /\ covered
                    \/ Over("editor") /\ editing /\ covered
           /\ NF!Handles("hide") =>
                 /\ Tail(queue) = <<>> /\ ~covered
                 /\ \/ Over("info") /\ ~editing
                    \/ Over("editor") /\ editing
           /\ NF!Handles("show") =>
                 /\ Alone /\ covered
                 /\ \/ ~editing /\ Tail(queue) = <<>>
                    \/ editing /\ \E u : Tail(queue) = <<Closing(u)>>
           /\ NF!Handles("done") => Alone /\ editing /\ ~covered /\ Tail(queue) = <<>>
BY NewsQueues DEF FeedShapes

\* A step that leaves the views and the headlines alone leaves the shape alone.
LEMMA SameViews ==
    ASSUME UNCHANGED <<newsStack, headlines>>
    PROVE  (Alone' <=> Alone) /\ \A v : Over(v)' <=> Over(v)
BY DEF Alone, Over, FeedList

\* A handled action leaves such a state.
LEMMA HandlerStep ==
    ASSUME FeedShapes,
           \/ NF!ViewTitle \/ NF!EditUrl \/ NF!KeyEvent
           \/ NF!ListHidden \/ NF!ListShown \/ NF!EditUrlDone
    PROVE  FeedShapes'
<1>1. ASSUME NEW v, Alone, NF!Pushed(newsStack, <<>>, NF!View(v)), headlines' = headlines
      PROVE  Over(v)' /\ queue' = <<<<"hide">>>>
  <2>1. newsStack # <<>> /\ NF!Last(newsStack).v = "list"
    BY <1>1, Shorts DEF Alone, FeedList
  <2>2. newsStack' = <<FeedList, NF!View(v)>> /\ queue' = <<<<"hide">>>>
    BY <1>1, <2>1, Shorts DEF NF!Pushed, Alone
  <2>3. FeedList' = FeedList /\ NF!View(v)' = NF!View(v)
    BY <1>1 DEF FeedList, NF!View
  <2> QED
    BY <2>2, <2>3 DEF Over
<1>2. CASE NF!ViewTitle
  <2>1. Alone /\ ~editing /\ ~covered /\ Tail(queue) = <<>>
    BY <1>2, NewsWhere DEF NF!ViewTitle
  <2>2. headlines' = headlines /\ editing' = editing /\ covered' = covered
    BY <1>2 DEF NF!ViewTitle, NF!data
  <2>3. \/ NF!Pushed(newsStack, Tail(queue), NF!View("info"))
        \/ queue' = Tail(queue) /\ UNCHANGED newsStack
    BY <1>2 DEF NF!ViewTitle, NF!Rest
  <2>4. CASE NF!Pushed(newsStack, Tail(queue), NF!View("info"))
    <3>1. Over("info")' /\ queue' = <<<<"hide">>>>
      BY <1>1, <2>1, <2>2, <2>4
    <3> QED
      BY <2>1, <2>2, <3>1 DEF FeedShapes
  <2>5. CASE queue' = Tail(queue) /\ UNCHANGED newsStack
    BY <2>1, <2>2, <2>5, SameViews DEF FeedShapes
  <2> QED
    BY <2>3, <2>4, <2>5
<1>3. CASE NF!EditUrl
  <2>1. Alone /\ ~editing /\ ~covered /\ Tail(queue) = <<>>
    BY <1>3, NewsWhere DEF NF!EditUrl
  <2>2. /\ headlines' = headlines /\ editing' = TRUE /\ covered' = covered
        /\ NF!Pushed(newsStack, Tail(queue), NF!View("editor"))
    BY <1>3 DEF NF!EditUrl, NF!Rest
  <2>3. Over("editor")' /\ queue' = <<<<"hide">>>>
    BY <1>1, <2>1, <2>2
  <2> QED
    BY <2>1, <2>2, <2>3 DEF FeedShapes
<1>4. CASE NF!KeyEvent
  <2>1. /\ Tail(queue) = <<>>
        /\ \/ Alone /\ ~editing /\ ~covered
           \/ Over("info") /\ ~editing /\ covered
           \/ Over("editor") /\ editing /\ covered
    BY <1>4, NewsWhere DEF NF!KeyEvent
  <2>2. editing' = editing
    BY <1>4 DEF NF!KeyEvent
  <2>3. CASE Alone /\ ~editing /\ ~covered
    <3>1. NF!FetchAndRender(Tail(queue))
      BY <1>4, <2>3 DEF NF!KeyEvent, NF!MayReload, NF!Rest
    <3>2. Alone' /\ queue' = <<>> /\ covered' = FALSE
      BY <2>1, <2>3, <3>1, Rendered
    <3> QED
      BY <2>2, <2>3, <3>2 DEF FeedShapes
  <2>4. CASE covered
    <3>1. queue' = Tail(queue) /\ UNCHANGED <<headlines, covered, newsStack>>
      BY <1>4, <2>4 DEF NF!KeyEvent, NF!MayReload, NF!Rest
    <3> QED
      BY <2>1, <2>2, <2>4, <3>1, SameViews DEF FeedShapes
  <2> QED
    BY <2>1, <2>3, <2>4
<1>5. CASE NF!ListHidden
  <2>1. /\ Tail(queue) = <<>>
        /\ \/ Over("info") /\ ~editing
           \/ Over("editor") /\ editing
    BY <1>5, NewsWhere DEF NF!ListHidden
  <2>2. covered' = TRUE /\ queue' = Tail(queue) /\ UNCHANGED <<newsStack, headlines, editing>>
    BY <1>5 DEF NF!ListHidden, NF!Rest
  <2> QED
    BY <2>1, <2>2, SameViews DEF FeedShapes
<1>6. CASE NF!ListShown
  <2>1. /\ Alone
        /\ \/ ~editing /\ Tail(queue) = <<>>
           \/ editing /\ \E u : Tail(queue) = <<Closing(u)>>
    BY <1>6, NewsWhere DEF NF!ListShown
  <2>2. covered' = FALSE /\ queue' = Tail(queue) /\ UNCHANGED <<newsStack, headlines, editing>>
    BY <1>6 DEF NF!ListShown, NF!Rest
  <2> QED
    BY <2>1, <2>2, SameViews DEF FeedShapes
<1>7. CASE NF!EditUrlDone
  <2>1. Alone /\ Tail(queue) = <<>>
    BY <1>7, NewsWhere DEF NF!EditUrlDone
  <2>2. editing' = FALSE /\ NF!FetchAndRender(Tail(queue))
    BY <1>7 DEF NF!EditUrlDone, NF!Rest
  <2>3. Alone' /\ queue' = <<>> /\ covered' = FALSE
    BY <2>1, <2>2, Rendered
  <2> QED
    BY <2>2, <2>3 DEF FeedShapes
<1> QED
  BY <1>2, <1>3, <1>4, <1>5, <1>6, <1>7

\* Opening, leaving and closing a view leave such a state.
LEMMA FeedViewStep ==
    ASSUME FeedShapes, ~hasty',
           \/ NF!Enter \/ NF!Exit \/ NF!Back
           \/ \E u : NF!EditorCloses(u)
    PROVE  FeedShapes'
<1>1. ASSUME queue = <<>>
      PROVE  \/ newsStack = <<>> /\ ~editing /\ ~covered
             \/ Alone /\ ~editing /\ ~covered
             \/ Over("info") /\ ~editing /\ covered
             \/ Over("editor") /\ editing /\ covered
  <2>1. \A a, d : <<a>> # <<>> /\ <<a, d>> # <<>>
    BY Shorts
  <2> QED
    BY <1>1, <2>1 DEF FeedShapes
<1>2. ASSUME NEW v, Over(v) PROVE NF!Front(newsStack) = <<FeedList>>
  BY <1>2, Shorts DEF Over
<1>3. NF!Last(<<FeedList>>).v = "list"
  <2>1. NF!Last(<<FeedList>>) = FeedList
    BY Shorts, Zenon
  <2> QED
    BY <2>1, FeedListView, Zenon
<1>4. /\ newsStack = <<>> => NF!Top = "none" /\ ~(Len(newsStack) > 1)
      /\ Alone => NF!Top = "list" /\ ~(Len(newsStack) > 1)
      /\ Over("info") => NF!Top = "info"
      /\ Over("editor") => NF!Top = "editor"
  <2>1. newsStack = <<>> => NF!Top = "none"
    BY NewsTop, Zenon
  <2>2. newsStack = <<>> => ~(Len(newsStack) > 1)
    BY NotTwo, Zenon
  <2>3. Alone => NF!Top = "list" /\ Len(newsStack) = 1
    BY NewsTop, Zenon
  <2>4. (Over("info") => NF!Top = "info") /\ (Over("editor") => NF!Top = "editor")
    BY NewsTop, Zenon
  <2>5. Alone => ~(Len(newsStack) > 1)
    BY <2>3, NotTwo, Zenon
  <2> QED
    BY <2>1, <2>2, <2>3, <2>4, <2>5, Zenon
<1>5. CASE NF!Enter
  <2>1. newsStack = <<>> /\ editing' = editing /\ NF!FetchAndRender(<<>>)
    BY <1>5 DEF NF!Enter
  <2>2. ~editing
    BY <2>1, Shorts DEF FeedShapes, Alone, Over
  <2>3. Alone' /\ queue' = <<>> /\ covered' = FALSE
    BY <2>1, Rendered
  <2> QED
    BY <2>1, <2>2, <2>3 DEF FeedShapes
<1>6. CASE NF!Exit
  <2>1. /\ NF!Top = "list" /\ newsStack' = <<>> /\ queue' = <<>> /\ covered' = covered
        /\ editing' = editing \/ editing' = FALSE
        /\ hasty' = (hasty \/ queue # <<>>)
    BY <1>6 DEF NF!Exit
  <2>2. ~editing /\ ~covered
    <3>1. "list" # "info" /\ "list" # "editor" /\ queue = <<>>
      BY <2>1
    <3> QED
      BY <1>1, <1>4, <2>1, <3>1, Zenon
  <2> QED
    BY <2>1, <2>2 DEF FeedShapes
<1>7. CASE NF!Back
  <2>1. /\ Len(newsStack) > 1 /\ NF!Top \in {"info", "list"}
        /\ hasty' = (hasty \/ queue # <<>>) /\ NF!Closed(queue)
        /\ UNCHANGED <<headlines, editing, covered>>
    BY <1>7 DEF NF!Back, NF!data
  <2>2. queue = <<>>
    BY <2>1
  <2>3. NF!Top # "editor"
    BY <2>1
  <2>5. Over("info") /\ ~editing /\ covered
    BY <1>1, <1>4, <2>1, <2>2, <2>3, Zenon
  <2>6. newsStack' = <<FeedList>> /\ newsStack' # <<>>
    BY <1>2, <2>1, <2>5, Shorts DEF NF!Closed
  <2>7. queue' = <<<<"show">>>>
    BY <1>3, <2>1, <2>2, <2>6, Shorts DEF NF!Closed
  <2>8. Alone'
    BY <2>1, <2>6 DEF Alone, FeedList
  <2> QED
    BY <2>1, <2>5, <2>7, <2>8 DEF FeedShapes
<1>8. ASSUME NEW u, NF!EditorCloses(u) PROVE FeedShapes'
  <2>1. /\ NF!Top = "editor" /\ newsStack' = NF!Front(newsStack)
        /\ hasty' = (hasty \/ queue # <<>>)
        /\ queue' = IF NF!Last(NF!Front(newsStack)).v = "list"
                    THEN queue \o <<<<"show">>, <<"done", u>>>>
                    ELSE Append(queue, <<"done", u>>)
        /\ UNCHANGED <<headlines, editing, covered>>
    BY <1>8 DEF NF!EditorCloses, NF!data
  <2>2. queue = <<>>
    BY <2>1
  <2>3. Over("editor") /\ editing /\ covered
    <3>1. "editor" \notin {"none", "list", "info"}
      OBVIOUS
    <3> QED
      BY <1>1, <1>4, <2>1, <2>2, <3>1
  <2>4. newsStack' = <<FeedList>> /\ NF!Front(newsStack) = <<FeedList>>
    BY <1>2, <2>1, <2>3
  <2>5. queue' = <<<<"show">>, Closing(u)>>
    BY <1>3, <2>1, <2>2, <2>4, Shorts DEF Closing
  <2>6. Alone'
    BY <2>1, <2>4 DEF Alone, FeedList
  <2> QED
    BY <2>1, <2>3, <2>5, <2>6 DEF FeedShapes
<1> QED
  BY <1>5, <1>6, <1>7, <1>8



\* Nothing is fetched and no view is open at the start.
LEMMA FeedInit == NF!Init => FeedInv
BY DEF NF!Init, FeedInv, FeedData, FeedShapes

\* The list follows the URL.
LEMMA FeedDataStep ==
    ASSUME FeedData, feed' = feed,
           \/ UNCHANGED <<headlines, url>>
           \/ headlines' = <<>>
           \/ \E q : NF!FetchAndRender(q)
    PROVE  FeedData'
<1>1. CASE headlines' = <<>>
  BY <1>1 DEF FeedData
<1>2. NF!Body(url)' = NF!Body(url')
  BY DEF NF!Body, NF!Other
<1>3. CASE UNCHANGED <<headlines, url>>
  BY <1>2, <1>3 DEF FeedData
<1>4. CASE \E q : NF!FetchAndRender(q)
  <2>1. headlines' # <<>> => headlines' = NF!ParseFeedEntries(NF!Body(url'))
    BY <1>4, Rendered
  <2> QED
    BY <1>2, <2>1 DEF FeedData
<1> QED
  BY <1>1, <1>3, <1>4

\* Each action of the feed plugin keeps the invariant.
LEMMA FeedStep ==
    ASSUME FeedInv, NF!Next
    PROVE  FeedInv'
<1>1. feed \in Feeds /\ FeedData /\ (~hasty => FeedShapes)
  BY DEF FeedInv
<1>2. ASSUME feed' = feed,
             \/ UNCHANGED <<headlines, url>>
             \/ headlines' = <<>>
             \/ \E q : NF!FetchAndRender(q),
             ~hasty' => FeedShapes'
      PROVE  FeedInv'
  BY <1>1, <1>2, FeedDataStep DEF FeedInv
<1>3. CASE NF!Reload \/ NF!Tap \/ NF!MenuKey
  <2>1. PICK q : NF!Press(q)
    BY <1>3 DEF NF!Reload, NF!Tap, NF!MenuKey
  <2>2. UNCHANGED <<feed, headlines, url>> /\ hasty' = (hasty \/ queue # <<>>)
    BY <2>1 DEF NF!Press, NF!data
  <2>3. ~hasty' => ~hasty
    BY <2>2
  <2> QED
    BY <1>1, <1>2, <1>3, <2>2, <2>3, PressStep
<1>4. CASE NF!Enter \/ NF!Exit
  <2>1. feed' = feed /\ (~hasty' => ~hasty)
        /\ (headlines' = <<>> \/ NF!FetchAndRender(<<>>))
    <3>1. CASE NF!Enter
      BY <3>1 DEF NF!Enter
    <3>2. CASE NF!Exit
      <4>1. feed' = feed /\ headlines' = <<>>
        BY <3>2 DEF NF!Exit
      <4>2. ~hasty' => ~hasty
        BY <3>2 DEF NF!Exit
      <4> QED
        BY <4>1, <4>2, Zenon
    <3> QED
      BY <1>4, <3>1, <3>2
  <2> QED
    BY <1>1, <1>2, <1>4, <2>1, FeedViewStep
<1>5. CASE NF!Back \/ \E u : NF!EditorCloses(u)
  <2>1. UNCHANGED <<feed, headlines, url>> /\ hasty' = (hasty \/ queue # <<>>)
    BY <1>5 DEF NF!Back, NF!EditorCloses, NF!data
  <2>2. ~hasty' => ~hasty
    BY <2>1
  <2> QED
    BY <1>1, <1>2, <1>5, <2>1, <2>2, FeedViewStep
<1>6. CASE NF!ViewTitle \/ NF!EditUrl \/ NF!ListHidden \/ NF!ListShown
  <2>1. UNCHANGED <<feed, headlines, url, hasty>>
    BY <1>6 DEF NF!ViewTitle, NF!EditUrl, NF!ListHidden, NF!ListShown, NF!data
  <2> QED
    BY <1>1, <1>2, <1>6, <2>1, HandlerStep
<1>7. CASE NF!KeyEvent \/ NF!EditUrlDone
  <2>1. /\ feed' = feed /\ hasty' = hasty
        /\ UNCHANGED <<headlines, url>> \/ NF!FetchAndRender(NF!Rest)
    BY <1>7 DEF NF!KeyEvent, NF!EditUrlDone
  <2> QED
    BY <1>1, <1>2, <1>7, <2>1, HandlerStep
<1>8. (\E u \in NF!Urls \cup {""} : NF!EditorCloses(u)) => \E u : NF!EditorCloses(u)
  BY Zenon
<1> QED
  BY <1>3, <1>4, <1>5, <1>6, <1>7, <1>8, Zenon DEF NF!Next

\* The list is the feed's, alone under the views, and the hotkey works on it.
LEMMA FeedInvShows == FeedInv => NF!FeedAsShown
<1> HAVE FeedInv
<1>1. ASSUME ~hasty PROVE FeedShapes
  BY <1>1 DEF FeedInv
<1>2. NF!OneList
  <2> SUFFICES ASSUME ~hasty, NEW i \in DOMAIN newsStack, newsStack[i].v = "list" PROVE i = 1
    BY DEF NF!OneList
  <2>1. newsStack = <<>> \/ Alone \/ Over("info") \/ Over("editor")
    BY <1>1 DEF FeedShapes
  <2>2. ~(newsStack = <<>>)
    OBVIOUS
  <2>3. Alone => i = 1
    BY DEF Alone
  <2>4. ASSUME NEW v \in {"info", "editor"}, Over(v) PROVE i = 1
    <3>1. newsStack = <<FeedList, NF!View(v)>>
      BY <2>4 DEF Over
    <3>2. NF!View(v).v # "list"
      BY DEF NF!View
    <3>3. i = 1 \/ i = 2
      BY <3>1
    <3> QED
      BY <3>1, <3>2, <3>3
  <2> QED
    BY <2>1, <2>2, <2>3, <2>4
<1>3. NF!HotkeyArmed
  <2> SUFFICES ASSUME ~hasty, queue = <<>>, NF!Top = "list" PROVE ~editing /\ ~covered
    BY DEF NF!HotkeyArmed, NF!MayReload
  <2>1. ~Over("info") /\ ~Over("editor")
    BY NewsTop
  <2>2. \A a, d : <<a>> # <<>> /\ <<a, d>> # <<>>
    BY Shorts
  <2> QED
    BY <1>1, <2>1, <2>2 DEF FeedShapes
<1>4. NF!RowsAreHeadlines
  <2> SUFFICES ASSUME ~hasty, NF!Top = "list" PROVE NF!Last(newsStack).rows = headlines
    BY DEF NF!RowsAreHeadlines
  <2>1. ~(newsStack = <<>>) /\ ~Over("info") /\ ~Over("editor")
    BY NewsTop
  <2>2. Alone
    BY <1>1, <2>1 DEF FeedShapes
  <2> QED
    BY <2>2, Shorts DEF Alone, FeedList
<1>5. NF!ListsEntries
  <2> DEFINE b == NF!Body(url)
  <2> SUFFICES ASSUME headlines # <<>>, NF!WellFormed(b) PROVE TitlesListed(b, headlines)
    BY Zenon DEF NF!ListsEntries, TitlesListed
  <2>1. headlines = NF!ParseFeedEntries(b)
    BY DEF FeedInv, FeedData
  <2>2. b \in Docs
    <3>1. feed \in Docs
      BY FeedAssumption DEF FeedInv, Docs
    <3>2. NF!Other \in Docs
      BY DEF NF!Other, Docs, NF!Tokens
    <3> QED
      BY <3>1, <3>2 DEF NF!Body
  <2> QED
    BY <2>1, <2>2, ParseFacts
<1> QED
  BY <1>2, <1>3, <1>4, <1>5 DEF NF!FeedAsShown

\* However the user presses, types, cancels and goes back, one press at a time,
\* there is one list, the hotkey works on it and its rows are the headlines; and
\* these are the titles of the feed's entries, for every well-formed document.
THEOREM ListsTheFeed == Spec => []FeedAsShown
<1>1. Init => FeedInv
  BY FeedInit DEF Init
<1>2. FeedInv /\ [Next]_vars => FeedInv'
  <2> SUFFICES ASSUME FeedInv, [Next]_vars PROVE FeedInv'
    OBVIOUS
  <2>1. CASE UNCHANGED nf
    <3>1. feed' = feed /\ UNCHANGED <<headlines, url>>
          /\ UNCHANGED <<hasty, newsStack, queue, editing, covered>>
      BY <2>1 DEF nf
    <3>2. FeedShapes => FeedShapes'
      BY <3>1, SameViews DEF FeedShapes, Presses, Closing
    <3> QED
      BY <3>1, <3>2, FeedDataStep DEF FeedInv
  <2> QED
    BY <2>1, FeedStep, StepOfEach
<1>3. FeedInv => FeedAsShown
  BY FeedInvShows DEF FeedAsShown
<1> QED
  BY <1>1, <1>2, <1>3, PTL DEF Spec

-----------------------------------------------------------------------------
(* thermo_printer: the paper is the raster that was sent.                  *)

Ink == {0, 1}
InkRow == Seq(CP!ByteSet)
RunSet == [val : Ink, len : Nat]

\* The bits of a row of bytes.
LEMMA PixelsOf ==
    ASSUME NEW row \in InkRow
    PROVE  /\ CP!Pixels(row) = Flat(row) /\ Flat(row) \in Seq(Ink)
           /\ row \in Seq(Seq(Ink)) /\ Len(Flat(row)) = Len(row) * Bits
<1>1. CP!ByteSet \subseteq Seq(Ink) /\ \A b \in CP!ByteSet : Len(b) = Bits
  BY RastersAssumption DEF CP!ByteSet, Ink
<1>2. row \in Seq(Seq(Ink)) /\ \A n \in 1..Len(row) : Len(row[n]) = Bits
  BY <1>1 DEF InkRow
<1>3. Flat(row) \in Seq(Ink) /\ Len(Flat(row)) = Len(row) * Bits
  BY <1>2, FlatAppend, FlatLength, RastersAssumption
<1>4. CASE row = <<>>
  <2>1. Len(row) = 0
    BY <1>4
  <2>2. Flat(row) = <<>>
    BY <1>4, FlatOne
  <2> QED
    BY <1>2, <1>3, <1>4, <2>1, <2>2 DEF CP!Pixels, CP!FlattenSeq
<1>5. CASE row # <<>>
  <2>1. Len(row) # 0
    BY <1>2, <1>5
  <2>2. CP!FlattenSeq(row) = Flat(row)
    BY <1>2, <1>5, <2>1, FlattenSeqIs DEF CP!FlattenSeq
  <2> QED
    BY <1>2, <1>3, <2>2 DEF CP!Pixels
<1> QED
  BY <1>4, <1>5

\* A byte reversed twice is the byte.
LEMMA ReversedTwice ==
    ASSUME NEW b \in CP!ByteSet
    PROVE  /\ CP!Reverse(b) \in CP!ByteSet
           /\ CP!Reverse(CP!ReverseBits(b)) = b
<1>1. b \in [1..Bits -> Ink] /\ Len(b) = Bits /\ Bits \in Nat
  BY RastersAssumption DEF CP!ByteSet, Ink
<1>2. \A i \in 1..Bits : (Bits - i) + 1 \in 1..Bits /\ (Bits - ((Bits - i) + 1)) + 1 = i
  BY <1>1
<1> DEFINE r == CP!Reverse(b)
<1>3. r = [i \in 1..Bits |-> b[(Bits - i) + 1]]
  BY <1>1 DEF CP!Reverse
<1>4. r \in [1..Bits -> Ink] /\ Len(r) = Bits
  BY <1>1, <1>2, <1>3
<1>5. CP!Reverse(r) = [i \in 1..Bits |-> r[(Bits - i) + 1]]
  BY <1>4 DEF CP!Reverse
<1>6. \A i \in 1..Bits : r[(Bits - i) + 1] = b[i]
  <2> SUFFICES ASSUME NEW i \in 1..Bits PROVE r[(Bits - i) + 1] = b[i]
    OBVIOUS
  <2> DEFINE j == (Bits - i) + 1
  <2>1. j \in 1..Bits /\ (Bits - j) + 1 = i
    BY <1>2
  <2> HIDE DEF j, r
  <2>2. r[j] = b[(Bits - j) + 1]
    BY <1>3, <2>1
  <2> QED
    BY <2>1, <2>2 DEF j
<1>7. CP!Reverse(r) = b
  <2> HIDE DEF r
  <2> QED
    BY <1>1, <1>5, <1>6
<1> QED
  BY <1>4, <1>7 DEF CP!ReverseBits, CP!ByteSet, Ink


\* A pixel row as it should be printed: cut, or filled up with white.
PrinterRow(row) ==
    [i \in 1..(RowBytes * Bits) |-> IF i \in DOMAIN CP!Pixels(row) THEN CP!Pixels(row)[i] ELSE 0]

\* A sequence filled up with white, and one cut short.
LEMMA FilledOrCut ==
    ASSUME NEW s \in Seq(Ink), NEW w \in Nat
    PROVE  /\ \A z \in Seq({0}) : Len(s) + Len(z) = w
                   => s \o z = [i \in 1..w |-> IF i \in DOMAIN s THEN s[i] ELSE 0]
           /\ \A t \in Seq(Ink) : Len(s) = w
                   => s = [i \in 1..w |-> IF i \in DOMAIN (s \o t) THEN (s \o t)[i] ELSE 0]
<1>1. ASSUME NEW z \in Seq({0}), Len(s) + Len(z) = w
      PROVE  s \o z = [i \in 1..w |-> IF i \in DOMAIN s THEN s[i] ELSE 0]
  <2> DEFINE u == [i \in 1..w |-> IF i \in DOMAIN s THEN s[i] ELSE 0]
             v == s \o z
  <2>1. v \in Seq(Ink) /\ Len(v) = w /\ DOMAIN s = 1..Len(s)
    BY <1>1 DEF Ink
  <2>2. \A i \in 1..w : v[i] = IF i \in DOMAIN s THEN s[i] ELSE 0
    <3> SUFFICES ASSUME NEW i \in 1..w PROVE v[i] = IF i \in DOMAIN s THEN s[i] ELSE 0
      OBVIOUS
    <3>1. CASE i \in 1..Len(s)
      BY <2>1, <3>1
    <3>2. CASE i \notin 1..Len(s)
      <4>1. i - Len(s) \in 1..Len(z) /\ v[i] = z[i - Len(s)]
        BY <1>1, <3>2
      <4>2. z[i - Len(s)] = 0
        BY <4>1
      <4> QED
        BY <2>1, <3>2, <4>1, <4>2
    <3> QED
      BY <3>1, <3>2
  <2> HIDE DEF v
  <2>3. v = u
    BY <2>1, <2>2
  <2> QED
    BY <2>3 DEF v
<1>2. ASSUME NEW t \in Seq(Ink), Len(s) = w
      PROVE  s = [i \in 1..w |-> IF i \in DOMAIN (s \o t) THEN (s \o t)[i] ELSE 0]
  <2>1. \A i \in 1..w : i \in DOMAIN (s \o t) /\ (s \o t)[i] = s[i]
    BY <1>2
  <2>2. s = [i \in 1..w |-> s[i]]
    BY <1>2
  <2> QED
    BY <2>1, <2>2
<1> QED
  BY <1>1, <1>2

\* White bytes are bytes, and white however they are read.
LEMMA WhiteBytes ==
    /\ CP!White(Bits) \in CP!ByteSet /\ CP!Reverse(CP!White(Bits)) = CP!White(Bits)
    /\ \A n \in Nat : LET z == [i \in 1..n |-> CP!White(Bits)]
                      IN  /\ z \in InkRow /\ Len(z) = n
                          /\ Flat(z) \in Seq({0}) /\ Len(Flat(z)) = n * Bits
<1>1. Bits \in Nat \ {0}
  BY RastersAssumption
<1>2. CP!White(Bits) \in CP!ByteSet /\ CP!White(Bits) \in Seq({0}) /\ Len(CP!White(Bits)) = Bits
  BY <1>1 DEF CP!White, CP!ByteSet
<1>3. CP!Reverse(CP!White(Bits)) = CP!White(Bits)
  <2>1. \A i \in 1..Bits : (Bits - i) + 1 \in 1..Bits
    BY <1>1
  <2> QED
    BY <1>1, <1>2, <2>1 DEF CP!Reverse, CP!White
<1>4. ASSUME NEW n \in Nat
      PROVE  LET z == [i \in 1..n |-> CP!White(Bits)]
             IN  /\ z \in InkRow /\ Len(z) = n
                 /\ Flat(z) \in Seq({0}) /\ Len(Flat(z)) = n * Bits
  <2> DEFINE w == CP!White(Bits)
             z == [i \in 1..n |-> w]
  <2> HIDE DEF w
  <2>1. Len(z) = n /\ \A i \in 1..n : z[i] = w
    OBVIOUS
  <2>2. z \in Seq(CP!ByteSet) /\ z \in Seq(Seq({0}))
    BY <1>2 DEF w
  <2>3. \A i \in 1..Len(z) : Len(z[i]) = Bits
    BY <1>2, <2>1 DEF w
  <2> HIDE DEF z
  <2>4. Flat(z) \in Seq({0}) /\ Len(Flat(z)) = Len(z) * Bits
    BY <1>1, <2>2, <2>3, FlatAppend, FlatLength
  <2> QED
    BY <2>1, <2>2, <2>4 DEF z, w, InkRow
<1> QED
  BY <1>2, <1>3, <1>4

\* A plain frame prints the row: a byte reversed for the printer and reversed
\* by it, the rest cut off or white.
LEMMA PlainPrints ==
    ASSUME NEW row \in InkRow
    PROVE  CP!Printed(CP!FrameRowPlain(row)) = <<PrinterRow(row)>>
<1> DEFINE bytes == IF Len(row) > RowBytes THEN SubSeq(row, 1, RowBytes) ELSE row
           k == Len(bytes)
           blank == [i \in 1..(RowBytes - k) |-> CP!White(Bits)]
           sent == [n \in 1..RowBytes |->
                       IF n \in DOMAIN bytes THEN CP!ReverseBits(bytes[n]) ELSE CP!White(Bits)]
           drawn == [n \in 1..RowBytes |-> CP!Reverse(sent[n])]
           W == RowBytes * Bits
<1>1. RowBytes \in Nat \ {0} /\ Bits \in Nat \ {0} /\ row \in Seq(CP!ByteSet) /\ Len(row) \in Nat
  BY RastersAssumption DEF InkRow
<1>2. bytes \in Seq(CP!ByteSet) /\ k \in 0..RowBytes /\ DOMAIN bytes = 1..k
  BY <1>1
<1>3. k = IF Len(row) > RowBytes THEN RowBytes ELSE Len(row)
  BY <1>1
<1>4. blank \in Seq(CP!ByteSet) /\ Len(blank) = RowBytes - k
      /\ Flat(blank) \in Seq({0}) /\ Len(Flat(blank)) = (RowBytes - k) * Bits
  <2>1. RowBytes - k \in Nat
    BY <1>1, <1>2
  <2> HIDE DEF k
  <2> QED
    BY <2>1, WhiteBytes DEF InkRow
<1>5. CP!FrameRowPlain(row) = [cmd |-> "draw", payload |-> sent]
  BY DEF CP!FrameRowPlain, CP!Frame
<1>6. CP!Printed(CP!FrameRowPlain(row)) = <<CP!Pixels(drawn)>>
  <2> DEFINE fr == CP!FrameRowPlain(row)
  <2>1. DOMAIN sent = 1..RowBytes
    OBVIOUS
  <2> HIDE DEF sent
  <2>2. fr.cmd = "draw" /\ fr.payload = sent
    BY <1>5
  <2> HIDE DEF fr
  <2>3. CP!Printed(fr) = <<CP!Pixels([n \in DOMAIN fr.payload |-> CP!Reverse(fr.payload[n])])>>
    BY <2>2, Zenon DEF CP!Printed
  <2>4. [n \in DOMAIN fr.payload |-> CP!Reverse(fr.payload[n])] = drawn
    BY <2>1, <2>2
  <2> QED
    BY <2>3, <2>4 DEF fr
<1>7. \A n \in 1..RowBytes : drawn[n] = IF n \in 1..k THEN bytes[n] ELSE CP!White(Bits)
  <2> SUFFICES ASSUME NEW n \in 1..RowBytes
               PROVE  drawn[n] = IF n \in 1..k THEN bytes[n] ELSE CP!White(Bits)
    OBVIOUS
  <2>1. drawn[n] = CP!Reverse(IF n \in 1..k THEN CP!ReverseBits(bytes[n]) ELSE CP!White(Bits))
    BY <1>2
  <2>2. n \in 1..k => bytes[n] \in CP!ByteSet
    BY <1>2
  <2> HIDE DEF drawn, sent, bytes, k
  <2> QED
    BY <2>1, <2>2, ReversedTwice, WhiteBytes
<1>8. drawn = bytes \o blank
  <2>1. \A n \in 1..RowBytes : n \notin 1..k => n - k \in 1..(RowBytes - k)
    BY <1>1, <1>2
  <2>2. \A n \in 1..(RowBytes - k) : blank[n] = CP!White(Bits)
    OBVIOUS
  <2>3. drawn = [n \in 1..RowBytes |-> drawn[n]]
    OBVIOUS
  <2> HIDE DEF bytes, blank, sent, drawn, k
  <2> DEFINE u == bytes \o blank
  <2>4. u = [n \in 1..RowBytes |-> u[n]]
    <3>1. u \in Seq(CP!ByteSet) /\ Len(u) = RowBytes
      BY <1>1, <1>2, <1>4, JoinType DEF k
    <3> HIDE DEF u
    <3> QED
      BY <3>1
  <2>5. \A n \in 1..RowBytes : u[n] = drawn[n]
    <3> SUFFICES ASSUME NEW n \in 1..RowBytes PROVE u[n] = drawn[n]
      OBVIOUS
    <3>1. n \in 1..k => u[n] = bytes[n]
      BY <1>2, <1>4 DEF k
    <3>2. n \notin 1..k => u[n] = blank[n - k]
      BY <1>1, <1>2, <1>4 DEF k
    <3> HIDE DEF u
    <3> QED
      BY <1>7, <2>1, <2>2, <3>1, <3>2
  <2> HIDE DEF u
  <2>6. u = drawn
    BY <2>3, <2>4, <2>5, Zenon
  <2> QED
    BY <2>6 DEF u
<1> HIDE DEF bytes, blank, sent, drawn
<1>9. CP!Pixels(drawn) = Flat(bytes) \o Flat(blank)
  <2>1. drawn \in InkRow
    BY <1>2, <1>4, <1>8, JoinType DEF InkRow
  <2>2. bytes \in Seq(Seq(Ink)) /\ blank \in Seq(Seq(Ink))
    BY <1>2, <1>4, PixelsOf DEF InkRow
  <2> QED
    BY <1>8, <2>1, <2>2, PixelsOf, FlatConcat
<1>10. Flat(bytes) \in Seq(Ink) /\ Len(Flat(bytes)) = k * Bits
  BY <1>2, PixelsOf DEF InkRow
<1>11. k * Bits + (RowBytes - k) * Bits = W
  BY <1>1, <1>2
<1>12. CP!Pixels(row) = Flat(row)
  BY PixelsOf
<1>13. CASE Len(row) > RowBytes
  <2> DEFINE rest == SubSeq(row, RowBytes + 1, Len(row))
  <2>1. rest \in Seq(CP!ByteSet) /\ row = bytes \o rest
    <3>1. RowBytes \in 0..Len(row) /\ bytes = SubSeq(row, 1, RowBytes)
      BY <1>1, <1>13 DEF bytes
    <3>2. SplitsAt(CP!ByteSet, row, RowBytes)
      BY <1>1, <3>1, SplitAt
    <3> QED
      BY <3>1, <3>2 DEF SplitsAt
  <2> HIDE DEF rest
  <2>2. Flat(row) = Flat(bytes) \o Flat(rest) /\ Flat(rest) \in Seq(Ink)
    <3>1. rest \in Seq(Seq(Ink)) /\ bytes \in Seq(Seq(Ink)) /\ Flat(rest) \in Seq(Ink)
      BY <1>2, <2>1, PixelsOf DEF InkRow
    <3> QED
      BY <2>1, <3>1, FlatConcat
  <2>3. k = RowBytes /\ k * Bits = W
    BY <1>1, <1>3, <1>13
  <2>4. Flat(blank) = <<>>
    <3>1. (RowBytes - k) * Bits = 0
      BY <1>1, <2>3
    <3> QED
      BY <1>4, <3>1
  <2>5. Flat(bytes) \o Flat(blank) = Flat(bytes)
    BY <1>10, <2>4, Joined
  <2>6. W \in Nat /\ Len(Flat(bytes)) = W
    BY <1>10, <2>3, ProductOrder
  <2> HIDE DEF k, W
  <2>7. Flat(bytes) = [i \in 1..W |-> IF i \in DOMAIN (Flat(bytes) \o Flat(rest))
                                     THEN (Flat(bytes) \o Flat(rest))[i] ELSE 0]
    BY <1>10, <2>2, <2>6, FilledOrCut
  <2>8. PrinterRow(row) = Flat(bytes)
    BY <1>12, <2>2, <2>7, Zenon DEF PrinterRow, W
  <2> QED
    BY <1>6, <1>9, <2>5, <2>8, Zenon
<1>14. CASE ~(Len(row) > RowBytes)
  <2>1. bytes = row
    BY <1>14 DEF bytes
  <2>2. Len(Flat(bytes)) + Len(Flat(blank)) = W /\ W \in Nat
    BY <1>1, <1>4, <1>10, <1>11, ProductOrder
  <2> HIDE DEF k, W
  <2>3. Flat(bytes) \o Flat(blank)
            = [i \in 1..W |-> IF i \in DOMAIN Flat(bytes) THEN Flat(bytes)[i] ELSE 0]
    BY <1>4, <1>10, <2>2, FilledOrCut
  <2>4. PrinterRow(row) = Flat(bytes) \o Flat(blank)
    BY <1>12, <2>1, <2>3, Zenon DEF PrinterRow, W
  <2> QED
    BY <1>6, <1>9, <2>4, Zenon
<1> QED
  BY <1>13, <1>14


\* The pixels of runs.
RunPixels == [r \in RunSet |-> CP!Run(r)]
Spread(runs) == Flat(Map(RunPixels, runs))
OneRun(v, n) == [val |-> v, len |-> n]

\* What a printer draws of a run.
LEMMA RunDrawn ==
    ASSUME NEW v \in Ink, NEW n \in Nat
    PROVE  /\ CP!Run(OneRun(v, n)) = [i \in 1..n |-> v]
           /\ CP!Run(OneRun(v, n)) \in Seq(Ink) /\ OneRun(v, n) \in RunSet
           /\ Len(CP!Run(OneRun(v, n))) = n
<1>1. CP!Run(OneRun(v, n)) = [i \in 1..n |-> v]
  BY DEF CP!Run, OneRun
<1>2. OneRun(v, n) \in RunSet
  BY DEF OneRun, RunSet
<1> QED
  BY <1>1, <1>2

\* Two runs of one value are one run.
LEMMA RunsJoin ==
    ASSUME NEW v \in Ink, NEW a \in Nat, NEW b \in Nat
    PROVE  CP!Run(OneRun(v, a)) \o CP!Run(OneRun(v, b)) = CP!Run(OneRun(v, a + b))
<1> DEFINE s == [i \in 1..a |-> v]
           t == [i \in 1..b |-> v]
           u == [i \in 1..(a + b) |-> v]
<1>1. s \in Seq(Ink) /\ t \in Seq(Ink) /\ u \in Seq(Ink) /\ Len(s) = a /\ Len(t) = b
      /\ Len(u) = a + b /\ a + b \in Nat
  OBVIOUS
<1>2. /\ \A i \in 1..a : s[i] = v
      /\ \A i \in 1..b : t[i] = v
      /\ \A i \in 1..(a + b) : u[i] = v
  OBVIOUS
<1>3. s = CP!Run(OneRun(v, a)) /\ t = CP!Run(OneRun(v, b)) /\ u = CP!Run(OneRun(v, a + b))
  BY <1>1, RunDrawn
<1> HIDE DEF s, t, u
<1>4. s \o t \in Seq(Ink) /\ Len(s \o t) = a + b
  BY <1>1
<1>5. \A i \in 1..(a + b) : (s \o t)[i] = v
  <2> SUFFICES ASSUME NEW i \in 1..(a + b) PROVE (s \o t)[i] = v
    OBVIOUS
  <2>1. CASE i <= a
    BY <1>1, <1>2, <2>1
  <2>2. CASE ~(i <= a)
    <3>1. i - a \in 1..b /\ (s \o t)[i] = t[i - a]
      BY <1>1, <2>2
    <3> QED
      BY <1>2, <3>1
  <2> QED
    BY <2>1, <2>2
<1>6. s \o t = u
  <2> DEFINE w == s \o t
  <2>1. w \in Seq(Ink) /\ Len(w) = a + b /\ \A i \in 1..(a + b) : w[i] = v
    BY <1>4, <1>5
  <2> HIDE DEF w
  <2>2. w = u
    BY <1>1, <1>2, <2>1
  <2> QED
    BY <2>2 DEF w
<1> QED
  BY <1>3, <1>6

\* The pixels of no run, of one more, and of two sequences of runs.
LEMMA SpreadFacts ==
    ASSUME NEW s \in Seq(RunSet)
    PROVE  /\ Map(RunPixels, s) \in Seq(Seq(Ink)) /\ Spread(s) \in Seq(Ink) /\ Spread(<<>>) = <<>>
           /\ \A r \in RunSet : Spread(Append(s, r)) = Spread(s) \o CP!Run(r)
           /\ \A t \in Seq(RunSet) : Spread(s \o t) = Spread(s) \o Spread(t)
<1>1. Takes(RunPixels, RunSet, Seq(Ink))
  <2>1. ASSUME NEW r \in RunSet PROVE CP!Run(r) \in Seq(Ink)
    <3>1. r = OneRun(r.val, r.len) /\ r.val \in Ink /\ r.len \in Nat
      BY DEF RunSet, OneRun
    <3> QED
      BY <3>1, RunDrawn
  <2> QED
    BY <2>1 DEF RunPixels, Takes
<1>2. Map(RunPixels, s) \in Seq(Seq(Ink))
  BY <1>1, MapFacts
<1>3. Spread(s) \in Seq(Ink)
  BY <1>2, FlatAppend DEF Spread
<1>4. Spread(<<>>) = <<>>
  BY MapNothing, FlatOne DEF Spread
<1>5. ASSUME NEW r \in RunSet PROVE Spread(Append(s, r)) = Spread(s) \o CP!Run(r)
  <2>1. Map(RunPixels, Append(s, r)) = Append(Map(RunPixels, s), RunPixels[r])
    BY <1>1, MapAppend
  <2>2. RunPixels[r] = CP!Run(r) /\ RunPixels[r] \in Seq(Ink)
    BY <1>1 DEF RunPixels, Takes
  <2> QED
    BY <1>2, <2>1, <2>2, FlatAppend DEF Spread
<1>6. ASSUME NEW t \in Seq(RunSet) PROVE Spread(s \o t) = Spread(s) \o Spread(t)
  <2>1. Map(RunPixels, s \o t) = Map(RunPixels, s) \o Map(RunPixels, t)
    BY <1>1, MapJoin
  <2>2. Map(RunPixels, t) \in Seq(Seq(Ink))
    BY <1>1, MapFacts
  <2> QED
    BY <1>2, <2>1, <2>2, FlatConcat DEF Spread
<1> QED
  BY <1>2, <1>3, <1>4, <1>5, <1>6

\* A run cut into chunks has the run's pixels.
LEMMA ChunksAreRun ==
    ASSUME NEW v \in Ink, NEW len \in Nat
    PROVE  CP!PushRun(v, len) \in Seq(RunSet)
           /\ Spread(CP!PushRun(v, len)) = CP!Run(OneRun(v, len))
<1> DEFINE M == MaxRun
           c == (len + M - 1) \div M
           Chunk(n) == IF n * M > len THEN len % M ELSE M
           s == CP!PushRun(v, len)
           Least(n) == IF n * M > len THEN len ELSE n * M
           T == {n \in 0..c : Spread(SubSeq(s, 1, n)) = CP!Run(OneRun(v, Least(n)))}
<1>1. M \in Nat \ {0} /\ len + M - 1 \in Nat
  BY RastersAssumption
<1> HIDE DEF M
<1>2. c \in Nat /\ c * M <= len + M - 1 /\ len + M - 1 < c * M + M
  <2> DEFINE a == len + M - 1
  <2>1. a \in Nat
    BY <1>1
  <2> HIDE DEF a
  <2>2. a \div M \in Nat /\ a % M \in 0..(M - 1) /\ a = (a \div M) * M + (a % M)
    BY <1>1, <2>1, QuotientIs
  <2>3. (a \div M) * M \in Nat
    BY <1>1, <2>2, ProductOrder
  <2> QED
    BY <1>1, <2>2, <2>3 DEF a
<1> HIDE DEF c
<1>3. ASSUME NEW n \in 1..c
      PROVE  /\ Chunk(n) \in Nat /\ Least(n - 1) \in Nat
             /\ Least(n - 1) + Chunk(n) = Least(n)
  <2>1. (n - 1) * M = n * M - M /\ n * M \in Nat /\ (n - 1) * M \in Nat
    <3>1. n \in Nat /\ n - 1 \in Nat /\ M \in Nat
      BY <1>1, <1>2
    <3>2. (n - 1) * M = n * M - M
      BY <3>1
    <3> QED
      BY <3>1, <3>2, ProductOrder
  <2>2. n * M <= c * M
    <3>1. n \in Nat /\ c \in Nat /\ M \in Nat /\ n <= c
      BY <1>1, <1>2
    <3> QED
      BY <3>1, ProductOrder
  <2>3. (n - 1) * M < len
    BY <1>1, <1>2, <2>1, <2>2
  <2>4. CASE n * M > len
    <3>1. n - 1 \in Nat /\ (n - 1) * M <= len /\ len < (n - 1) * M + M
      BY <1>1, <1>2, <2>1, <2>3, <2>4
    <3>2. len % M = len - (n - 1) * M
      BY <1>1, <3>1, QuotientOnly
    <3> QED
      BY <1>1, <2>1, <2>3, <2>4, <3>2
  <2>5. CASE ~(n * M > len)
    BY <1>1, <2>1, <2>3, <2>5
  <2> QED
    BY <2>4, <2>5
<1>4. s \in Seq(RunSet) /\ Len(s) = c /\ \A n \in 1..c : s[n] = OneRun(v, Chunk(n))
  <2>1. s = [n \in 1..c |-> OneRun(v, Chunk(n))]
    BY DEF CP!PushRun, OneRun, M, c
  <2>2. \A n \in 1..c : OneRun(v, Chunk(n)) \in RunSet
    BY <1>3 DEF OneRun, RunSet
  <2> HIDE DEF s
  <2> QED
    BY <1>2, <2>1, <2>2
<1> HIDE DEF s, Chunk, Least
<1>5. 0 \in T
  <2>1. SubSeq(s, 1, 0) = <<>>
    BY <1>4, LongerPrefix
  <2>2. Least(0) = 0
    BY <1>1 DEF Least
  <2>3. CP!Run(OneRun(v, 0)) = <<>>
    <3>1. CP!Run(OneRun(v, 0)) = [i \in 1..0 |-> v]
      BY RunDrawn
    <3> QED
      BY <3>1
  <2> QED
    <3>1. Spread(<<>>) = <<>> /\ 0 \in 0..c
      BY <1>2, <1>4, SpreadFacts
    <3> QED
      BY <2>1, <2>2, <2>3, <3>1
<1>6. ASSUME NEW n \in 1..c, n - 1 \in T PROVE n \in T
  <2> DEFINE u == SubSeq(s, 1, n - 1)
  <2>1. u \in Seq(RunSet) /\ SubSeq(s, 1, n) = Append(u, s[n])
    BY <1>4, LongerPrefix
  <2>2. Spread(u) = CP!Run(OneRun(v, Least(n - 1))) /\ n \in 0..c
    BY <1>2, <1>6
  <2> HIDE DEF u
  <2>3. s[n] = OneRun(v, Chunk(n)) /\ s[n] \in RunSet
    BY <1>3, <1>4, RunDrawn
  <2>4. Spread(Append(u, s[n])) = Spread(u) \o CP!Run(s[n])
    BY <2>1, <2>3, SpreadFacts
  <2>5. CP!Run(OneRun(v, Least(n - 1))) \o CP!Run(OneRun(v, Chunk(n))) = CP!Run(OneRun(v, Least(n)))
    <3> DEFINE a == Least(n - 1)
               b == Chunk(n)
    <3>1. a \in Nat /\ b \in Nat /\ a + b = Least(n)
      BY <1>3
    <3> HIDE DEF a, b
    <3>2. CP!Run(OneRun(v, a)) \o CP!Run(OneRun(v, b)) = CP!Run(OneRun(v, a + b))
      BY <3>1, RunsJoin
    <3> QED
      BY <3>1, <3>2 DEF a, b
  <2> QED
    BY <2>1, <2>2, <2>3, <2>4, <2>5
<1> HIDE DEF T
<1>7. 0..c \subseteq T
  BY <1>2, <1>5, <1>6, UpTo
<1>8. Spread(SubSeq(s, 1, c)) = CP!Run(OneRun(v, Least(c)))
  <2>1. c \in T
    BY <1>2, <1>7
  <2> QED
    BY <2>1 DEF T
<1>9. SubSeq(s, 1, c) = s
  BY <1>4, LongerPrefix
<1>10. Least(c) = len
  BY <1>1, <1>2 DEF Least
<1> QED
  BY <1>4, <1>8, <1>9, <1>10 DEF s


\* What is scanned of a row, after x pixels.
Scanned(px, x) ==
    {r \in [out : Seq(RunSet), val : Ink, len : Nat] :
        Spread(r.out) \o CP!Run(OneRun(r.val, r.len)) = SubSeq(px, 1, x)}

\* A pixel that is scanned is added to what the runs draw.
LEMMA ScanStep ==
    ASSUME NEW px \in Seq(Ink), NEW x \in 1..Len(px), NEW r \in Scanned(px, x - 1)
    PROVE  CP!Scan(r, px[x]) \in Scanned(px, x)
<1> DEFINE b == px[x]
           d == CP!Run(OneRun(r.val, r.len))
           before == SubSeq(px, 1, x - 1)
           new == CP!Scan(r, b)
<1>1. b \in Ink /\ r.out \in Seq(RunSet) /\ r.val \in Ink /\ r.len \in Nat
      /\ Spread(r.out) \o d = before
  BY DEF Scanned
<1>2. SubSeq(px, 1, x) = Append(before, b) /\ before \in Seq(Ink)
  BY LongerPrefix
<1>3. Spread(r.out) \in Seq(Ink) /\ d \in Seq(Ink)
  BY <1>1, SpreadFacts, RunDrawn
<1>4. CP!Run(OneRun(b, 1)) = <<b>> /\ OneRun(b, 1) \in RunSet
  <2>1. CP!Run(OneRun(b, 1)) = [i \in 1..1 |-> b]
    BY <1>1, RunDrawn
  <2>2. [i \in 1..1 |-> b] = <<b>>
    OBVIOUS
  <2> HIDE DEF b
  <2>3. OneRun(b, 1) \in RunSet
    BY <1>1, RunDrawn
  <2> QED
    BY <2>1, <2>2, <2>3
<1> HIDE DEF b, d, before
<1>5. Append(before, b) = before \o <<b>>
  BY <1>1, <1>2, JoinLast
<1>6. CASE b = r.val
  <2>1. new = [out |-> r.out, val |-> r.val, len |-> r.len + 1]
    BY <1>1, <1>6 DEF CP!Scan, Scanned
  <2> HIDE DEF new
  <2>2. new.out = r.out /\ new.val = r.val /\ new.len = r.len + 1
        /\ new \in [out : Seq(RunSet), val : Ink, len : Nat]
    BY <1>1, <2>1
  <2>3. d \o <<b>> = CP!Run(OneRun(new.val, new.len))
    <3> DEFINE v == r.val
               n == r.len
    <3>1. v \in Ink /\ n \in Nat /\ 1 \in Nat
      BY <1>1
    <3> HIDE DEF v, n
    <3>2. CP!Run(OneRun(v, n)) \o CP!Run(OneRun(v, 1)) = CP!Run(OneRun(v, n + 1))
      BY <3>1, RunsJoin
    <3>3. d = CP!Run(OneRun(v, n)) /\ CP!Run(OneRun(v, 1)) = <<b>>
      BY <1>4, <1>6, Zenon DEF d, v, n
    <3>4. new.val = v /\ new.len = n + 1
      BY <2>2, Zenon DEF v, n
    <3> QED
      BY <3>2, <3>3, <3>4, Zenon
  <2>4. <<b>> \in Seq(Ink)
    BY <1>1
  <2>5. (Spread(r.out) \o d) \o <<b>> = Spread(r.out) \o (d \o <<b>>)
    <3> DEFINE s == Spread(r.out)
               t == <<b>>
    <3>1. s \in Seq(Ink) /\ t \in Seq(Ink) /\ d \in Seq(Ink)
      BY <1>3, <2>4
    <3> HIDE DEF s, t
    <3>2. Associates(s, d, t)
      BY <3>1, JoinThree
    <3> QED
      BY <3>2 DEF s, t, Associates
  <2>6. Spread(new.out) \o CP!Run(OneRun(new.val, new.len)) = SubSeq(px, 1, x)
    BY <1>1, <1>2, <1>5, <2>2, <2>3, <2>5, Zenon
  <2> QED
    BY <2>2, <2>6 DEF Scanned, new, b
<1>7. CASE b # r.val
  <2> DEFINE push == CP!PushRun(r.val, r.len)
  <2>1. new = [out |-> r.out \o push, val |-> b, len |-> 1]
    BY <1>7 DEF CP!Scan
  <2>2. push \in Seq(RunSet) /\ Spread(push) = d
    BY <1>1, ChunksAreRun DEF d
  <2> HIDE DEF new, push
  <2>3. new.out = r.out \o push /\ new.val = b /\ new.len = 1
        /\ new \in [out : Seq(RunSet), val : Ink, len : Nat]
    BY <1>1, <2>1, <2>2, JoinType
  <2>4. Spread(new.out) = Spread(r.out) \o d
    BY <1>1, <2>2, <2>3, SpreadFacts
  <2>5. Spread(new.out) \o CP!Run(OneRun(new.val, new.len)) = SubSeq(px, 1, x)
    BY <1>1, <1>2, <1>4, <1>5, <2>3, <2>4, Zenon
  <2> QED
    BY <2>3, <2>5 DEF Scanned, new, b
<1> QED
  BY <1>6, <1>7

\* The runs of a row draw the row.
LEMMA RunsDrawRow ==
    ASSUME NEW px \in Seq(Ink)
    PROVE  CP!Runs(px) \in Seq(RunSet) /\ Spread(CP!Runs(px)) = px
<1> DEFINE L == Len(px)
           x0 == [out |-> <<>>, val |-> 0, len |-> 0]
           RS == [out : Seq(RunSet), val : Ink, len : Nat]
           P(h) == h = [x \in 0..L |-> IF x = 0 THEN x0 ELSE CP!Scan(h[x - 1], px[x])]
           k == CHOOSE h : P(h)
           G == [p \in (1..L) \X RS |-> CP!Scan(p[2], px[p[1]])]
           U == [x \in 0..L |-> Scanned(px, x)]
<1>1. L \in Nat /\ 0 \in 0..L /\ L \in 0..L
      /\ \A x \in 1..L : x \in 0..L /\ x - 1 \in 0..L /\ x # 0
  OBVIOUS
<1>2. \A x \in 1..L : \A r \in RS : G[<<x, r>>] = CP!Scan(r, px[x])
  OBVIOUS
<1>3. \A x \in 0..L : U[x] = Scanned(px, x)
  OBVIOUS
<1>4. x0 \in Scanned(px, 0)
  <2>1. x0.out = <<>> /\ x0.val = 0 /\ x0.len = 0 /\ x0 \in RS
    BY DEF Ink
  <2>2. CP!Run(OneRun(0, 0)) = <<>>
    <3>1. CP!Run(OneRun(0, 0)) = [i \in 1..0 |-> 0]
      BY RunDrawn DEF Ink
    <3> QED
      BY <3>1
  <2>3. Spread(<<>>) = <<>> /\ <<>> \o <<>> = <<>>
    <3>1. <<>> \in Seq(RunSet) /\ <<>> \in Seq(Ink)
      OBVIOUS
    <3> QED
      BY <3>1, SpreadFacts, Joined
  <2>4. SubSeq(px, 1, 0) = <<>>
    BY LongerPrefix
  <2> HIDE DEF x0
  <2>5. Spread(x0.out) \o CP!Run(OneRun(x0.val, x0.len)) = SubSeq(px, 1, 0)
    BY <2>1, <2>2, <2>3, <2>4
  <2> QED
    BY <2>1, <2>5 DEF Scanned
<1>5. Scanned(px, 0) \subseteq RS /\ \A x \in 1..L : Scanned(px, x - 1) \subseteq RS
  BY DEF Scanned
<1> HIDE DEF L, x0, RS, G, U
<1>6. \A x \in 1..L : \A r \in Scanned(px, x - 1) : CP!Scan(r, px[x]) \in Scanned(px, x)
  BY ScanStep DEF L
<1>7. PICK f : Recursive(f, L, x0, G)
  BY <1>1, RecursionDefines
<1>8. \A x \in 0..L : f[x] \in U[x]
  <2>1. x0 \in U[0]
    BY <1>1, <1>3, <1>4
  <2>2. \A x \in 1..L : \A r \in U[x - 1] : G[<<x, r>>] \in U[x]
    <3> SUFFICES ASSUME NEW x \in 1..L, NEW r \in U[x - 1] PROVE G[<<x, r>>] \in U[x]
      OBVIOUS
    <3>1. r \in Scanned(px, x - 1) /\ U[x] = Scanned(px, x)
      BY <1>1, <1>3
    <3>2. G[<<x, r>>] = CP!Scan(r, px[x])
      BY <1>2, <1>5, <3>1
    <3> QED
      BY <1>6, <3>1, <3>2
  <2> QED
    BY <1>1, <1>7, <2>1, <2>2, RecursionIn
<1>9. P(f)
  <2>1. ASSUME NEW x \in 0..L PROVE f[x] = IF x = 0 THEN x0 ELSE CP!Scan(f[x - 1], px[x])
    <3>1. f[x] = IF x = 0 THEN x0 ELSE G[<<x, f[x - 1]>>]
      BY <1>7 DEF Recursive
    <3>2. CASE x # 0
      <4>1. x \in 1..L /\ x - 1 \in 0..L
        BY <1>1, <3>2
      <4>2. f[x - 1] \in RS
        BY <1>3, <1>5, <1>8, <4>1
      <4> QED
        BY <1>2, <3>1, <3>2, <4>1, <4>2
    <3> QED
      BY <3>1, <3>2
  <2>2. f = [x \in 0..L |-> f[x]]
    BY <1>7 DEF Recursive
  <2> QED
    BY <2>1, <2>2
<1>10. P(k)
  <2> HIDE DEF P
  <2> QED
    BY <1>9
<1>11. CP!Runs(px) = k[L].out \o CP!PushRun(k[L].val, k[L].len)
  BY DEF CP!Runs, L, x0
<1> HIDE DEF k
<1>12. \A x \in 0..L : k[x] \in Scanned(px, x)
  <2> DEFINE T == {x \in 0..L : k[x] \in Scanned(px, x)}
  <2>1. 0 \in T
    BY <1>1, <1>4, <1>10
  <2>2. ASSUME NEW x \in 1..L, x - 1 \in T PROVE x \in T
    <3>1. k[x] = CP!Scan(k[x - 1], px[x])
      BY <1>1, <1>10
    <3> QED
      BY <1>1, <1>6, <2>2, <3>1
  <2> HIDE DEF T
  <2>3. 0..L \subseteq T
    BY <1>1, <2>1, <2>2, UpTo
  <2> QED
    BY <2>3 DEF T
<1> HIDE DEF P
<1> DEFINE r == k[L]
           push == CP!PushRun(r.val, r.len)
<1>13. r.out \in Seq(RunSet) /\ r.val \in Ink /\ r.len \in Nat
       /\ Spread(r.out) \o CP!Run(OneRun(r.val, r.len)) = SubSeq(px, 1, L)
  <2>1. r \in Scanned(px, L)
    BY <1>1, <1>12
  <2> HIDE DEF r
  <2> QED
    BY <2>1 DEF Scanned
<1> HIDE DEF r
<1>14. push \in Seq(RunSet) /\ Spread(push) = CP!Run(OneRun(r.val, r.len))
  BY <1>13, ChunksAreRun
<1> HIDE DEF push
<1>15. r.out \o push \in Seq(RunSet) /\ Spread(r.out \o push) = Spread(r.out) \o Spread(push)
  BY <1>13, <1>14, JoinType, SpreadFacts
<1>16. SubSeq(px, 1, L) = px
  BY LongerPrefix DEF L
<1>17. CP!Runs(px) = r.out \o push
  BY <1>11 DEF r, push
<1> QED
  BY <1>13, <1>14, <1>15, <1>16, <1>17, Zenon


\* FlattenSeq, as the driver and the layout use it.
LEMMA FlattenIsFlat ==
    ASSUME NEW S, NEW ss \in Seq(Seq(S))
    PROVE  CP!FlattenSeq(ss) = Flat(ss) /\ TL!FlattenSeq(ss) = Flat(ss)
<1>1. CASE ss = <<>>
  <2>1. Len(ss) = 0
    BY <1>1
  <2>2. Flat(ss) = ss
    BY <1>1, FlatOne
  <2> QED
    BY <2>1, <2>2 DEF CP!FlattenSeq, TL!FlattenSeq
<1>2. CASE ss # <<>>
  <2>1. Len(ss) # 0
    BY <1>2
  <2>2. CP!FlattenSeq(ss) = Flat(ss)
    BY <1>2, <2>1, FlattenSeqIs DEF CP!FlattenSeq
  <2>3. TL!FlattenSeq(ss) = Flat(ss)
    BY <1>2, <2>1, FlattenSeqIs DEF TL!FlattenSeq
  <2> QED
    BY <2>2, <2>3
<1> QED
  BY <1>1, <1>2

\* A row of the printer's width is printed as it is.
LEMMA FullRow ==
    ASSUME NEW row \in InkRow, Len(row) = RowBytes
    PROVE  PrinterRow(row) = Flat(row)
<1> DEFINE W == RowBytes * Bits
           px == Flat(row)
<1>1. px \in Seq(Ink) /\ Len(px) = W /\ CP!Pixels(row) = px /\ W \in Nat
  BY PixelsOf, ProductOrder, RastersAssumption
<1> HIDE DEF px, W
<1>2. <<>> \in Seq(Ink) /\ px \o <<>> = px
  BY <1>1, Joined
<1>3. px = [i \in 1..W |-> IF i \in DOMAIN (px \o <<>>) THEN (px \o <<>>)[i] ELSE 0]
  BY <1>1, <1>2, FilledOrCut
<1>4. PrinterRow(row) = [i \in 1..W |-> IF i \in DOMAIN px THEN px[i] ELSE 0]
  BY <1>1, Zenon DEF PrinterRow, W
<1>5. PrinterRow(row) = px
  BY <1>2, <1>3, <1>4, Zenon
<1> QED
  BY <1>5 DEF px

\* A row is printed at the printer's width, compressed or not.
LEMMA RowPrints ==
    ASSUME NEW row \in InkRow, NEW compress \in BOOLEAN
    PROVE  LET cut == IF Len(row) > RowBytes THEN SubSeq(row, 1, RowBytes) ELSE row
           IN  CP!Printed(CP!FrameRow(cut, compress)) = <<PrinterRow(row)>>
<1> DEFINE cut == IF Len(row) > RowBytes THEN SubSeq(row, 1, RowBytes) ELSE row
           runs == CP!Runs(CP!Pixels(cut))
<1>1. RowBytes \in Nat \ {0} /\ row \in Seq(CP!ByteSet) /\ Len(row) \in Nat
  BY RastersAssumption DEF InkRow
<1>2. cut \in InkRow /\ ~(Len(cut) > RowBytes)
  BY <1>1 DEF InkRow
<1>3. CP!FrameRowPlain(cut) = CP!FrameRowPlain(row)
  <2>1. (IF Len(cut) > RowBytes THEN SubSeq(cut, 1, RowBytes) ELSE cut) = cut
    BY <1>2
  <2> QED
    BY <2>1 DEF CP!FrameRowPlain
<1> HIDE DEF cut
<1>4. CP!Printed(CP!FrameRowPlain(cut)) = <<PrinterRow(row)>>
  BY <1>3, PlainPrints
<1>5. CP!Printed(CP!FrameRowPlain(cut)) = <<PrinterRow(cut)>>
  BY <1>2, PlainPrints
<1>6. PrinterRow(cut) = PrinterRow(row)
  BY <1>4, <1>5
<1>7. CASE compress /\ Len(cut) = RowBytes /\ Len(runs) < Len(cut)
  <2>1. runs \in Seq(RunSet) /\ Spread(runs) = Flat(cut)
    BY <1>2, PixelsOf, RunsDrawRow
  <2>2. CP!FrameRow(cut, compress) = CP!Frame("rle", runs)
    BY <1>7 DEF CP!FrameRow
  <2> HIDE DEF runs
  <2> DEFINE fr == CP!Frame("rle", runs)
  <2>3. fr.cmd = "rle" /\ fr.payload = runs
    BY DEF CP!Frame
  <2> HIDE DEF fr
  <2>4. CP!Printed(fr) = <<CP!FlattenSeq([n \in DOMAIN runs |-> CP!Run(runs[n])])>>
    <3>1. fr.cmd # "draw"
      BY <2>3
    <3> QED
      BY <2>3, <3>1, Zenon DEF CP!Printed
  <2>5. [n \in DOMAIN runs |-> CP!Run(runs[n])] = Map(RunPixels, runs)
    <3>1. \A n \in DOMAIN runs : runs[n] \in RunSet
      BY <2>1
    <3>2. \A n \in DOMAIN runs : RunPixels[runs[n]] = CP!Run(runs[n])
      BY <3>1 DEF RunPixels
    <3> QED
      BY <3>2 DEF Map
  <2>6. CP!FlattenSeq(Map(RunPixels, runs)) = Spread(runs)
    BY <2>1, SpreadFacts, FlattenIsFlat DEF Spread
  <2>7. PrinterRow(cut) = Flat(cut)
    BY <1>2, <1>7, FullRow
  <2>8. CP!Printed(CP!FrameRow(cut, compress)) = <<PrinterRow(row)>>
    BY <1>6, <2>1, <2>2, <2>4, <2>5, <2>6, <2>7, Zenon DEF fr
  <2> QED
    BY <2>8 DEF cut
<1>8. CASE ~(compress /\ Len(cut) = RowBytes /\ Len(runs) < Len(cut))
  <2>1. CP!FrameRow(cut, compress) = CP!FrameRowPlain(cut)
    BY <1>8, Zenon DEF CP!FrameRow
  <2> QED
    BY <1>4, <2>1 DEF cut
<1> QED
  BY <1>7, <1>8


\* The rows that should be on the paper: a blank one and the raster's.
PaperRows == Seq(Ink)
Wanted(ras) == <<CP!White(RowBytes * Bits)>> \o [n \in DOMAIN ras |-> PrinterRow(ras[n])]

\* They are rows of pixels.
LEMMA WantedRows ==
    ASSUME NEW ras \in Seq(InkRow)
    PROVE  /\ Wanted(ras) \in Seq(PaperRows) /\ Len(Wanted(ras)) = Len(ras) + 1
           /\ Wanted(ras)[1] = CP!White(RowBytes * Bits)
           /\ \A n \in 1..Len(ras) : Wanted(ras)[n + 1] = PrinterRow(ras[n])
<1> DEFINE w == CP!White(RowBytes * Bits)
           t == [n \in DOMAIN ras |-> PrinterRow(ras[n])]
<1>1. RowBytes * Bits \in Nat
  BY ProductOrder, RastersAssumption
<1>2. w \in PaperRows
  BY <1>1 DEF CP!White, PaperRows, Ink
<1>3. \A n \in 1..Len(ras) : PrinterRow(ras[n]) \in PaperRows
  <2> SUFFICES ASSUME NEW row \in InkRow PROVE PrinterRow(row) \in PaperRows
    OBVIOUS
  <2> DEFINE px == CP!Pixels(row)
  <2>1. px \in Seq(Ink)
    BY PixelsOf
  <2> HIDE DEF px
  <2>2. \A i \in DOMAIN px : px[i] \in Ink
    BY <2>1
  <2>3. [i \in 1..(RowBytes * Bits) |-> IF i \in DOMAIN px THEN px[i] ELSE 0] \in Seq(Ink)
    BY <1>1, <2>2 DEF Ink
  <2> QED
    BY <2>3 DEF PrinterRow, PaperRows, px
<1>4. DOMAIN ras = 1..Len(ras) /\ Len(ras) \in Nat
  OBVIOUS
<1>5. t \in Seq(PaperRows) /\ Len(t) = Len(ras)
      /\ \A n \in 1..Len(ras) : t[n] = PrinterRow(ras[n])
  BY <1>3, <1>4
<1> HIDE DEF w, t
<1>6. /\ <<w>> \o t \in Seq(PaperRows) /\ Len(<<w>> \o t) = Len(t) + 1
      /\ (<<w>> \o t)[1] = w /\ \A n \in 1..Len(t) : (<<w>> \o t)[n + 1] = t[n]
  BY <1>2, <1>5
<1> QED
  BY <1>5, <1>6 DEF Wanted, w, t

\* What the frames of rows from + 1 to `to` print.
LEMMA RowsPrint ==
    ASSUME NEW ras \in Seq(InkRow), NEW to \in 0..Len(ras), NEW from \in 0..to,
           NEW compress \in BOOLEAN
    PROVE  LET frames == CP!JobRows(ras, from, to, compress)
           IN  CP!FlattenSeq([n \in DOMAIN frames |-> CP!Printed(frames[n])])
                   = SubSeq(Wanted(ras), from + 2, to + 1)
<1> DEFINE frames == CP!JobRows(ras, from, to, compress)
           L == to - from
           rows == SubSeq(Wanted(ras), from + 2, to + 1)
           out == [n \in DOMAIN frames |-> CP!Printed(frames[n])]
           Cut(row) == IF Len(row) > RowBytes THEN SubSeq(row, 1, RowBytes) ELSE row
<1>1. L \in Nat /\ \A n \in 1..L : from + n \in 1..Len(ras) /\ ras[from + n] \in InkRow
  OBVIOUS
<1>2. frames = [n \in 1..L |-> CP!FrameRow(Cut(ras[from + n]), compress)]
  BY Zenon DEF CP!JobRows
<1>3. \A n \in 1..L : CP!Printed(CP!FrameRow(Cut(ras[from + n]), compress))
                        = <<PrinterRow(ras[from + n])>>
  BY <1>1, RowPrints
<1>4. out = [n \in 1..L |-> <<PrinterRow(ras[from + n])>>]
  <2> HIDE DEF frames, Cut
  <2>1. DOMAIN frames = 1..L
    BY <1>2
  <2>2. \A n \in 1..L : CP!Printed(frames[n]) = <<PrinterRow(ras[from + n])>>
    BY <1>2, <1>3
  <2> QED
    BY <2>1, <2>2
<1>5. rows \in Seq(PaperRows) /\ Len(rows) = L
      /\ \A n \in 1..L : rows[n] = PrinterRow(ras[from + n])
  <2> DEFINE all == Wanted(ras)
  <2>1. all \in Seq(PaperRows) /\ Len(all) = Len(ras) + 1
        /\ \A n \in 1..Len(ras) : all[n + 1] = PrinterRow(ras[n])
    BY WantedRows
  <2> HIDE DEF all
  <2>2. from + 2 \in 1..(Len(all) + 1) /\ to + 1 \in 0..Len(all)
    BY <2>1
  <2> DEFINE u == SubSeq(all, from + 2, to + 1)
  <2>3. u \in Seq(PaperRows) /\ Len(u) = L /\ \A n \in 1..L : u[n] = all[(from + n) + 1]
    BY <2>1, <2>2
  <2> HIDE DEF u
  <2>4. \A n \in 1..L : u[n] = PrinterRow(ras[from + n])
    BY <1>1, <2>1, <2>3
  <2> QED
    BY <2>3, <2>4 DEF u, all
<1> HIDE DEF rows, out, frames
<1>6. out = [n \in 1..Len(rows) |-> <<rows[n]>>]
  BY <1>4, <1>5
<1>7. out \in Seq(Seq(PaperRows))
  <2>1. \A n \in 1..L : <<rows[n]>> \in Seq(PaperRows)
    BY <1>5
  <2> QED
    BY <1>1, <1>5, <1>6, <2>1
<1>8. CP!FlattenSeq(out) = rows
  BY <1>5, <1>6, <1>7, FlattenIsFlat, FlatSingles
<1> QED
  BY <1>8 DEF rows, out, frames

\* What the frames before the first row print: a blank row.
LEMMA SetupPrints ==
    CP!FlattenSeq([n \in DOMAIN CP!JobSetup |-> CP!Printed(CP!JobSetup[n])])
        = <<CP!White(RowBytes * Bits)>>
<1> DEFINE z == [n \in 1..RowBytes |-> CP!White(Bits)]
           W == RowBytes * Bits
           w == CP!White(W)
           out == [n \in DOMAIN CP!JobSetup |-> CP!Printed(CP!JobSetup[n])]
<1>1. RowBytes \in Nat /\ z \in InkRow /\ Len(z) = RowBytes
      /\ Flat(z) \in Seq({0}) /\ Len(Flat(z)) = W
  BY WhiteBytes, RastersAssumption
<1>2. CP!Printed(CP!FrameRowPlain(z)) = <<w>>
  <2>1. Flat(z) = [i \in 1..W |-> 0]
    <3> DEFINE f == Flat(z)
    <3>1. f \in Seq({0}) /\ Len(f) = W
      BY <1>1
    <3> HIDE DEF f
    <3>2. f = [i \in 1..W |-> 0]
      BY <3>1
    <3> QED
      BY <3>2 DEF f
  <2>2. PrinterRow(z) = Flat(z)
    BY <1>1, FullRow
  <2>3. Flat(z) = w
    BY <2>1 DEF CP!White
  <2> QED
    BY <1>1, <2>2, <2>3, PlainPrints
<1>3. w \in PaperRows
  <2>1. W \in Nat
    BY ProductOrder, RastersAssumption
  <2> HIDE DEF W
  <2> QED
    BY <2>1 DEF CP!White, PaperRows, Ink
<1> HIDE DEF w, z
<1>4. CP!Printed(CP!Frame("speed", <<>>)) = <<>> /\ CP!Printed(CP!Frame("energy", <<>>)) = <<>>
      /\ CP!Printed(CP!Frame("apply", <<>>)) = <<>>
  BY DEF CP!Printed, CP!Frame
<1>5. CP!JobSetup = <<CP!Frame("speed", <<>>), CP!Frame("energy", <<>>), CP!Frame("apply", <<>>),
                      CP!FrameRowPlain(z)>>
  BY DEF CP!JobSetup, z
<1>6. out = <<<<>>, <<>>, <<>>, <<w>>>>
  <2> DEFINE a == CP!Frame("speed", <<>>)
             b == CP!Frame("energy", <<>>)
             c == CP!Frame("apply", <<>>)
             d == CP!FrameRowPlain(z)
  <2>1. CP!JobSetup = <<a, b, c, d>>
    BY <1>5
  <2>2. /\ CP!Printed(a) = <<>> /\ CP!Printed(b) = <<>> /\ CP!Printed(c) = <<>>
        /\ CP!Printed(d) = <<w>>
    BY <1>2, <1>4
  <2> HIDE DEF a, b, c, d
  <2> QED
    BY <2>1, <2>2
<1> HIDE DEF out
<1> DEFINE none == <<<<>>, <<>>, <<>>>>
<1>7. none \in Seq(Seq(PaperRows)) /\ <<w>> \in Seq(PaperRows) /\ out = Append(none, <<w>>)
  BY <1>3, <1>6
<1>8. Flat(none) = <<>>
  <2>1. none \in Seq(Seq({}))
    OBVIOUS
  <2> HIDE DEF none
  <2>2. Flat(none) \in Seq({})
    BY <2>1, FlatAppend
  <2> QED
    BY <2>2
<1> HIDE DEF none
<1>9. Flat(out) = <<>> \o <<w>>
  BY <1>7, <1>8, FlatAppend
<1>10. CP!FlattenSeq(out) = <<w>>
  <2>1. out \in Seq(Seq(PaperRows))
    BY <1>7
  <2>2. <<>> \o <<w>> = <<w>>
    BY <1>7, Joined
  <2> QED
    BY <1>9, <2>1, <2>2, FlattenIsFlat
<1> QED
  BY <1>10 DEF out, w

\* The paper is the raster: what has been framed of it, and the feed at the end.
CatInv ==
    /\ raster \in Seq(InkRow) /\ rle \in BOOLEAN
    /\ next \in (-1)..Len(raster) /\ jobState \in {"rows", "fed", "torn"}
    /\ jobState # "rows" => next = Len(raster)
    /\ paper = SubSeq(Wanted(raster), 1, next + 1)
                   \o (IF jobState = "fed" THEN <<CP!Fed>> ELSE <<>>)

\* That is PaperIsRaster.
LEMMA CatShows == CatInv => CP!PaperIsRaster
<1> SUFFICES ASSUME CatInv PROVE CP!PaperIsRaster
  OBVIOUS
<1>1. Wanted(raster)
        = LET W == RowBytes * Bits
              Line(row) ==
                  [i \in 1..W |-> IF i \in DOMAIN CP!Pixels(row) THEN CP!Pixels(row)[i] ELSE 0]
          IN  <<CP!White(W)>> \o [n \in DOMAIN raster |-> Line(raster[n])]
  BY Zenon DEF Wanted, PrinterRow
<1> QED
  BY <1>1, Zenon DEF CatInv, CP!PaperIsRaster

\* Nothing is printed at the start.
LEMMA CatInit == CP!Init => CatInv
<1> SUFFICES ASSUME CP!Init PROVE CatInv
  OBVIOUS
<1>1. raster \in Seq(InkRow) /\ rle \in BOOLEAN /\ next = -1 /\ paper = <<>> /\ jobState = "rows"
  BY RastersAssumption DEF CP!Init, InkRow
<1>2. SubSeq(Wanted(raster), 1, next + 1) = <<>>
  <2> DEFINE all == Wanted(raster)
  <2>1. all \in Seq(PaperRows)
    BY <1>1, WantedRows
  <2> HIDE DEF all
  <2>2. next + 1 = 0
    BY <1>1
  <2>3. SubSeq(all, 1, 0) = <<>>
    BY <2>1, LongerPrefix
  <2> QED
    BY <2>2, <2>3 DEF all
<1>3. next \in (-1)..Len(raster)
  BY <1>1
<1>4. <<>> \o <<>> = <<>>
  OBVIOUS
<1> QED
  BY <1>1, <1>2, <1>3, <1>4 DEF CatInv

\* Each step prints the rows it frames.
LEMMA CatStep == CatInv /\ (CP!Next \/ UNCHANGED cp) => CatInv'
<1> SUFFICES ASSUME CatInv, CP!Next \/ UNCHANGED cp PROVE CatInv'
  OBVIOUS
<1> DEFINE all == Wanted(raster)
           L == Len(raster)
           tail == IF jobState = "fed" THEN <<CP!Fed>> ELSE <<>>
<1>1. /\ raster \in Seq(InkRow) /\ rle \in BOOLEAN /\ L \in Nat
      /\ next \in (-1)..L /\ jobState \in {"rows", "fed", "torn"}
      /\ jobState # "rows" => next = L
      /\ paper = SubSeq(all, 1, next + 1) \o tail
  BY DEF CatInv
<1>2. all \in Seq(PaperRows) /\ Len(all) = L + 1 /\ all[1] = CP!White(RowBytes * Bits)
  BY <1>1, WantedRows
<1> HIDE DEF all
<1>3. \A k \in 0..(L + 1) : SubSeq(all, 1, k) \in Seq(PaperRows)
                            /\ SubSeq(all, 1, k) \o <<>> = SubSeq(all, 1, k)
  <2> SUFFICES ASSUME NEW k \in 0..(L + 1)
               PROVE  SubSeq(all, 1, k) \in Seq(PaperRows)
                      /\ SubSeq(all, 1, k) \o <<>> = SubSeq(all, 1, k)
    OBVIOUS
  <2>1. SubSeq(all, 1, k) \in Seq(PaperRows)
    BY <1>1, <1>2
  <2> QED
    BY <2>1, Joined
<1>4. CASE UNCHANGED cp \/ CP!Over
  BY <1>4 DEF CP!Over, CP!vars, cp, CatInv
<1>5. CASE CP!Setup
  <2>1. /\ next = -1 /\ next' = 0 /\ UNCHANGED <<raster, rle, jobState>>
        /\ paper' = paper \o CP!FlattenSeq([n \in DOMAIN CP!JobSetup |->
                                               CP!Printed(CP!JobSetup[n])])
    BY <1>5 DEF CP!Setup, CP!Emit
  <2>2. jobState = "rows" /\ tail = <<>> /\ SubSeq(all, 1, 0) = <<>>
    BY <1>1, <1>2, <2>1, LongerPrefix
  <2>3. paper = <<>>
    BY <1>1, <1>3, <2>1, <2>2
  <2>4. paper' = <<all[1]>>
    <3>1. <<all[1]>> \in Seq(PaperRows)
      BY <1>1, <1>2
    <3>2. <<>> \o <<all[1]>> = <<all[1]>>
      BY <3>1, Joined
    <3> QED
      BY <1>2, <2>1, <2>3, <3>2, SetupPrints
  <2>5. SubSeq(all, 1, 1) = <<all[1]>>
    <3>1. 1 \in 1..Len(all) /\ 1 - 1 = 0 /\ all[1] \in PaperRows
      BY <1>1, <1>2
    <3>2. SubSeq(all, 1, 1) = Append(<<>>, all[1])
      <4>1. \A n \in 1..Len(all) : n = 1 => SubSeq(all, 1, n) = Append(SubSeq(all, 1, 0), all[1])
        <5> SUFFICES ASSUME NEW n \in 1..Len(all), n = 1
                     PROVE  SubSeq(all, 1, n) = Append(SubSeq(all, 1, 0), all[1])
          OBVIOUS
        <5>1. SubSeq(all, 1, n) = Append(SubSeq(all, 1, n - 1), all[n])
          BY <1>2, LongerPrefix
        <5> QED
          BY <5>1
      <4> QED
        BY <2>2, <3>1, <4>1, Zenon
    <3> QED
      BY <3>2
  <2>6. SubSeq(all, 1, 1) \o <<>> = SubSeq(all, 1, 1)
    BY <1>1, <1>3
  <2>7. all' = all
    BY <2>1 DEF all
  <2> HIDE DEF tail
  <2> QED
    BY <1>1, <2>1, <2>2, <2>4, <2>5, <2>6, <2>7 DEF CatInv, all
<1>6. CASE CP!Rows
  <2> DEFINE to == IF next + Refill < L THEN next + Refill ELSE L
             frames == CP!JobRows(raster, next, to, rle)
  <2>1. /\ next \in 0..(L - 1) /\ next' = to /\ UNCHANGED <<raster, rle, jobState>>
        /\ paper' = paper \o CP!FlattenSeq([n \in DOMAIN frames |-> CP!Printed(frames[n])])
    BY <1>6, Zenon DEF CP!Rows, CP!Emit
  <2>2. to \in 0..L /\ next \in 0..to
    BY <1>1, <2>1, RastersAssumption
  <2> HIDE DEF to
  <2>3. CP!FlattenSeq([n \in DOMAIN frames |-> CP!Printed(frames[n])])
            = SubSeq(all, next + 2, to + 1)
    BY <1>1, <2>2, RowsPrint DEF all
  <2> HIDE DEF frames
  <2>4. jobState = "rows" /\ tail = <<>>
    BY <1>1, <2>1
  <2>5. paper = SubSeq(all, 1, next + 1)
    <3>1. next + 1 \in 0..(L + 1)
      BY <1>1
    <3> QED
      BY <1>1, <1>3, <2>4, <3>1
  <2>6. SubSeq(all, 1, next + 1) \o SubSeq(all, (next + 1) + 1, to + 1) = SubSeq(all, 1, to + 1)
    <3>1. to + 1 \in 0..Len(all) /\ next + 1 \in 0..(to + 1)
      BY <1>1, <1>2, <2>2
    <3> QED
      BY <1>2, <3>1, PrefixJoin
  <2>7. paper' = SubSeq(all, 1, to + 1)
    <3>1. (next + 1) + 1 = next + 2
      BY <2>1
    <3> QED
      BY <2>1, <2>3, <2>5, <2>6, <3>1
  <2>8. SubSeq(all, 1, to + 1) \o <<>> = SubSeq(all, 1, to + 1) /\ to \in (-1)..L
    <3>1. to + 1 \in 0..(L + 1) /\ to \in (-1)..L
      BY <1>1, <2>2
    <3> QED
      BY <1>3, <3>1
  <2>9. all' = all
    BY <2>1 DEF all
  <2> HIDE DEF tail
  <2> QED
    BY <1>1, <2>1, <2>4, <2>7, <2>8, <2>9 DEF CatInv, all
<1>7. CASE CP!Finish
  <2>1. /\ jobState = "rows" /\ next = L /\ UNCHANGED <<raster, rle, next, feeds>>
        /\ jobState' = IF feeds THEN "fed" ELSE "torn"
    BY <1>7 DEF CP!Finish
  <2> DEFINE frames == CP!JobFinish(feeds)
             out == [n \in DOMAIN frames |-> CP!Printed(frames[n])]
  <2>2. paper' = paper \o CP!FlattenSeq(out)
    BY <1>7 DEF CP!Finish, CP!Emit
  <2>3. tail = <<>> /\ paper = SubSeq(all, 1, L + 1) /\ paper \in Seq(PaperRows)
    <3>1. L + 1 \in 0..(L + 1)
      BY <1>1
    <3> QED
      BY <1>1, <1>3, <2>1, <3>1
  <2>4. CASE feeds
    <3>1. frames = <<CP!Frame("feed", <<>>)>> /\ jobState' = "fed"
      BY <2>1, <2>4 DEF CP!JobFinish
    <3>2. CP!Printed(CP!Frame("feed", <<>>)) = <<CP!Fed>>
      BY DEF CP!Printed, CP!Frame
    <3>3. out = <<<<CP!Fed>>>>
      <4> DEFINE a == CP!Frame("feed", <<>>)
      <4> HIDE DEF a, frames
      <4>1. frames = <<a>> /\ CP!Printed(a) = <<CP!Fed>>
        BY <3>1, <3>2 DEF a
      <4> QED
        BY <4>1
    <3> HIDE DEF out, frames
    <3>4. <<CP!Fed>> \in Seq(PaperRows)
      BY DEF CP!Fed, PaperRows
    <3>5. CP!FlattenSeq(out) = <<CP!Fed>>
      <4>1. out \in Seq(Seq(PaperRows))
        BY <3>3, <3>4
      <4> QED
        BY <3>3, <3>4, <4>1, FlattenIsFlat, FlatOne
    <3> HIDE DEF tail
    <3>6. all' = all
      BY <2>1 DEF all
    <3> QED
      BY <1>1, <2>1, <2>2, <2>3, <3>1, <3>5, <3>6 DEF CatInv, all
  <2>5. CASE ~feeds
    <3>1. frames = <<>> /\ jobState' = "torn"
      BY <2>1, <2>5 DEF CP!JobFinish
    <3>2. out = <<>>
      BY <3>1
    <3> HIDE DEF out, frames
    <3>3. CP!FlattenSeq(out) = <<>>
      <4>1. out \in Seq(Seq(PaperRows))
        BY <3>2
      <4> QED
        BY <3>2, <4>1, FlattenIsFlat, FlatOne
    <3>4. paper \o <<>> = paper
      BY <2>3, Joined
    <3> HIDE DEF tail
    <3>5. all' = all
      BY <2>1 DEF all
    <3> QED
      BY <1>1, <2>1, <2>2, <2>3, <3>1, <3>3, <3>4, <3>5 DEF CatInv, all
  <2> QED
    BY <2>4, <2>5
<1> QED
  BY <1>4, <1>5, <1>6, <1>7 DEF CP!Next

-----------------------------------------------------------------------------
(* thermo_printer: wrapping and pages keep the text.                       *)

\* A character is a line, a word and a place.
Glyphs == Nat \X Nat \X Nat

\* The characters of rows.
Text(rows) == Flat(Flat(rows))

\* It is a sequence of characters.
LEMMA TextType ==
    \A S : /\ \A a \in Seq(Seq(Seq(S))) : Text(a) \in Seq(S) /\ Flat(a) \in Seq(Seq(S))
           /\ \A r \in Seq(Seq(S)) : Text(<<r>>) = Flat(r) /\ Flat(r) \in Seq(S)
           /\ Text(<<>>) = <<>>
<1> TAKE S
<1>1. \A a \in Seq(Seq(Seq(S))) : Flat(a) \in Seq(Seq(S))
  BY FlatAppend
<1>2. \A r \in Seq(Seq(S)) : Flat(r) \in Seq(S) /\ Flat(<<r>>) = r
  BY FlatAppend, FlatOne
<1> QED
  BY <1>1, <1>2, FlatOne DEF Text

\* Rows and more rows.
LEMMA TextJoin ==
    \A S : \A a, b \in Seq(Seq(Seq(S))) : Text(a \o b) = Text(a) \o Text(b)
<1> SUFFICES ASSUME NEW S, NEW a \in Seq(Seq(Seq(S))), NEW b \in Seq(Seq(Seq(S)))
             PROVE  Text(a \o b) = Text(a) \o Text(b)
  OBVIOUS
<1>1. Flat(a \o b) = Flat(a) \o Flat(b)
  BY FlatConcat
<1>2. Flat(Flat(a) \o Flat(b)) = Flat(Flat(a)) \o Flat(Flat(b))
  BY TextType, FlatConcat
<1> QED
  BY <1>1, <1>2 DEF Text

\* One more row.
LEMMA TextAppend ==
    \A S : \A a \in Seq(Seq(Seq(S))), r \in Seq(Seq(S)) :
        Text(Append(a, r)) = Text(a) \o Flat(r)
<1> SUFFICES ASSUME NEW S, NEW a \in Seq(Seq(Seq(S))), NEW r \in Seq(Seq(S))
             PROVE  Text(Append(a, r)) = Text(a) \o Flat(r)
  OBVIOUS
<1>1. Flat(Append(a, r)) = Flat(a) \o r
  BY FlatAppend
<1>2. Flat(Flat(a) \o r) = Flat(Flat(a)) \o Flat(r)
  BY TextType, FlatConcat
<1> QED
  BY <1>1, <1>2 DEF Text

\* The pieces of a word are the word: q of k characters, and the rest.
LEMMA PiecesAreWord ==
    ASSUME NEW S, NEW word \in Seq(S), word # <<>>, NEW k \in Nat \ {0}
    PROVE  LET q == (Len(word) - 1) \div k
               whole == [n \in 1..q |-> TL!Piece(word, k, n)]
               last == TL!Piece(word, k, q + 1)
           IN  /\ q \in Nat /\ (Len(word) <= k => q = 0)
               /\ \A n \in 1..(q + 1) :
                     \E a \in 1..Len(word) : \E b \in a..Len(word) :
                        TL!Piece(word, k, n) = SubSeq(word, a, b) /\ b - a < k
                        /\ (q = 0 => a = 1 /\ b = Len(word))
               /\ whole \in Seq(Seq(S)) /\ last \in Seq(S)
               /\ Flat(whole) \o last = word
<1> DEFINE L == Len(word)
           q == (L - 1) \div k
           whole == [n \in 1..q |-> TL!Piece(word, k, n)]
           last == TL!Piece(word, k, q + 1)
           to(n) == IF n * k > L THEN L ELSE n * k
<1>1. L \in Nat \ {0} /\ L - 1 \in Nat
  OBVIOUS
<1>2. /\ q \in Nat /\ q * k <= L - 1 /\ L - 1 < q * k + k /\ q * k \in Nat
  <2> DEFINE m == L - 1
  <2>1. m \in Nat
    BY <1>1
  <2> HIDE DEF m
  <2>2. m \div k \in Nat /\ m % k \in 0..(k - 1) /\ m = (m \div k) * k + (m % k)
    BY <2>1, QuotientIs
  <2>3. (m \div k) * k \in Nat
    BY <2>2, ProductOrder
  <2>4. m \div k \in Nat /\ (m \div k) * k <= m /\ m < (m \div k) * k + k
    BY <2>1, <2>2, <2>3
  <2> QED
    BY <2>3, <2>4 DEF m
<1>3. L <= k => q = 0
  <2> SUFFICES ASSUME L <= k PROVE q = 0
    OBVIOUS
  <2> DEFINE m == L - 1
  <2>1. m \in Nat /\ 0 * k <= m /\ m < 0 * k + k
    BY <1>1
  <2> HIDE DEF m
  <2>2. m \div k = 0
    BY <2>1, QuotientOnly
  <2> QED
    BY <2>2 DEF m
<1> HIDE DEF q
<1>4. \A n \in 1..(q + 1) : /\ (n - 1) * k + 1 \in 1..L /\ to(n) \in ((n - 1) * k + 1)..L
                            /\ to(n) - ((n - 1) * k + 1) < k
                            /\ (n <= q => to(n) = n * k) /\ (n = q + 1 => to(n) = L)
                            /\ (n - 1) * k \in Nat /\ n * k \in Nat
  <2> SUFFICES ASSUME NEW n \in 1..(q + 1)
               PROVE /\ (n - 1) * k + 1 \in 1..L /\ to(n) \in ((n - 1) * k + 1)..L
                     /\ to(n) - ((n - 1) * k + 1) < k
                     /\ (n <= q => to(n) = n * k) /\ (n = q + 1 => to(n) = L)
                     /\ (n - 1) * k \in Nat /\ n * k \in Nat
    OBVIOUS
  <2> DEFINE m == n - 1
             mk == m * k
             nk == n * k
             qk == q * k
  <2>1. m \in Nat /\ m <= q /\ n \in Nat /\ q \in Nat /\ k \in Nat
    BY <1>2
  <2>2. mk \in Nat /\ nk \in Nat /\ qk \in Nat
    BY <2>1, ProductOrder
  <2>3. mk <= qk /\ (n <= q => nk <= qk)
    <3> HIDE DEF m
    <3> QED
      BY <2>1, ProductOrder
  <2>4. nk = mk + k
    OBVIOUS
  <2>5. n = q + 1 => mk = qk
    <3>1. n = q + 1 => n - 1 = q
      BY <2>1
    <3> QED
      BY <3>1, Zenon
  <2>6. qk <= L - 1 /\ L - 1 < qk + k
    BY <1>2
  <2>7. to(n) = IF nk > L THEN L ELSE nk
    OBVIOUS
  <2> HIDE DEF mk, nk, qk, to
  <2>8. mk + 1 \in 1..L /\ to(n) \in (mk + 1)..L /\ to(n) - (mk + 1) < k
        /\ (n <= q => to(n) = nk) /\ (n = q + 1 => to(n) = L)
    BY <1>1, <2>1, <2>2, <2>3, <2>4, <2>5, <2>6, <2>7
  <2> QED
    BY <2>2, <2>8 DEF mk, nk
<1>5. \A n \in 1..(q + 1) : TL!Piece(word, k, n) = SubSeq(word, (n - 1) * k + 1, to(n))
                            /\ TL!Piece(word, k, n) \in Seq(S)
  <2> SUFFICES ASSUME NEW n \in 1..(q + 1)
               PROVE  TL!Piece(word, k, n) = SubSeq(word, (n - 1) * k + 1, to(n))
                      /\ TL!Piece(word, k, n) \in Seq(S)
    OBVIOUS
  <2>1. TL!Piece(word, k, n) = SubSeq(word, (n - 1) * k + 1, to(n))
    BY DEF TL!Piece
  <2> DEFINE a == (n - 1) * k + 1
             b == to(n)
  <2>2. a \in 1..L /\ b \in a..L
    BY <1>4
  <2> HIDE DEF a, b
  <2>3. SubSeq(word, a, b) \in Seq(S)
    BY <2>2
  <2> QED
    BY <2>1, <2>3 DEF a, b
<1>6. \A n \in 1..(q + 1) :
         \E a \in 1..L : \E b \in a..L :
            TL!Piece(word, k, n) = SubSeq(word, a, b) /\ b - a < k
            /\ (q = 0 => a = 1 /\ b = L)
  <2> SUFFICES ASSUME NEW n \in 1..(q + 1)
               PROVE  \E a \in 1..L : \E b \in a..L :
                        TL!Piece(word, k, n) = SubSeq(word, a, b) /\ b - a < k
                        /\ (q = 0 => a = 1 /\ b = L)
    OBVIOUS
  <2> DEFINE a == (n - 1) * k + 1
             b == to(n)
  <2>1. a \in 1..L /\ b \in a..L /\ b - a < k /\ (n = q + 1 => b = L)
    BY <1>4
  <2>2. TL!Piece(word, k, n) = SubSeq(word, a, b)
    BY <1>5
  <2>3. q = 0 => n = q + 1 /\ a = 1
    <3> SUFFICES ASSUME q = 0 PROVE n = q + 1 /\ a = 1
      OBVIOUS
    <3>1. n = 1 /\ n - 1 = 0
      OBVIOUS
    <3>2. 0 * k = 0
      OBVIOUS
    <3> QED
      BY <3>1, <3>2
  <2> HIDE DEF a, b
  <2> QED
    BY <2>1, <2>2, <2>3
<1>7. whole \in Seq(Seq(S)) /\ Len(whole) = q
      /\ \A n \in 1..q : whole[n] = SubSeq(word, (n - 1) * k + 1, n * k)
  <2>1. \A n \in 1..q : /\ TL!Piece(word, k, n) \in Seq(S)
                        /\ TL!Piece(word, k, n) = SubSeq(word, (n - 1) * k + 1, n * k)
    <3> SUFFICES ASSUME NEW n \in 1..q
                 PROVE  /\ TL!Piece(word, k, n) \in Seq(S)
                        /\ TL!Piece(word, k, n) = SubSeq(word, (n - 1) * k + 1, n * k)
      OBVIOUS
    <3>1. n \in 1..(q + 1) /\ n <= q
      BY <1>2
    <3>2. to(n) = n * k
      BY <1>4, <3>1
    <3> HIDE DEF to
    <3> QED
      BY <1>5, <3>1, <3>2
  <2> QED
    BY <1>2, <2>1
<1>8. last = SubSeq(word, q * k + 1, L) /\ last \in Seq(S)
  <2> DEFINE n == q + 1
  <2>1. n \in 1..(q + 1) /\ n - 1 = q /\ n = q + 1
    BY <1>2
  <2> HIDE DEF n
  <2>2. to(n) = L /\ TL!Piece(word, k, n) \in Seq(S)
        /\ TL!Piece(word, k, n) = SubSeq(word, (n - 1) * k + 1, to(n))
    BY <1>4, <1>5, <2>1
  <2> HIDE DEF to
  <2> QED
    BY <2>1, <2>2
<1> HIDE DEF whole, last, to
<1>9. Flat(whole) = SubSeq(word, 1, q * k)
  <2> DEFINE T == {n \in 0..q : Flat(SubSeq(whole, 1, n)) = SubSeq(word, 1, n * k)}
  <2>1. 0 \in T
    <3>1. SubSeq(whole, 1, 0) = <<>> /\ SubSeq(word, 1, 0) = <<>> /\ 0 * k = 0
      BY <1>7, LongerPrefix
    <3>2. Flat(SubSeq(whole, 1, 0)) = SubSeq(word, 1, 0 * k)
      BY <3>1, FlatOne
    <3> QED
      BY <1>2, <3>2
  <2>2. ASSUME NEW n \in 1..q, n - 1 \in T PROVE n \in T
    <3> DEFINE u == SubSeq(whole, 1, n - 1)
               x == whole[n]
               mk == (n - 1) * k
               nk == n * k
    <3>1. u \in Seq(Seq(S)) /\ x \in Seq(S) /\ SubSeq(whole, 1, n) = Append(u, x)
      BY <1>7, LongerPrefix
    <3>2. Flat(u) = SubSeq(word, 1, mk) /\ x = SubSeq(word, mk + 1, nk) /\ n \in 0..q
      BY <1>7, <2>2
    <3>3. mk \in Nat /\ nk = mk + k /\ nk <= L
      <4>1. n \in 1..(q + 1) /\ n <= q
        BY <1>2
      <4>2. to(n) = nk /\ to(n) \in (mk + 1)..L /\ mk \in Nat /\ nk \in Nat
        BY <1>4, <4>1
      <4>3. nk = mk + k
        OBVIOUS
      <4> HIDE DEF mk, nk
      <4> QED
        BY <1>1, <4>2, <4>3
    <3> HIDE DEF u, x, mk
    <3>4. Flat(Append(u, x)) = Flat(u) \o x
      BY <3>1, FlatAppend
    <3>5. SubSeq(word, 1, mk) \o SubSeq(word, mk + 1, nk) = SubSeq(word, 1, nk)
      <4> HIDE DEF nk
      <4>1. nk \in 0..Len(word) /\ mk \in 0..nk
        BY <3>3
      <4> QED
        BY <4>1, PrefixJoin
    <3>6. Flat(SubSeq(whole, 1, n)) = SubSeq(word, 1, n * k)
      BY <3>1, <3>2, <3>4, <3>5
    <3> QED
      BY <3>2, <3>6
  <2> HIDE DEF T
  <2>3. 0..q \subseteq T
    BY <1>2, <2>1, <2>2, UpTo
  <2>4. q \in T
    BY <1>2, <2>3
  <2>5. SubSeq(whole, 1, q) = whole
    BY <1>7, LongerPrefix
  <2> QED
    BY <2>4, <2>5 DEF T
<1>10. Flat(whole) \o last = word
  <2> DEFINE qk == q * k
  <2>1. qk \in 0..Len(word)
    BY <1>1, <1>2
  <2> HIDE DEF qk
  <2>2. word = SubSeq(word, 1, qk) \o SubSeq(word, qk + 1, Len(word))
    <3>1. SplitsAt(S, word, qk)
      BY <2>1, SplitAt
    <3> QED
      BY <3>1 DEF SplitsAt
  <2> QED
    BY <1>8, <1>9, <2>2 DEF qk
<1> QED
  BY <1>2, <1>3, <1>6, <1>7, <1>8, <1>10 DEF q, whole, last

\* Words of which those that are too wide for a row may be cut.
Cuttable(W, cw) ==
    /\ W \subseteq Seq(Glyphs) /\ <<>> \notin W
    /\ \A x \in W : Len(x) * cw > Width =>
           \A a \in 1..Len(x) : \A b \in a..Len(x) : SubSeq(x, a, b) \in W

\* The rows that are no wider than the paper, but for a single character.
FitRows(W, cw) ==
    {r \in Seq(W) : r # <<>> /\ (TL!RowWidth(r, cw) <= Width \/ TL!Chars(r) = 1)}

\* What such words and rows are.
LEMMA RowsOfWords ==
    \A W, cw : Cuttable(W, cw) =>
        /\ W \subseteq Seq(Glyphs) /\ Seq(W) \subseteq Seq(Seq(Glyphs))
        /\ FitRows(W, cw) \subseteq Seq(W)
        /\ Seq(FitRows(W, cw)) \subseteq Seq(Seq(Seq(Glyphs)))
        /\ \A r \in Seq(W) : TL!Chars(r) = Len(Flat(r))
<1> SUFFICES ASSUME NEW W, NEW cw, Cuttable(W, cw)
             PROVE  /\ W \subseteq Seq(Glyphs) /\ Seq(W) \subseteq Seq(Seq(Glyphs))
                    /\ FitRows(W, cw) \subseteq Seq(W)
                    /\ Seq(FitRows(W, cw)) \subseteq Seq(Seq(Seq(Glyphs)))
                    /\ \A r \in Seq(W) : TL!Chars(r) = Len(Flat(r))
  OBVIOUS
<1>1. \A A, B : A \subseteq B => Seq(A) \subseteq Seq(B)
  <2> SUFFICES ASSUME NEW A, NEW B, A \subseteq B, NEW s \in Seq(A) PROVE s \in Seq(B)
    OBVIOUS
  <2> QED
    OBVIOUS
<1>2. W \subseteq Seq(Glyphs) /\ FitRows(W, cw) \subseteq Seq(W)
  BY DEF Cuttable, FitRows
<1>3. Seq(W) \subseteq Seq(Seq(Glyphs))
  BY <1>1, <1>2, Zenon
<1>4. Seq(FitRows(W, cw)) \subseteq Seq(Seq(Seq(Glyphs)))
  <2>1. FitRows(W, cw) \subseteq Seq(Seq(Glyphs))
    BY <1>2, <1>3, Zenon
  <2> QED
    BY <1>1, <2>1, Zenon
<1>5. \A r \in Seq(W) : TL!Chars(r) = Len(Flat(r))
  <2> SUFFICES ASSUME NEW r \in Seq(W) PROVE TL!Chars(r) = Len(Flat(r))
    OBVIOUS
  <2>1. r \in Seq(Seq(Glyphs))
    BY <1>3
  <2> QED
    BY <2>1, FlattenIsFlat DEF TL!Chars
<1> QED
  BY <1>2, <1>3, <1>4, <1>5

\* A word that is alone on a row.
LEMMA OneWordRow ==
    ASSUME NEW W, NEW cw \in {1, 2}, Cuttable(W, cw), NEW x \in W,
           Len(x) = 1 \/ Len(x) * cw <= Width
    PROVE  <<x>> \in FitRows(W, cw) /\ Flat(<<x>>) = x
<1>1. x \in Seq(Glyphs) /\ <<x>> \in Seq(W) /\ <<x>> # <<>> /\ Len(<<x>>) = 1
  BY RowsOfWords
<1>2. Flat(<<x>>) = x
  BY <1>1, FlatOne
<1>3. TL!Chars(<<x>>) = Len(x)
  BY <1>1, <1>2, RowsOfWords
<1>4. TL!RowWidth(<<x>>, cw) = Len(x) * cw
  <2> DEFINE n == Len(x)
  <2>1. n \in Nat
    BY <1>1
  <2> HIDE DEF n
  <2>2. cw * (n + 1 - 1) = n * cw
    BY <2>1
  <2> QED
    BY <1>1, <1>3, <2>2 DEF TL!RowWidth, n
<1> QED
  BY <1>1, <1>2, <1>3, <1>4 DEF FitRows

\* A word on rows of its own.
LEMMA HardBreakIs ==
    ASSUME NEW W, NEW cw \in {1, 2}, Cuttable(W, cw), NEW word \in W
    PROVE  LET b == TL!HardBreak(word, cw)
           IN  /\ b.rows \in Seq(FitRows(W, cw))
               /\ b.piece \in W /\ <<b.piece>> \in FitRows(W, cw)
               /\ Text(b.rows) \o b.piece = word
<1> DEFINE k == IF Width \div cw > 1 THEN Width \div cw ELSE 1
           q == (Len(word) - 1) \div k
           piece(n) == TL!Piece(word, k, n)
           whole == [n \in 1..q |-> piece(n)]
           last == piece(q + 1)
           rows == [n \in 1..q |-> <<piece(n)>>]
<1>1. word \in Seq(Glyphs) /\ word # <<>> /\ W \subseteq Seq(Glyphs)
  BY RowsOfWords DEF Cuttable
<1>2. /\ k \in Nat \ {0} /\ (k = 1 \/ k * cw <= Width)
      /\ \A n \in Nat : n * cw <= Width => n <= k
  <2> DEFINE d == Width \div cw
  <2>1. d \in Nat /\ Width % cw \in 0..(cw - 1) /\ Width = d * cw + (Width % cw) /\ cw \in Nat \ {0}
    BY QuotientIs, TextsAssumption
  <2> HIDE DEF d
  <2>2. d * cw \in Nat /\ (d + 1) * cw = d * cw + cw
    BY <2>1, ProductOrder
  <2>3. \A n \in Nat : n >= d + 1 => n * cw >= (d + 1) * cw
    BY <2>1, ProductOrder
  <2>4. \A n \in Nat : n * cw <= Width => n <= d
    <3> SUFFICES ASSUME NEW n \in Nat, n * cw <= Width, n > d PROVE FALSE
      BY <2>1
    <3>1. n >= d + 1
      BY <2>1
    <3>2. n * cw >= (d + 1) * cw /\ n * cw \in Nat
      BY <2>1, <2>3, <3>1, ProductOrder
    <3> QED
      BY <2>1, <2>2, <3>2, TextsAssumption
  <2>5. d * cw <= Width
    BY <2>1, <2>2
  <2>6. k = IF d > 1 THEN d ELSE 1
    BY DEF d
  <2> HIDE DEF k
  <2> QED
    BY <2>1, <2>4, <2>5, <2>6
<1> HIDE DEF k
<1>3. /\ q \in Nat /\ (Len(word) <= k => q = 0)
      /\ \A n \in 1..(q + 1) :
            \E a \in 1..Len(word) : \E b \in a..Len(word) :
               piece(n) = SubSeq(word, a, b) /\ b - a < k
               /\ (q = 0 => a = 1 /\ b = Len(word))
      /\ whole \in Seq(Seq(Glyphs)) /\ last \in Seq(Glyphs)
      /\ Flat(whole) \o last = word
  BY <1>1, <1>2, PiecesAreWord
<1> HIDE DEF q
<1>4. \A n \in 1..(q + 1) : piece(n) \in W /\ <<piece(n)>> \in FitRows(W, cw)
  <2> SUFFICES ASSUME NEW n \in 1..(q + 1)
               PROVE  piece(n) \in W /\ <<piece(n)>> \in FitRows(W, cw)
    OBVIOUS
  <2> DEFINE x == piece(n)
  <2>1. PICK a \in 1..Len(word) : \E b \in a..Len(word) :
               x = SubSeq(word, a, b) /\ b - a < k
               /\ (q = 0 => a = 1 /\ b = Len(word))
    BY <1>3
  <2>2. PICK b \in a..Len(word) :
               x = SubSeq(word, a, b) /\ b - a < k
               /\ (q = 0 => a = 1 /\ b = Len(word))
    BY <2>1
  <2> HIDE DEF x
  <2>3. x \in W
    <3>1. CASE Len(word) * cw > Width
      BY <2>2, <3>1 DEF Cuttable
    <3>2. CASE ~(Len(word) * cw > Width)
      <4>1. Len(word) \in Nat
        BY <1>1
      <4>2. Len(word) * cw \in Nat
        BY <4>1, ProductOrder
      <4>3. q = 0
        <5> DEFINE m == Len(word)
        <5>1. m * cw <= Width /\ m \in Nat
          BY <3>2, <4>1, <4>2, TextsAssumption
        <5> HIDE DEF m
        <5>2. m <= k
          BY <1>2, <5>1, Zenon
        <5> QED
          BY <1>3, <5>2 DEF m
      <4>4. x = word
        BY <1>1, <2>2, <4>3, LongerPrefix
      <4> QED
        BY <4>4
    <3> QED
      BY <3>1, <3>2
  <2>4. Len(x) = b - a + 1
    BY <1>1, <2>2
  <2>5. Len(x) = 1 \/ Len(x) * cw <= Width
    <3>1. Len(x) \in 1..k
      BY <1>1, <1>2, <2>2, <2>4
    <3>2. Len(x) * cw <= k * cw
      BY <1>2, <3>1, ProductOrder
    <3>3. Len(x) * cw \in Nat /\ k * cw \in Nat
      BY <1>2, <3>1, ProductOrder
    <3> DEFINE xc == Len(x) * cw
               kc == k * cw
    <3>4. (k = 1 \/ kc <= Width) /\ xc <= kc /\ xc \in Nat /\ kc \in Nat /\ k \in Nat
      BY <1>2, <3>2, <3>3
    <3> HIDE DEF xc, kc
    <3>5. Len(x) = 1 \/ xc <= Width
      <4>1. Width \in Nat
        BY TextsAssumption
      <4>2. k = 1 => Len(x) = 1
        BY <3>1
      <4>3. kc <= Width => xc <= Width
        BY <3>4, <4>1
      <4> QED
        BY <3>4, <4>2, <4>3
    <3> QED
      BY <3>5 DEF xc
  <2>6. <<x>> \in FitRows(W, cw)
    BY <2>3, <2>5, OneWordRow
  <2> QED
    BY <2>3, <2>6 DEF x
<1>5. rows \in Seq(FitRows(W, cw))
  <2>1. \A n \in 1..q : <<piece(n)>> \in FitRows(W, cw)
    BY <1>3, <1>4
  <2> HIDE DEF piece
  <2> QED
    BY <1>3, <2>1
<1>6. last \in W /\ <<last>> \in FitRows(W, cw)
  <2>1. q + 1 \in 1..(q + 1)
    BY <1>3
  <2> HIDE DEF piece
  <2> QED
    BY <1>4, <2>1
<1>7. Text(rows) = Flat(whole)
  <2>1. Len(whole) = q /\ \A n \in 1..q : whole[n] = piece(n)
    BY <1>3
  <2>2. rows = [n \in 1..Len(whole) |-> <<whole[n]>>]
    BY <1>3, <2>1
  <2> HIDE DEF whole, rows, piece
  <2>3. Flat(rows) = whole
    BY <1>3, <2>2, FlatSingles
  <2> QED
    BY <2>3 DEF Text
<1> DEFINE b == TL!HardBreak(word, cw)
<1>8. b.rows = rows /\ b.piece = last
  <2>1. (q + 1) - 1 = q
    BY <1>3
  <2>2. b.rows = [n \in 1..((q + 1) - 1) |-> <<piece(n)>>] /\ b.piece = last
    BY DEF TL!HardBreak, k, q
  <2> HIDE DEF b, last, piece
  <2> QED
    BY <2>1, <2>2
<1> HIDE DEF b, last, rows, whole
<1>9. Text(b.rows) \o b.piece = word
  BY <1>3, <1>7, <1>8
<1> QED
  BY <1>5, <1>6, <1>8, <1>9 DEF b

\* The words of a line up to the n-th, as wrapped.
Wrapped(W, cw, words, n) ==
    {r \in [rows : Seq(FitRows(W, cw)), line : Seq(W)] :
        /\ r.line = <<>> \/ r.line \in FitRows(W, cw)
        /\ n > 0 => r.line # <<>>
        /\ Text(r.rows) \o Flat(r.line) = Flat(SubSeq(words, 1, n))}

\* The same of a record.
LEMMA WrappedAs ==
    ASSUME NEW W, NEW cw, NEW words, NEW n, NEW rows \in Seq(FitRows(W, cw)), NEW line \in Seq(W),
           line \in FitRows(W, cw), Text(rows) \o Flat(line) = Flat(SubSeq(words, 1, n))
    PROVE  [rows |-> rows, line |-> line] \in Wrapped(W, cw, words, n)
BY DEF Wrapped, FitRows

\* One more word.
LEMMA WrapStep ==
    ASSUME NEW W, NEW cw \in {1, 2}, Cuttable(W, cw), NEW words \in Seq(W),
           NEW n \in 1..Len(words), NEW r \in Wrapped(W, cw, words, n - 1)
    PROVE  TL!AddWord(r, words[n], cw) \in Wrapped(W, cw, words, n)
<1> DEFINE F == FitRows(W, cw)
           word == words[n]
           before == Flat(SubSeq(words, 1, n - 1))
           after == Flat(SubSeq(words, 1, n))
           next_ == TL!AddWord(r, word, cw)
           T == Text(r.rows)
           line == Flat(r.line)
<1>1. /\ r \in [rows : Seq(F), line : Seq(W)] /\ r.rows \in Seq(F) /\ r.line \in Seq(W)
      /\ r.line = <<>> \/ r.line \in F
      /\ T \o line = before
  BY DEF Wrapped
<1>2. word \in W /\ word \in Seq(Glyphs) /\ words \in Seq(Seq(Glyphs)) /\ n > 0
      /\ r.rows \in Seq(Seq(Seq(Glyphs))) /\ r.line \in Seq(Seq(Glyphs))
  BY <1>1, RowsOfWords
<1>3. T \in Seq(Glyphs) /\ line \in Seq(Glyphs)
  BY <1>2, TextType
<1>4. after = before \o word
  <2>1. SubSeq(words, 1, n) = Append(SubSeq(words, 1, n - 1), word)
        /\ SubSeq(words, 1, n - 1) \in Seq(Seq(Glyphs))
    BY <1>2, LongerPrefix
  <2> QED
    BY <1>2, <2>1, FlatAppend
<1> HIDE DEF before, after, T, line, word, F
<1>5. \A s \in Seq(Glyphs) : (T \o line) \o s = T \o (line \o s)
  <2> HIDE DEF next_
  <2> SUFFICES ASSUME NEW s \in Seq(Glyphs)
               PROVE  (T \o line) \o s = T \o (line \o s)
    OBVIOUS
  <2>1. Associates(T, line, s)
    BY <1>3, JoinThree
  <2> QED
    BY <2>1 DEF Associates
<1>6. CASE TL!RowWidth(Append(r.line, word), cw) <= Width
  <2> DEFINE l == Append(r.line, word)
  <2>1. next_ = [rows |-> r.rows, line |-> l]
    BY <1>1, <1>6 DEF TL!AddWord
  <2>2. l \in Seq(W) /\ l # <<>>
    <3> DEFINE u == r.line
    <3>1. u \in Seq(W) /\ word \in W
      BY <1>1, <1>2
    <3> HIDE DEF u
    <3>2. Append(u, word) \in Seq(W) /\ Append(u, word) # <<>>
      BY <3>1
    <3> QED
      BY <3>2 DEF u
  <2>3. l \in F
    BY <1>6, <2>2 DEF F, FitRows
  <2>4. Flat(l) = line \o word
    BY <1>2, FlatAppend DEF line
  <2> HIDE DEF l, next_
  <2>5. T \o Flat(l) = after
    BY <1>1, <1>2, <1>4, <1>5, <2>4
  <2>6. r.rows \in Seq(F)
    BY <1>1
  <2>7. Text(r.rows) \o Flat(l) = Flat(SubSeq(words, 1, n))
    BY <2>5 DEF T, after
  <2>8. [rows |-> r.rows, line |-> l] \in Wrapped(W, cw, words, n)
    BY <2>2, <2>3, <2>6, <2>7, WrappedAs DEF F
  <2> QED
    BY <2>1, <2>8 DEF next_, word
<1>7. CASE ~(TL!RowWidth(Append(r.line, word), cw) <= Width)
  <2> DEFINE b == TL!HardBreak(word, cw)
             rows0 == IF r.line = <<>> THEN r.rows ELSE Append(r.rows, r.line)
  <2>1. next_ = [rows |-> rows0 \o b.rows, line |-> <<b.piece>>]
    BY <1>7, Zenon DEF TL!AddWord
  <2>2. /\ b.rows \in Seq(F) /\ b.piece \in W /\ <<b.piece>> \in F
        /\ Text(b.rows) \o b.piece = word
    BY <1>2, HardBreakIs DEF F
  <2> HIDE DEF b
  <2>3. rows0 \in Seq(F) /\ Text(rows0) = T \o line
    <3>1. CASE r.line = <<>>
      <4>1. line = <<>>
        BY <3>1, FlatOne DEF line
      <4>2. T \o line = T
        BY <1>3, <4>1, Joined
      <4> QED
        BY <1>1, <3>1, <4>2 DEF T
    <3>2. CASE r.line # <<>>
      <4>1. rows0 = Append(r.rows, r.line) /\ r.line \in F
        BY <1>1, <3>2
      <4>2. Text(Append(r.rows, r.line)) = T \o line
        BY <1>2, TextAppend DEF T, line
      <4> HIDE DEF rows0
      <4> QED
        BY <1>1, <4>1, <4>2
    <3> QED
      BY <3>1, <3>2
  <2> HIDE DEF rows0, next_
  <2>4. Text(rows0 \o b.rows) = Text(rows0) \o Text(b.rows) /\ rows0 \o b.rows \in Seq(F)
    <3>1. rows0 \in Seq(Seq(Seq(Glyphs))) /\ b.rows \in Seq(Seq(Seq(Glyphs)))
      BY <2>2, <2>3, RowsOfWords DEF F
    <3> DEFINE c == b.rows
    <3> HIDE DEF c
    <3>2. Text(rows0 \o c) = Text(rows0) \o Text(c)
      BY <3>1, TextJoin DEF c
    <3>3. rows0 \o c \in Seq(F)
      BY <2>2, <2>3, JoinType DEF c
    <3> QED
      BY <3>2, <3>3 DEF c
  <2>5. Text(rows0 \o b.rows) \o Flat(<<b.piece>>) = after
    <3> DEFINE x == Text(rows0)
               y == Text(b.rows)
               z == b.piece
    <3>1. z \in Seq(Glyphs) /\ Flat(<<z>>) = z
      BY <2>2, RowsOfWords, FlatOne
    <3>2. x \in Seq(Glyphs) /\ y \in Seq(Glyphs)
      <4>1. rows0 \in Seq(Seq(Seq(Glyphs))) /\ b.rows \in Seq(Seq(Seq(Glyphs)))
        BY <2>2, <2>3, RowsOfWords DEF F
      <4> QED
        BY <4>1, TextType
    <3>3. y \o z = word /\ x = before
      BY <1>1, <2>2, <2>3
    <3> HIDE DEF x, y, z
    <3>4. Associates(x, y, z)
      BY <3>1, <3>2, JoinThree
    <3>5. (x \o y) \o z = after
      BY <1>4, <3>3, <3>4 DEF Associates
    <3> QED
      BY <2>4, <3>1, <3>5 DEF x, y, z
  <2> DEFINE rs == rows0 \o b.rows
             l == <<b.piece>>
  <2>6. l \in Seq(W) /\ l \in F /\ rs \in Seq(F)
    BY <2>2, <2>4
  <2>7. Text(rs) \o Flat(l) = Flat(SubSeq(words, 1, n))
    BY <2>5 DEF after
  <2> HIDE DEF rs, l
  <2>8. [rows |-> rs, line |-> l] \in Wrapped(W, cw, words, n)
    BY <2>6, <2>7, WrappedAs DEF F
  <2> QED
    BY <2>1, <2>8 DEF next_, rs, l, word
<1> QED
  BY <1>6, <1>7 DEF word

\* A wrapped line has its words in order, on rows that fit.
LEMMA WrapIs ==
    ASSUME NEW W, NEW cw \in {1, 2}, Cuttable(W, cw), NEW words \in Seq(W)
    PROVE  /\ TL!WrapText(words, cw) \in Seq(FitRows(W, cw))
           /\ Text(TL!WrapText(words, cw)) = Flat(words)
           /\ TL!WrapText(words, cw) = <<>> <=> words = <<>>
<1> DEFINE L == Len(words)
           x0 == [rows |-> <<>>, line |-> <<>>]
           RS == [rows : Seq(FitRows(W, cw)), line : Seq(W)]
           P(h) == h = [n \in 0..L |-> IF n = 0 THEN x0 ELSE TL!AddWord(h[n - 1], words[n], cw)]
           k == CHOOSE h : P(h)
           G == [p \in (1..L) \X RS |-> TL!AddWord(p[2], words[p[1]], cw)]
           U == [n \in 0..L |-> Wrapped(W, cw, words, n)]
<1>1. L \in Nat /\ 0 \in 0..L /\ L \in 0..L
      /\ \A n \in 1..L : n \in 0..L /\ n - 1 \in 0..L /\ n # 0
  OBVIOUS
<1>2. \A n \in 1..L : \A r \in RS : G[<<n, r>>] = TL!AddWord(r, words[n], cw)
  OBVIOUS
<1>3. \A n \in 0..L : U[n] = Wrapped(W, cw, words, n)
  OBVIOUS
<1>4. x0 \in Wrapped(W, cw, words, 0)
  <2>1. x0 \in RS /\ x0.line = <<>> /\ x0.rows = <<>>
    OBVIOUS
  <2>2. SubSeq(words, 1, 0) = <<>>
    BY LongerPrefix
  <2>3. Text(<<>>) = <<>> /\ Flat(<<>>) = <<>> /\ <<>> \o <<>> = <<>>
    BY TextType, FlatOne
  <2> HIDE DEF x0
  <2>4. Text(x0.rows) \o Flat(x0.line) = Flat(SubSeq(words, 1, 0))
    BY <2>1, <2>2, <2>3
  <2> QED
    BY <2>1, <2>4 DEF Wrapped
<1>5. Wrapped(W, cw, words, 0) \subseteq RS
      /\ \A n \in 1..L : Wrapped(W, cw, words, n - 1) \subseteq RS
  BY DEF Wrapped
<1> HIDE DEF L, x0, RS, G, U
<1>6. \A n \in 1..L : \A r \in Wrapped(W, cw, words, n - 1) :
         TL!AddWord(r, words[n], cw) \in Wrapped(W, cw, words, n)
  BY WrapStep DEF L
<1>7. PICK f : Recursive(f, L, x0, G)
  BY <1>1, RecursionDefines
<1>8. \A n \in 0..L : f[n] \in U[n]
  <2>1. x0 \in U[0]
    BY <1>1, <1>3, <1>4
  <2>2. \A n \in 1..L : \A r \in U[n - 1] : G[<<n, r>>] \in U[n]
    <3> SUFFICES ASSUME NEW n \in 1..L, NEW r \in U[n - 1] PROVE G[<<n, r>>] \in U[n]
      OBVIOUS
    <3>1. r \in Wrapped(W, cw, words, n - 1) /\ U[n] = Wrapped(W, cw, words, n)
      BY <1>1, <1>3
    <3>2. G[<<n, r>>] = TL!AddWord(r, words[n], cw)
      BY <1>2, <1>5, <3>1
    <3> QED
      BY <1>6, <3>1, <3>2
  <2> QED
    BY <1>1, <1>7, <2>1, <2>2, RecursionIn
<1>9. P(f)
  <2>1. ASSUME NEW n \in 0..L
        PROVE  f[n] = IF n = 0 THEN x0 ELSE TL!AddWord(f[n - 1], words[n], cw)
    <3>1. f[n] = IF n = 0 THEN x0 ELSE G[<<n, f[n - 1]>>]
      BY <1>7 DEF Recursive
    <3>2. CASE n # 0
      <4>1. n \in 1..L /\ n - 1 \in 0..L
        BY <1>1, <3>2
      <4>2. f[n - 1] \in RS
        BY <1>3, <1>5, <1>8, <4>1
      <4> QED
        BY <1>2, <3>1, <3>2, <4>1, <4>2
    <3> QED
      BY <3>1, <3>2
  <2>2. f = [n \in 0..L |-> f[n]]
    BY <1>7 DEF Recursive
  <2> QED
    BY <2>1, <2>2
<1>10. P(k)
  <2> HIDE DEF P
  <2> QED
    BY <1>9
<1>11. TL!WrapText(words, cw) = IF words = <<>> THEN <<>> ELSE Append(k[L].rows, k[L].line)
  BY DEF TL!WrapText, L, x0
<1> HIDE DEF k
<1>12. \A n \in 0..L : k[n] \in Wrapped(W, cw, words, n)
  <2> DEFINE T == {n \in 0..L : k[n] \in Wrapped(W, cw, words, n)}
  <2>1. 0 \in T
    BY <1>1, <1>4, <1>10
  <2>2. ASSUME NEW n \in 1..L, n - 1 \in T PROVE n \in T
    <3>1. k[n] = TL!AddWord(k[n - 1], words[n], cw)
      BY <1>1, <1>10
    <3> QED
      BY <1>1, <1>6, <2>2, <3>1
  <2> HIDE DEF T
  <2>3. 0..L \subseteq T
    BY <1>1, <2>1, <2>2, UpTo
  <2> QED
    BY <2>3 DEF T
<1> HIDE DEF P
<1>13. CASE words = <<>>
  BY <1>11, <1>13, TextType, FlatOne
<1>14. CASE words # <<>>
  <2> DEFINE r == k[L]
             rows == r.rows
             line == r.line
  <2>1. L > 0 /\ SubSeq(words, 1, L) = words
    BY <1>14, LongerPrefix DEF L
  <2>2. /\ rows \in Seq(FitRows(W, cw)) /\ line \in FitRows(W, cw)
        /\ Text(rows) \o Flat(line) = Flat(words)
    <3>1. r \in Wrapped(W, cw, words, L)
      BY <1>1, <1>12
    <3> HIDE DEF r
    <3> QED
      BY <2>1, <3>1 DEF Wrapped
  <2>3. TL!WrapText(words, cw) = Append(rows, line)
    BY <1>11, <1>14
  <2> HIDE DEF rows, line
  <2>4. Append(rows, line) \in Seq(FitRows(W, cw)) /\ Append(rows, line) # <<>>
    BY <2>2, Appended, Zenon
  <2>5. Text(Append(rows, line)) = Text(rows) \o Flat(line)
    <3>1. /\ Seq(FitRows(W, cw)) \subseteq Seq(Seq(Seq(Glyphs)))
          /\ FitRows(W, cw) \subseteq Seq(W) /\ Seq(W) \subseteq Seq(Seq(Glyphs))
      BY RowsOfWords
    <3>2. rows \in Seq(Seq(Seq(Glyphs))) /\ line \in Seq(Seq(Glyphs))
      BY <2>2, <3>1
    <3> QED
      BY <3>2, TextAppend
  <2> QED
    BY <1>14, <2>2, <2>3, <2>4, <2>5
<1> QED
  BY <1>13, <1>14

-----------------------------------------------------------------------------
(* Lines and the rows of pages.                                            *)

PageRow == [headline : BOOLEAN, row : Seq(Seq(Glyphs))]
TextLine == [headline : BOOLEAN, words : Seq(Seq(Glyphs))]
RowOf == [r \in PageRow |-> r.row]
WordsOf == [l \in TextLine |-> l.words]

\* The text of what m takes from each element.
MapText(m, s) == Text(Map(m, s))

\* It is a sequence of characters, of what follows each other in order.
LEMMA MapTextFacts ==
    ASSUME NEW A, NEW m, Takes(m, A, Seq(Seq(Glyphs)))
    PROVE  /\ MapText(m, <<>>) = <<>>
           /\ \A s \in Seq(A) : MapText(m, s) \in Seq(Glyphs)
           /\ \A s, t \in Seq(A) : MapText(m, s \o t) = MapText(m, s) \o MapText(m, t)
           /\ \A s \in Seq(A), x \in A : MapText(m, Append(s, x)) = MapText(m, s) \o Flat(m[x])
<1>1. MapText(m, <<>>) = <<>>
  BY MapNothing, TextType DEF MapText
<1>2. ASSUME NEW s \in Seq(A) PROVE Map(m, s) \in Seq(Seq(Seq(Glyphs)))
  BY MapFacts
<1>3. ASSUME NEW s \in Seq(A) PROVE MapText(m, s) \in Seq(Glyphs)
  BY <1>2, TextType DEF MapText
<1>4. ASSUME NEW s \in Seq(A), NEW t \in Seq(A)
      PROVE  MapText(m, s \o t) = MapText(m, s) \o MapText(m, t)
  <2>1. Map(m, s \o t) = Map(m, s) \o Map(m, t)
    BY MapJoin
  <2>2. Text(Map(m, s) \o Map(m, t)) = Text(Map(m, s)) \o Text(Map(m, t))
    BY <1>2, TextJoin
  <2> QED
    BY <2>1, <2>2 DEF MapText
<1>5. ASSUME NEW s \in Seq(A), NEW x \in A
      PROVE  MapText(m, Append(s, x)) = MapText(m, s) \o Flat(m[x])
  <2>1. Map(m, Append(s, x)) = Append(Map(m, s), m[x])
    BY MapAppend
  <2>2. m[x] \in Seq(Seq(Glyphs))
    BY DEF Takes
  <2>3. Text(Append(Map(m, s), m[x])) = Text(Map(m, s)) \o Flat(m[x])
    BY <1>2, <2>2, TextAppend
  <2> QED
    BY <2>1, <2>3 DEF MapText
<1> QED
  BY <1>1, <1>3, <1>4, <1>5

\* The characters of rows and of lines.
LEMMA CharsAre ==
    /\ \A rows \in Seq(PageRow) : TL!RowChars(rows) = MapText(RowOf, rows)
    /\ \A ls \in Seq(TextLine) : TL!LineChars(ls) = MapText(WordsOf, ls)
    /\ Takes(RowOf, PageRow, Seq(Seq(Glyphs))) /\ Takes(WordsOf, TextLine, Seq(Seq(Glyphs)))
<1>1. Takes(RowOf, PageRow, Seq(Seq(Glyphs))) /\ Takes(WordsOf, TextLine, Seq(Seq(Glyphs)))
  BY DEF Takes, RowOf, WordsOf, PageRow, TextLine
<1>2. ASSUME NEW rows \in Seq(PageRow) PROVE TL!RowChars(rows) = MapText(RowOf, rows)
  <2> DEFINE t == [n \in DOMAIN rows |-> rows[n].row]
  <2>1. \A n \in DOMAIN rows : RowOf[rows[n]] = rows[n].row
    BY DEF RowOf
  <2>2. t = Map(RowOf, rows)
    BY <2>1 DEF Map
  <2>3. Map(RowOf, rows) \in Seq(Seq(Seq(Glyphs)))
    BY <1>1, MapFacts
  <2>4. TL!RowChars(rows) = TL!FlattenSeq(TL!FlattenSeq(t))
    BY DEF TL!RowChars
  <2> HIDE DEF t
  <2>5. TL!FlattenSeq(t) = Flat(t) /\ Flat(t) \in Seq(Seq(Glyphs))
    BY <2>2, <2>3, FlattenIsFlat, TextType
  <2>6. TL!FlattenSeq(Flat(t)) = Flat(Flat(t))
    BY <2>5, FlattenIsFlat
  <2> QED
    BY <2>2, <2>4, <2>5, <2>6 DEF MapText, Text
<1>3. ASSUME NEW ls \in Seq(TextLine) PROVE TL!LineChars(ls) = MapText(WordsOf, ls)
  <2> DEFINE t == [n \in DOMAIN ls |-> ls[n].words]
  <2>1. \A n \in DOMAIN ls : WordsOf[ls[n]] = ls[n].words
    BY DEF WordsOf
  <2>2. t = Map(WordsOf, ls)
    BY <2>1 DEF Map
  <2>3. Map(WordsOf, ls) \in Seq(Seq(Seq(Glyphs)))
    BY <1>1, MapFacts
  <2>4. TL!LineChars(ls) = TL!FlattenSeq(TL!FlattenSeq(t))
    BY DEF TL!LineChars
  <2> HIDE DEF t
  <2>5. TL!FlattenSeq(t) = Flat(t) /\ Flat(t) \in Seq(Seq(Glyphs))
    BY <2>2, <2>3, FlattenIsFlat, TextType
  <2>6. TL!FlattenSeq(Flat(t)) = Flat(Flat(t))
    BY <2>5, FlattenIsFlat
  <2> QED
    BY <2>2, <2>4, <2>5, <2>6 DEF MapText, Text
<1> QED
  BY <1>1, <1>2, <1>3

\* What that says of rows.
LEMMA RowCharsFacts ==
    /\ TL!RowChars(<<>>) = <<>>
    /\ \A s \in Seq(PageRow) : TL!RowChars(s) \in Seq(Glyphs)
    /\ \A s, t \in Seq(PageRow) : TL!RowChars(s \o t) = TL!RowChars(s) \o TL!RowChars(t)
    /\ \A s \in Seq(PageRow), x \in PageRow :
          TL!RowChars(Append(s, x)) = TL!RowChars(s) \o Flat(x.row)
<1>1. /\ MapText(RowOf, <<>>) = <<>>
      /\ \A s \in Seq(PageRow) : MapText(RowOf, s) \in Seq(Glyphs)
      /\ \A s, t \in Seq(PageRow) :
            MapText(RowOf, s \o t) = MapText(RowOf, s) \o MapText(RowOf, t)
      /\ \A s \in Seq(PageRow), x \in PageRow :
            MapText(RowOf, Append(s, x)) = MapText(RowOf, s) \o Flat(RowOf[x])
  BY CharsAre, MapTextFacts
<1>2. \A s \in Seq(PageRow) : TL!RowChars(s) = MapText(RowOf, s)
  BY CharsAre
<1>3. <<>> \in Seq(PageRow) /\ \A s, t \in Seq(PageRow) : s \o t \in Seq(PageRow)
  BY JoinType
<1>4. \A s \in Seq(PageRow), x \in PageRow : Append(s, x) \in Seq(PageRow) /\ RowOf[x] = x.row
  BY Appended DEF RowOf
<1>5. TL!RowChars(<<>>) = <<>>
  BY <1>1, <1>2, <1>3, Zenon
<1>6. \A s \in Seq(PageRow) : TL!RowChars(s) \in Seq(Glyphs)
  BY <1>1, <1>2, Zenon
<1>7. \A s, t \in Seq(PageRow) : TL!RowChars(s \o t) = TL!RowChars(s) \o TL!RowChars(t)
  <2> TAKE s, t \in Seq(PageRow)
  <2>1. MapText(RowOf, s \o t) = MapText(RowOf, s) \o MapText(RowOf, t)
    BY <1>1
  <2>2. TL!RowChars(s \o t) = MapText(RowOf, s \o t)
    BY <1>2, <1>3
  <2>3. TL!RowChars(s) = MapText(RowOf, s) /\ TL!RowChars(t) = MapText(RowOf, t)
    BY <1>2
  <2> QED
    BY <2>1, <2>2, <2>3, Zenon
<1>8. \A s \in Seq(PageRow), x \in PageRow :
        TL!RowChars(Append(s, x)) = TL!RowChars(s) \o Flat(x.row)
  <2> TAKE s \in Seq(PageRow), x \in PageRow
  <2>1. MapText(RowOf, Append(s, x)) = MapText(RowOf, s) \o Flat(RowOf[x])
    BY <1>1
  <2>2. TL!RowChars(Append(s, x)) = MapText(RowOf, Append(s, x)) /\ RowOf[x] = x.row
    BY <1>2, <1>4
  <2>3. TL!RowChars(s) = MapText(RowOf, s)
    BY <1>2
  <2> QED
    BY <2>1, <2>2, <2>3, Zenon
<1> QED
  BY <1>5, <1>6, <1>7, <1>8

\* And of lines.
LEMMA LineCharsFacts ==
    /\ TL!LineChars(<<>>) = <<>>
    /\ \A s \in Seq(TextLine) : TL!LineChars(s) \in Seq(Glyphs)
    /\ \A s, t \in Seq(TextLine) : TL!LineChars(s \o t) = TL!LineChars(s) \o TL!LineChars(t)
    /\ \A s \in Seq(TextLine), x \in TextLine :
          TL!LineChars(Append(s, x)) = TL!LineChars(s) \o Flat(x.words)
<1>1. /\ MapText(WordsOf, <<>>) = <<>>
      /\ \A s \in Seq(TextLine) : MapText(WordsOf, s) \in Seq(Glyphs)
      /\ \A s, t \in Seq(TextLine) :
            MapText(WordsOf, s \o t) = MapText(WordsOf, s) \o MapText(WordsOf, t)
      /\ \A s \in Seq(TextLine), x \in TextLine :
            MapText(WordsOf, Append(s, x)) = MapText(WordsOf, s) \o Flat(WordsOf[x])
  BY CharsAre, MapTextFacts
<1>2. \A s \in Seq(TextLine) : TL!LineChars(s) = MapText(WordsOf, s)
  BY CharsAre
<1>3. <<>> \in Seq(TextLine) /\ \A s, t \in Seq(TextLine) : s \o t \in Seq(TextLine)
  BY JoinType
<1>4. \A s \in Seq(TextLine), x \in TextLine :
         Append(s, x) \in Seq(TextLine) /\ WordsOf[x] = x.words
  BY Appended DEF WordsOf
<1>5. TL!LineChars(<<>>) = <<>>
  BY <1>1, <1>2, <1>3, Zenon
<1>6. \A s \in Seq(TextLine) : TL!LineChars(s) \in Seq(Glyphs)
  BY <1>1, <1>2, Zenon
<1>7. \A s, t \in Seq(TextLine) : TL!LineChars(s \o t) = TL!LineChars(s) \o TL!LineChars(t)
  <2> TAKE s, t \in Seq(TextLine)
  <2>1. MapText(WordsOf, s \o t) = MapText(WordsOf, s) \o MapText(WordsOf, t)
    BY <1>1
  <2>2. TL!LineChars(s \o t) = MapText(WordsOf, s \o t)
    BY <1>2, <1>3
  <2>3. TL!LineChars(s) = MapText(WordsOf, s) /\ TL!LineChars(t) = MapText(WordsOf, t)
    BY <1>2
  <2> QED
    BY <2>1, <2>2, <2>3, Zenon
<1>8. \A s \in Seq(TextLine), x \in TextLine :
        TL!LineChars(Append(s, x)) = TL!LineChars(s) \o Flat(x.words)
  <2> TAKE s \in Seq(TextLine), x \in TextLine
  <2>1. MapText(WordsOf, Append(s, x)) = MapText(WordsOf, s) \o Flat(WordsOf[x])
    BY <1>1
  <2>2. TL!LineChars(Append(s, x)) = MapText(WordsOf, Append(s, x)) /\ WordsOf[x] = x.words
    BY <1>2, <1>4
  <2>3. TL!LineChars(s) = MapText(WordsOf, s)
    BY <1>2
  <2> QED
    BY <2>1, <2>2, <2>3, Zenon
<1> QED
  BY <1>5, <1>6, <1>7, <1>8

\* Words that may be cut in either font, the lines that have them and the rows
\* of a page in font f.
Fonts == {"normal", "compact"}
Words(W) == Cuttable(W, 1) /\ Cuttable(W, 2)
LinesOf(W) == [headline : BOOLEAN, words : Seq(W)]
RowsIn(W, f) ==
    {r \in [headline : BOOLEAN, row : Seq(W)] :
        r.row = <<>> \/ r.row \in FitRows(W, TL!CharWidth(r.headline, f))}

\* They are lines and rows.
LEMMA PageSets ==
    ASSUME NEW W, Words(W), NEW f \in Fonts
    PROVE  /\ W \subseteq Seq(Glyphs) /\ LinesOf(W) \subseteq TextLine
           /\ RowsIn(W, f) \subseteq PageRow
           /\ Seq(LinesOf(W)) \subseteq Seq(TextLine) /\ Seq(RowsIn(W, f)) \subseteq Seq(PageRow)
           /\ \A h \in BOOLEAN : /\ TL!CharWidth(h, f) \in {1, 2}
                                 /\ TL!LineHeight(h, f) \in {1, 2, 3}
                                 /\ Cuttable(W, TL!CharWidth(h, f))
<1>1. W \subseteq Seq(Glyphs) /\ Seq(W) \subseteq Seq(Seq(Glyphs))
  BY RowsOfWords DEF Words
<1>2. LinesOf(W) \subseteq TextLine
  BY <1>1 DEF LinesOf, TextLine
<1>3. RowsIn(W, f) \subseteq PageRow
  BY <1>1 DEF RowsIn, PageRow
<1>4. \A A, B : A \subseteq B => Seq(A) \subseteq Seq(B)
  <2> SUFFICES ASSUME NEW A, NEW B, A \subseteq B, NEW s \in Seq(A) PROVE s \in Seq(B)
    OBVIOUS
  <2> QED
    OBVIOUS
<1>5. Seq(LinesOf(W)) \subseteq Seq(TextLine) /\ Seq(RowsIn(W, f)) \subseteq Seq(PageRow)
  BY <1>2, <1>3, <1>4, Zenon
<1>6. \A h \in BOOLEAN : /\ TL!CharWidth(h, f) \in {1, 2}
                         /\ TL!LineHeight(h, f) \in {1, 2, 3}
                         /\ Cuttable(W, TL!CharWidth(h, f))
  BY DEF Fonts, TL!CharWidth, TL!LineHeight, Words
<1> QED
  BY <1>1, <1>2, <1>3, <1>5, <1>6

\* The rows of a line on a page.
LEMMA RowsAre ==
    ASSUME NEW W, Words(W), NEW f \in Fonts, NEW h \in BOOLEAN,
           NEW wrapped \in Seq(FitRows(W, TL!CharWidth(h, f)))
    PROVE  /\ TL!Rows(h, wrapped) \in Seq(RowsIn(W, f))
           /\ TL!RowChars(TL!Rows(h, wrapped)) = Text(wrapped)
<1> DEFINE F == FitRows(W, TL!CharWidth(h, f))
           rows == TL!Rows(h, wrapped)
<1>1. wrapped \in Seq(Seq(Seq(Glyphs))) /\ F \subseteq Seq(W)
  BY PageSets, RowsOfWords
<1>2. DOMAIN wrapped = 1..Len(wrapped) /\ Len(wrapped) \in Nat
      /\ \A n \in 1..Len(wrapped) : wrapped[n] \in F
  OBVIOUS
<1>3. rows = [n \in 1..Len(wrapped) |-> [headline |-> h, row |-> wrapped[n]]]
  BY <1>2 DEF TL!Rows
<1>4. \A n \in 1..Len(wrapped) : [headline |-> h, row |-> wrapped[n]] \in RowsIn(W, f)
  BY <1>1, <1>2 DEF RowsIn
<1> HIDE DEF rows
<1>5. rows \in Seq(RowsIn(W, f)) /\ Len(rows) = Len(wrapped)
  BY <1>2, <1>3, <1>4
<1>6. [n \in DOMAIN rows |-> rows[n].row] = wrapped
  <2>1. DOMAIN rows = 1..Len(wrapped) /\ \A n \in 1..Len(wrapped) : rows[n].row = wrapped[n]
    BY <1>3
  <2>2. wrapped = [n \in 1..Len(wrapped) |-> wrapped[n]]
    BY <1>2
  <2> QED
    BY <2>1, <2>2
<1>7. TL!FlattenSeq(wrapped) = Flat(wrapped) /\ Flat(wrapped) \in Seq(Seq(Glyphs))
  BY <1>1, FlattenIsFlat, TextType
<1>8. TL!FlattenSeq(Flat(wrapped)) = Flat(Flat(wrapped))
  BY <1>7, FlattenIsFlat
<1>9. TL!RowChars(rows) = Text(wrapped)
  BY <1>6, <1>7, <1>8 DEF TL!RowChars, Text
<1> QED
  BY <1>5, <1>9 DEF rows

\* The rows that a page has no room for wait as lines.
LEMMA RestIs ==
    ASSUME NEW W, Words(W), NEW f \in Fonts, NEW line \in LinesOf(W),
           NEW wrapped \in Seq(FitRows(W, TL!CharWidth(line.headline, f))),
           NEW take \in 0..Len(wrapped)
    PROVE  LET rest == [n \in 1..(Len(wrapped) - take) |->
                            [line EXCEPT !.words = wrapped[take + n]]]
           IN  /\ rest \in Seq(LinesOf(W))
               /\ TL!LineChars(rest) = Text(SubSeq(wrapped, take + 1, Len(wrapped)))
<1> DEFINE F == FitRows(W, TL!CharWidth(line.headline, f))
           m == Len(wrapped) - take
           e(n) == [line EXCEPT !.words = wrapped[take + n]]
           rest == [n \in 1..m |-> e(n)]
           left == SubSeq(wrapped, take + 1, Len(wrapped))
<1>1. line.headline \in BOOLEAN /\ line = [headline |-> line.headline, words |-> line.words]
  BY DEF LinesOf
<1>2. F \subseteq Seq(W) /\ Seq(F) \subseteq Seq(Seq(Seq(Glyphs)))
  BY <1>1, PageSets, RowsOfWords
<1>3. m \in Nat /\ left \in Seq(F) /\ Len(left) = m
      /\ \A n \in 1..m : left[n] = wrapped[take + n] /\ wrapped[take + n] \in F
  OBVIOUS
<1>4. \A n \in 1..m : e(n) \in LinesOf(W) /\ e(n).words = left[n]
  BY <1>1, <1>2, <1>3 DEF LinesOf
<1> HIDE DEF m, e
<1>5. rest \in Seq(LinesOf(W)) /\ DOMAIN rest = 1..m /\ \A n \in 1..m : rest[n].words = left[n]
  BY <1>3, <1>4
<1> HIDE DEF rest, left, F
<1>6. [n \in DOMAIN rest |-> rest[n].words] = left
  <2>1. left = [n \in 1..m |-> left[n]]
    BY <1>3
  <2> QED
    BY <1>5, <2>1
<1>7. left \in Seq(Seq(Seq(Glyphs)))
  BY <1>2, <1>3
<1>8. TL!FlattenSeq(left) = Flat(left) /\ Flat(left) \in Seq(Seq(Glyphs))
  BY <1>7, FlattenIsFlat, TextType
<1>9. TL!FlattenSeq(Flat(left)) = Flat(Flat(left))
  BY <1>8, FlattenIsFlat
<1>10. TL!LineChars(rest) = Text(left)
  BY <1>6, <1>8, <1>9 DEF TL!LineChars, Text
<1> QED
  BY <1>5, <1>10 DEF rest, left, m, e

\* Rows of words have characters.
LEMMA RowsHaveChars ==
    ASSUME NEW W, NEW cw, Cuttable(W, cw), NEW rows \in Seq(FitRows(W, cw)), rows # <<>>
    PROVE  Len(Text(rows)) > 0
<1> DEFINE L == Len(rows)
           a == SubSeq(rows, 1, L - 1)
           r == rows[L]
           k == Len(r)
           u == SubSeq(r, 1, k - 1)
           x == r[k]
<1>1. /\ W \subseteq Seq(Glyphs) /\ Seq(W) \subseteq Seq(Seq(Glyphs))
      /\ Seq(FitRows(W, cw)) \subseteq Seq(Seq(Seq(Glyphs)))
  BY RowsOfWords
<1>2. L \in 1..L /\ rows = Append(a, r) /\ a \in Seq(FitRows(W, cw)) /\ r \in FitRows(W, cw)
  <2>1. L \in 1..Len(rows)
    OBVIOUS
  <2> QED
    BY <2>1, LongerPrefix
<1>3. r \in Seq(W) /\ r # <<>>
  BY <1>2 DEF FitRows
<1> HIDE DEF r, a, L
<1>4. r = Append(u, x) /\ u \in Seq(W) /\ x \in W
  <2>1. k \in 1..Len(r)
    BY <1>3
  <2> QED
    BY <1>3, <2>1, LongerPrefix
<1> HIDE DEF u, x
<1>5. x \in Seq(Glyphs) /\ Len(x) > 0
  BY <1>1, <1>4 DEF Cuttable
<1>6. Flat(r) = Flat(u) \o x /\ Flat(u) \in Seq(Glyphs)
  BY <1>1, <1>4, <1>5, FlatAppend
<1>7. Len(Flat(r)) > 0 /\ Flat(r) \in Seq(Glyphs)
  BY <1>5, <1>6, JoinType
<1>8. Text(rows) = Text(a) \o Flat(r) /\ Text(a) \in Seq(Glyphs)
  <2>1. a \in Seq(Seq(Seq(Glyphs))) /\ r \in Seq(Seq(Glyphs))
    BY <1>1, <1>2, <1>3
  <2> QED
    BY <1>2, <2>1, TextAppend, TextType
<1> QED
  BY <1>7, <1>8, JoinType

\* A page with room for lines up to the n-th.
Paged(W, f, ls, n) ==
    {p \in [rows : Seq(RowsIn(W, f)), y : Nat, consumed : 0..n, full : BOOLEAN,
            rest : Seq(LinesOf(W))] :
        /\ ~p.full => p.consumed = n /\ p.rest = <<>>
        /\ p.full => p.consumed > 0
        /\ p.consumed = 0 => p.y = Margin /\ p.rows = <<>>
        /\ TL!RowChars(p.rows) \o TL!LineChars(p.rest)
              = TL!LineChars(SubSeq(ls, 1, p.consumed))
        /\ p.y > MaxRows => p.rows # <<>> /\ p.rows[Len(p.rows)].row = <<>>
        /\ p.rest # <<>> => Len(TL!RowChars(p.rows)) > 0}

\* A page is a record of these.
IsPage(p) == p = [rows |-> p.rows, y |-> p.y, consumed |-> p.consumed, full |-> p.full,
                  rest |-> p.rest]

GoesOn(p, r, y, c) == [p EXCEPT !.rows = r, !.y = y, !.consumed = c]
Filled(p, v) == [p EXCEPT !.full = v]

Ends(p, v, y, c, r, t) ==
    [p EXCEPT !.full = v, !.y = y, !.consumed = c, !.rows = r, !.rest = t]

\* A page that goes on.
LEMMA PageWith ==
    ASSUME NEW p, IsPage(p), NEW r, NEW y, NEW c
    PROVE  GoesOn(p, r, y, c)
              = [rows |-> r, y |-> y, consumed |-> c, full |-> p.full, rest |-> p.rest]
<1>1. p = [rows |-> p.rows, y |-> p.y, consumed |-> p.consumed, full |-> p.full,
           rest |-> p.rest]
  BY DEF IsPage
<1> DEFINE a == p.rows
           b == p.y
           d == p.consumed
           e == p.full
           g == p.rest
<1> HIDE DEF a, b, d, e, g
<1>2. p = [rows |-> a, y |-> b, consumed |-> d, full |-> e, rest |-> g]
  BY <1>1 DEF a, b, d, e, g
<1>3. [p EXCEPT !.rows = r] = [rows |-> r, y |-> b, consumed |-> d, full |-> e, rest |-> g]
  BY <1>2
<1>4. [[p EXCEPT !.rows = r] EXCEPT !.y = y]
          = [rows |-> r, y |-> y, consumed |-> d, full |-> e, rest |-> g]
  <2> DEFINE q == [p EXCEPT !.rows = r]
  <2> HIDE DEF q
  <2>1. q = [rows |-> r, y |-> b, consumed |-> d, full |-> e, rest |-> g]
    BY <1>3 DEF q
  <2>2. [q EXCEPT !.y = y] = [rows |-> r, y |-> y, consumed |-> d, full |-> e, rest |-> g]
    BY <2>1
  <2> QED
    BY <2>2 DEF q
<1>5. [[[p EXCEPT !.rows = r] EXCEPT !.y = y] EXCEPT !.consumed = c]
          = [rows |-> r, y |-> y, consumed |-> c, full |-> e, rest |-> g]
  <2> DEFINE q == [[p EXCEPT !.rows = r] EXCEPT !.y = y]
  <2> HIDE DEF q
  <2>1. q = [rows |-> r, y |-> y, consumed |-> d, full |-> e, rest |-> g]
    BY <1>4 DEF q
  <2>2. [q EXCEPT !.consumed = c]
            = [rows |-> r, y |-> y, consumed |-> c, full |-> e, rest |-> g]
    BY <2>1
  <2> QED
    BY <2>2 DEF q
<1> QED
  BY <1>5 DEF e, g, GoesOn

\* A page that ends.
LEMMA PageFull ==
    ASSUME NEW p, IsPage(p), NEW v
    PROVE  Filled(p, v)
              = [rows |-> p.rows, y |-> p.y, consumed |-> p.consumed, full |-> v,
                 rest |-> p.rest]
<1>1. p = [rows |-> p.rows, y |-> p.y, consumed |-> p.consumed, full |-> p.full,
           rest |-> p.rest]
  BY DEF IsPage
<1> DEFINE a == p.rows
           b == p.y
           d == p.consumed
           e == p.full
           g == p.rest
<1> HIDE DEF a, b, d, e, g
<1>2. p = [rows |-> a, y |-> b, consumed |-> d, full |-> e, rest |-> g]
  BY <1>1 DEF a, b, d, e, g
<1>3. [p EXCEPT !.full = v]
          = [rows |-> a, y |-> b, consumed |-> d, full |-> v, rest |-> g]
  BY <1>2
<1> QED
  BY <1>3 DEF a, b, d, g, Filled

\* A page that ends with a part of a line.
LEMMA PageEnds ==
    ASSUME NEW p, IsPage(p), NEW v, NEW y, NEW c, NEW r, NEW t
    PROVE  Ends(p, v, y, c, r, t)
              = [rows |-> r, y |-> y, consumed |-> c, full |-> v, rest |-> t]
<1>1. p = [rows |-> p.rows, y |-> p.y, consumed |-> p.consumed, full |-> p.full,
           rest |-> p.rest]
  BY DEF IsPage
<1> DEFINE a == p.rows
           b == p.y
           d == p.consumed
           e == p.full
           g == p.rest
<1> HIDE DEF a, b, d, e, g
<1>2. p = [rows |-> a, y |-> b, consumed |-> d, full |-> e, rest |-> g]
  BY <1>1 DEF a, b, d, e, g
<1>3. [p EXCEPT !.full = v] = [rows |-> a, y |-> b, consumed |-> d, full |-> v, rest |-> g]
  BY <1>2
<1>4. [[p EXCEPT !.full = v] EXCEPT !.y = y]
          = [rows |-> a, y |-> y, consumed |-> d, full |-> v, rest |-> g]
  <2> DEFINE q == [p EXCEPT !.full = v]
  <2> HIDE DEF q
  <2>1. q = [rows |-> a, y |-> b, consumed |-> d, full |-> v, rest |-> g]
    BY <1>3 DEF q
  <2>2. [q EXCEPT !.y = y]
            = [rows |-> a, y |-> y, consumed |-> d, full |-> v, rest |-> g]
    BY <2>1
  <2> QED
    BY <2>2 DEF q
<1>5. [[[p EXCEPT !.full = v] EXCEPT !.y = y] EXCEPT !.consumed = c]
          = [rows |-> a, y |-> y, consumed |-> c, full |-> v, rest |-> g]
  <2> DEFINE q == [[p EXCEPT !.full = v] EXCEPT !.y = y]
  <2> HIDE DEF q
  <2>1. q = [rows |-> a, y |-> y, consumed |-> d, full |-> v, rest |-> g]
    BY <1>4 DEF q
  <2>2. [q EXCEPT !.consumed = c]
            = [rows |-> a, y |-> y, consumed |-> c, full |-> v, rest |-> g]
    BY <2>1
  <2> QED
    BY <2>2 DEF q
<1>6. [[[[p EXCEPT !.full = v] EXCEPT !.y = y] EXCEPT !.consumed = c] EXCEPT !.rows = r]
          = [rows |-> r, y |-> y, consumed |-> c, full |-> v, rest |-> g]
  <2> DEFINE q == [[[p EXCEPT !.full = v] EXCEPT !.y = y] EXCEPT !.consumed = c]
  <2> HIDE DEF q
  <2>1. q = [rows |-> a, y |-> y, consumed |-> c, full |-> v, rest |-> g]
    BY <1>5 DEF q
  <2>2. [q EXCEPT !.rows = r]
            = [rows |-> r, y |-> y, consumed |-> c, full |-> v, rest |-> g]
    BY <2>1
  <2> QED
    BY <2>2 DEF q
<1>7. [[[[[p EXCEPT !.full = v] EXCEPT !.y = y] EXCEPT !.consumed = c] EXCEPT !.rows = r]
          EXCEPT !.rest = t]
          = [rows |-> r, y |-> y, consumed |-> c, full |-> v, rest |-> t]
  <2> DEFINE q == [[[[p EXCEPT !.full = v] EXCEPT !.y = y] EXCEPT !.consumed = c] EXCEPT !.rows = r]
  <2> HIDE DEF q
  <2>1. q = [rows |-> r, y |-> y, consumed |-> c, full |-> v, rest |-> g]
    BY <1>6 DEF q
  <2>2. [q EXCEPT !.rest = t]
            = [rows |-> r, y |-> y, consumed |-> c, full |-> v, rest |-> t]
    BY <2>1
  <2> QED
    BY <2>2 DEF q
<1> QED
  BY <1>7 DEF Ends

\* A line that is placed whole.
LEMMA PlacedWhole ==
    ASSUME NEW W, Words(W), NEW f \in Fonts, NEW ls \in Seq(LinesOf(W)), NEW n \in 1..Len(ls),
           NEW p \in Paged(W, f, ls, n - 1), ~p.full,
           NEW more \in Seq(RowsIn(W, f)), TL!RowChars(more) = Flat(ls[n].words),
           NEW high \in Nat,
           p.y + high > MaxRows =>
               p.rows \o more # <<>> /\ (p.rows \o more)[Len(p.rows \o more)].row = <<>>
    PROVE  [p EXCEPT !.rows = p.rows \o more, !.y = p.y + high, !.consumed = p.consumed + 1]
              \in Paged(W, f, ls, n)
<1> DEFINE rows == p.rows
           q == [p EXCEPT !.rows = rows \o more, !.y = p.y + high, !.consumed = p.consumed + 1]
           before == SubSeq(ls, 1, n - 1)
           x == ls[n]
<1>1. /\ p \in [rows : Seq(RowsIn(W, f)), y : Nat, consumed : 0..(n - 1), full : BOOLEAN,
                rest : Seq(LinesOf(W))]
      /\ p.consumed = n - 1 /\ p.rest = <<>>
      /\ TL!RowChars(rows) \o TL!LineChars(p.rest) = TL!LineChars(before)
  BY DEF Paged
<1>2. rows \in Seq(RowsIn(W, f)) /\ p.y \in Nat /\ n - 1 \in Nat
  BY <1>1
<1>3. before \in Seq(LinesOf(W)) /\ x \in LinesOf(W) /\ SubSeq(ls, 1, n) = Append(before, x)
  BY PrefixStep
<1> HIDE DEF rows, before, x
<1>4. /\ before \in Seq(TextLine) /\ x \in TextLine
      /\ rows \in Seq(PageRow) /\ more \in Seq(PageRow)
  BY <1>2, <1>3, PageSets
<1>5. TL!RowChars(rows) = TL!LineChars(before)
  <2>1. TL!LineChars(<<>>) = <<>> /\ TL!RowChars(rows) \in Seq(Glyphs)
    BY <1>4, LineCharsFacts, RowCharsFacts
  <2> DEFINE t == TL!RowChars(rows)
  <2>2. t \o <<>> = TL!LineChars(before) /\ t \in Seq(Glyphs)
    BY <1>1, <2>1
  <2> HIDE DEF t
  <2>3. t = TL!LineChars(before)
    BY <2>2, Joined
  <2> QED
    BY <2>3 DEF t
<1>6. TL!RowChars(rows \o more) = TL!LineChars(SubSeq(ls, 1, n))
  <2>1. TL!RowChars(rows \o more) = TL!RowChars(rows) \o TL!RowChars(more)
    BY <1>4, RowCharsFacts
  <2>2. TL!LineChars(Append(before, x)) = TL!LineChars(before) \o Flat(x.words)
    BY <1>4, LineCharsFacts
  <2>3. TL!RowChars(more) = Flat(x.words)
    BY DEF x
  <2> QED
    BY <1>3, <1>5, <2>1, <2>2, <2>3
<1>7. rows \o more \in Seq(RowsIn(W, f))
  BY <1>2, JoinType
<1>8. q = [rows |-> rows \o more, y |-> p.y + high, consumed |-> n, full |-> FALSE,
           rest |-> <<>>]
  <2>1. (n - 1) + 1 = n /\ p.full = FALSE
    BY <1>1
  <2> DEFINE r == rows \o more
             y == p.y + high
             c == p.consumed + 1
  <2>2. p.rest = <<>> /\ c = n
    BY <1>1, <2>1
  <2> HIDE DEF r, y, c
  <2>3. GoesOn(p, r, y, c)
            = [rows |-> r, y |-> y, consumed |-> c, full |-> p.full, rest |-> p.rest]
    <3>1. IsPage(p)
      BY <1>1 DEF IsPage
    <3> QED
      BY <3>1, PageWith
  <2> QED
    BY <2>1, <2>2, <2>3 DEF r, y, c, GoesOn
<1> DEFINE rs == rows \o more
<1>9. TL!RowChars(rs) \o <<>> = TL!RowChars(rs) /\ TL!LineChars(<<>>) = <<>>
  <2>1. rs \in Seq(PageRow)
    BY <1>4, JoinType
  <2> HIDE DEF rs
  <2>2. TL!RowChars(rs) \in Seq(Glyphs) /\ TL!LineChars(<<>>) = <<>>
    BY <2>1, RowCharsFacts, LineCharsFacts
  <2> QED
    BY <2>2, Joined
<1>10. p.y + high > MaxRows => rs # <<>> /\ rs[Len(rs)].row = <<>>
  BY DEF rows
<1> DEFINE y == p.y + high
<1>11. y \in Nat /\ rs \in Seq(RowsIn(W, f)) /\ n \in 0..n /\ n # 0
  BY <1>2, <1>7
<1> HIDE DEF rs, y
<1>12. [rows |-> rs, y |-> y, consumed |-> n, full |-> FALSE, rest |-> <<>>]
          \in Paged(W, f, ls, n)
  <2>1. TL!RowChars(rs) \o TL!LineChars(<<>>) = TL!LineChars(SubSeq(ls, 1, n))
    BY <1>6, <1>9 DEF rs
  <2>2. y > MaxRows => rs # <<>> /\ rs[Len(rs)].row = <<>>
    BY <1>10 DEF y
  <2> QED
    BY <1>11, <2>1, <2>2 DEF Paged
<1> QED
  BY <1>8, <1>12 DEF rs, y, rows

\* As many rows as fit end on the page.
LEMMA FitIs ==
    ASSUME NEW y \in Nat, NEW h \in {1, 2, 3}
    PROVE  /\ TL!Fit(y, h) \in Nat
           /\ \A m \in Nat : m > 0 /\ m <= TL!Fit(y, h) => y + m * h <= MaxRows
           /\ y + 3 <= MaxRows => TL!Fit(y, h) > 0
<1>1. MaxRows \in Nat /\ h \in Nat \ {0}
  BY TextsAssumption
<1>2. CASE y > MaxRows
  BY <1>1, <1>2 DEF TL!Fit
<1>3. CASE ~(y > MaxRows)
  <2> DEFINE a == MaxRows - y
             d == a \div h
  <2>1. a \in Nat
    BY <1>1, <1>3
  <2>2. TL!Fit(y, h) = d
    BY <1>3 DEF TL!Fit
  <2> HIDE DEF a
  <2>3. d \in Nat /\ a % h \in 0..(h - 1) /\ a = d * h + (a % h)
    BY <1>1, <2>1, QuotientIs
  <2> HIDE DEF d
  <2>4. d * h \in Nat /\ d * h <= a
    BY <1>1, <2>3, ProductOrder
  <2>5. \A m \in Nat : m <= d => m * h <= d * h /\ m * h \in Nat
    BY <1>1, <2>3, ProductOrder
  <2>6. \A m \in Nat : m <= d => y + m * h <= MaxRows
    <3> SUFFICES ASSUME NEW m \in Nat, m <= d PROVE y + m * h <= MaxRows
      OBVIOUS
    <3> DEFINE mh == m * h
               dh == d * h
    <3>1. mh \in Nat /\ dh \in Nat /\ mh <= dh /\ dh <= a
      BY <2>4, <2>5
    <3> HIDE DEF mh, dh
    <3>2. y + mh <= MaxRows
      BY <1>1, <3>1 DEF a
    <3> QED
      BY <3>2 DEF mh
  <2>7. y + 3 <= MaxRows => d > 0
    <3>1. d = 0 => a < h
      BY <1>1, <2>3
    <3>2. y + 3 <= MaxRows => a >= 3
      BY <1>1 DEF a
    <3> QED
      BY <2>1, <2>3, <3>1, <3>2
  <2> QED
    BY <2>2, <2>3, <2>6, <2>7
<1> QED
  BY <1>2, <1>3

\* A page that a part of its first line fills.
LEMMA PagedSplit ==
    ASSUME NEW W, NEW f, NEW ls, NEW rows \in Seq(RowsIn(W, f)), NEW y \in Nat,
           NEW rest \in Seq(LinesOf(W)), Len(TL!RowChars(rows)) > 0, y <= MaxRows,
           TL!RowChars(rows) \o TL!LineChars(rest) = TL!LineChars(SubSeq(ls, 1, 1))
    PROVE  [rows |-> rows, y |-> y, consumed |-> 1, full |-> TRUE, rest |-> rest]
              \in Paged(W, f, ls, 1)
<1> DEFINE q == [rows |-> rows, y |-> y, consumed |-> 1, full |-> TRUE, rest |-> rest]
<1>1. q.rows = rows /\ q.y = y /\ q.consumed = 1 /\ q.full /\ q.rest = rest
  OBVIOUS
<1>2. ~(y > MaxRows)
  BY TextsAssumption
<1>3. q \in [rows : Seq(RowsIn(W, f)), y : Nat, consumed : 0..1, full : BOOLEAN,
             rest : Seq(LinesOf(W))]
  OBVIOUS
<1> HIDE DEF q
<1>4. q \in Paged(W, f, ls, 1)
  <2>1. /\ ~q.full => q.consumed = 1 /\ q.rest = <<>>
        /\ q.full => q.consumed > 0
        /\ q.consumed = 0 => q.y = Margin /\ q.rows = <<>>
    BY <1>1
  <2>2. TL!RowChars(q.rows) \o TL!LineChars(q.rest)
           = TL!LineChars(SubSeq(ls, 1, q.consumed))
    BY <1>1
  <2>3. /\ q.y > MaxRows => q.rows # <<>> /\ q.rows[Len(q.rows)].row = <<>>
        /\ q.rest # <<>> => Len(TL!RowChars(q.rows)) > 0
    BY <1>1, <1>2
  <2> QED
    BY <1>3, <2>1, <2>2, <2>3, Zenon DEF Paged
<1> QED
  BY <1>4 DEF q

\* A line that does not fit an empty page is split.
LEMMA PlacedSplit ==
    ASSUME NEW W, Words(W), NEW f \in Fonts, NEW ls \in Seq(LinesOf(W)), NEW n \in 1..Len(ls),
           NEW p \in Paged(W, f, ls, n - 1), ~p.full, p.consumed = 0,
           NEW wrapped \in Seq(FitRows(W, TL!CharWidth(ls[n].headline, f))),
           Text(wrapped) = Flat(ls[n].words),
           Len(wrapped) > TL!Fit(p.y, TL!LineHeight(ls[n].headline, f))
    PROVE  TL!Take(p, ls[n], TL!LineHeight(ls[n].headline, f), wrapped) \in Paged(W, f, ls, n)
<1> DEFINE line == ls[n]
           hd == line.headline
           h == TL!LineHeight(hd, f)
           F == FitRows(W, TL!CharWidth(hd, f))
           take == TL!Fit(Margin, h)
           first == SubSeq(wrapped, 1, take)
           left == SubSeq(wrapped, take + 1, Len(wrapped))
           rest == [m \in 1..(Len(wrapped) - take) |-> [line EXCEPT !.words = wrapped[take + m]]]
           rows == TL!Rows(hd, first)
           y == Margin + take * h
<1>1. /\ p \in [rows : Seq(RowsIn(W, f)), y : Nat, consumed : 0..(n - 1), full : BOOLEAN,
                rest : Seq(LinesOf(W))]
      /\ n = 1 /\ p.rest = <<>> /\ p.y = Margin /\ p.rows = <<>>
  BY DEF Paged
<1>2. line \in LinesOf(W) /\ SubSeq(ls, 1, 1) = Append(<<>>, line)
  <2>1. SubSeq(ls, 1, n) = Append(SubSeq(ls, 1, n - 1), line) /\ line \in LinesOf(W)
    BY PrefixStep
  <2>2. SubSeq(ls, 1, 0) = <<>>
    BY LongerPrefix
  <2>3. n - 1 = 0 /\ n = 1
    BY <1>1
  <2> HIDE DEF line
  <2> QED
    BY <2>1, <2>2, <2>3, Zenon
<1>3. /\ hd \in BOOLEAN /\ h \in {1, 2, 3}
      /\ Margin \in Nat /\ Margin + 3 <= MaxRows /\ MaxRows \in Nat
  <2>1. hd \in BOOLEAN
    BY <1>2 DEF LinesOf
  <2> HIDE DEF hd
  <2>2. h \in {1, 2, 3}
    BY <2>1, PageSets
  <2> QED
    BY <2>1, <2>2, TextsAssumption
<1> HIDE DEF h
<1>4. take \in Nat \ {0} /\ y <= MaxRows /\ y \in Nat
  <2>1. take \in Nat /\ take > 0
    BY <1>3, FitIs
  <2> HIDE DEF take
  <2>2. Margin + take * h <= MaxRows
    <3>1. \A m \in Nat : m > 0 /\ m <= take => Margin + m * h <= MaxRows
      BY <1>3, FitIs DEF take
    <3> QED
      BY <2>1, <3>1
  <2>3. take * h \in Nat
    BY <1>3, <2>1, ProductOrder
  <2> QED
    BY <1>3, <2>1, <2>2, <2>3
<1>5. take < Len(wrapped)
  BY <1>1 DEF h
<1> HIDE DEF take
<1>6. TL!Take(p, line, h, wrapped)
         = [rows |-> rows, y |-> y, consumed |-> 1, full |-> TRUE, rest |-> rest]
  <2> DEFINE t == IF TL!Fit(p.y, h) > 1 THEN TL!Fit(p.y, h) ELSE 1
             Q(r, z, u, e) == Ends(p, TRUE, z, u, r, e)
  <2>1. t = take
    BY <1>1, <1>4 DEF take
  <2>2. TL!Take(p, line, h, wrapped)
           = Q(p.rows \o TL!Rows(hd, SubSeq(wrapped, 1, t)), p.y + t * h, 1,
               [m \in 1..(Len(wrapped) - t) |-> [line EXCEPT !.words = wrapped[t + m]]])
    BY <1>1 DEF TL!Take, Ends
  <2> HIDE DEF t, Q
  <2>3. TL!Take(p, line, h, wrapped) = Q(<<>> \o rows, y, 1, rest)
    BY <1>1, <2>1, <2>2
  <2>4. <<>> \o rows = rows
    BY DEF TL!Rows
  <2> HIDE DEF rows, y, rest
  <2>5. Q(rows, y, 1, rest)
           = [rows |-> rows, y |-> y, consumed |-> 1, full |-> TRUE, rest |-> rest]
    <3>1. IsPage(p)
      BY <1>1 DEF IsPage
    <3> DEFINE v == TRUE
    <3> HIDE DEF v
    <3>2. Ends(p, v, y, 1, rows, rest)
             = [rows |-> rows, y |-> y, consumed |-> 1, full |-> v, rest |-> rest]
      BY <3>1, PageEnds
    <3> QED
      BY <3>2 DEF v, Q
  <2> QED
    BY <2>3, <2>4, <2>5
<1>7. first \in Seq(F) /\ left \in Seq(F) /\ Len(first) = take /\ wrapped = first \o left
  <2>1. take \in 0..Len(wrapped) /\ wrapped \in Seq(F)
    BY <1>4, <1>5
  <2> HIDE DEF F, first, left
  <2>2. SplitsAt(F, wrapped, take)
    BY <2>1, SplitAt
  <2> QED
    BY <2>2 DEF SplitsAt, first, left
<1> HIDE DEF first
<1>8. rows \in Seq(RowsIn(W, f)) /\ TL!RowChars(rows) = Text(first)
  BY <1>3, <1>7, RowsAre
<1>9. rest \in Seq(LinesOf(W)) /\ TL!LineChars(rest) = Text(left)
  <2>1. take \in 0..Len(wrapped)
    BY <1>4, <1>5
  <2> QED
    BY <1>2, <2>1, RestIs
<1> HIDE DEF rows, rest, left
<1>10. Cuttable(W, TL!CharWidth(hd, f))
  BY <1>3, PageSets
<1>11. Text(first) \o Text(left) = Flat(line.words)
  <2>1. first \in Seq(Seq(Seq(Glyphs))) /\ left \in Seq(Seq(Seq(Glyphs)))
    BY <1>7, <1>10, RowsOfWords
  <2>2. Text(first \o left) = Text(first) \o Text(left)
    BY <2>1, TextJoin
  <2> QED
    BY <1>7, <2>2
<1>12. TL!LineChars(SubSeq(ls, 1, 1)) = Flat(line.words)
  <2>1. line \in TextLine /\ <<>> \in Seq(TextLine)
    BY <1>2, PageSets
  <2>2. TL!LineChars(Append(<<>>, line)) = <<>> \o Flat(line.words)
    BY <2>1, LineCharsFacts
  <2>3. Flat(line.words) \in Seq(Glyphs)
    BY <2>1, TextType DEF TextLine
  <2>4. <<>> \o Flat(line.words) = Flat(line.words)
    BY <2>3, Joined
  <2> QED
    BY <1>2, <2>2, <2>4
<1>13. Len(TL!RowChars(rows)) > 0
  <2>1. first # <<>>
    BY <1>4, <1>7
  <2> QED
    BY <1>7, <1>8, <1>10, <2>1, RowsHaveChars
<1> HIDE DEF y
<1>14. TL!RowChars(rows) \o TL!LineChars(rest) = TL!LineChars(SubSeq(ls, 1, 1))
  BY <1>8, <1>9, <1>11, <1>12
<1>15. [rows |-> rows, y |-> y, consumed |-> 1, full |-> TRUE, rest |-> rest]
          \in Paged(W, f, ls, 1)
  BY <1>4, <1>8, <1>9, <1>13, <1>14, PagedSplit
<1> QED
  BY <1>1, <1>6, <1>15 DEF h

\* One more line of the queue.
LEMMA PlaceLineStep ==
    ASSUME NEW W, Words(W), NEW f \in Fonts, NEW ls \in Seq(LinesOf(W)), NEW n \in 1..Len(ls),
           NEW p \in Paged(W, f, ls, n - 1)
    PROVE  TL!Place(p, ls[n], f) \in Paged(W, f, ls, n)
<1> DEFINE line == ls[n]
           hd == line.headline
           cw == TL!CharWidth(hd, f)
           h == TL!LineHeight(hd, f)
           F == FitRows(W, cw)
           wrapped == TL!WrapText(line.words, cw)
           blank == [headline |-> hd, row |-> <<>>]
<1>1. p \in [rows : Seq(RowsIn(W, f)), y : Nat, consumed : 0..(n - 1), full : BOOLEAN,
             rest : Seq(LinesOf(W))]
  BY DEF Paged
<1>2. line \in LinesOf(W) /\ hd \in BOOLEAN /\ line.words \in Seq(W)
  <2>1. line \in LinesOf(W)
    BY PrefixStep
  <2> QED
    BY <2>1 DEF LinesOf
<1>3. cw \in {1, 2} /\ h \in {1, 2, 3} /\ Cuttable(W, cw)
  <2> HIDE DEF hd
  <2> QED
    BY <1>2, PageSets
<1>4. wrapped \in Seq(F) /\ Text(wrapped) = Flat(line.words)
      /\ (wrapped = <<>> <=> line.words = <<>>)
  <2> HIDE DEF cw
  <2> QED
    BY <1>2, <1>3, WrapIs
<1>5. IsPage(p)
  BY <1>1 DEF IsPage
<1>6. CASE p.full
  <2>1. TL!Place(p, line, f) = p
    BY <1>6 DEF TL!Place
  <2>2. p.consumed \in 0..n
    BY <1>1
  <2>3. p \in [rows : Seq(RowsIn(W, f)), y : Nat, consumed : 0..n, full : BOOLEAN,
               rest : Seq(LinesOf(W))]
    BY <1>1, <2>2
  <2>4. p \in Paged(W, f, ls, n)
    BY <1>6, <2>3, Zenon DEF Paged
  <2> QED
    BY <2>1, <2>4
<1>7. CASE ~p.full /\ wrapped = <<>>
  <2> DEFINE more == <<blank>>
             u == p.rows
  <2>1. TL!Place(p, line, f)
           = [p EXCEPT !.rows = Append(p.rows, blank), !.y = p.y + h,
                       !.consumed = p.consumed + 1]
    BY <1>7 DEF TL!Place
  <2>2. blank \in RowsIn(W, f) /\ blank.row = <<>>
    BY <1>2 DEF RowsIn
  <2>3. more \in Seq(RowsIn(W, f)) /\ u \in Seq(RowsIn(W, f))
    BY <1>1, <2>2
  <2>4. TL!RowChars(more) = Flat(line.words)
    <3>1. <<>> \in Seq(PageRow) /\ blank \in PageRow
      BY <2>2, PageSets
    <3>2. more = Append(<<>>, blank)
      OBVIOUS
    <3>3. TL!RowChars(Append(<<>>, blank)) = <<>> \o Flat(blank.row)
      BY <3>1, RowCharsFacts
    <3>4. Flat(<<>>) = <<>> /\ <<>> \o <<>> = <<>>
      BY FlatOne
    <3> QED
      BY <1>4, <1>7, <2>2, <3>2, <3>3, <3>4
  <2> HIDE DEF blank, u
  <2>5. /\ u \o more = Append(u, blank)
        /\ u \o more # <<>> /\ (u \o more)[Len(u \o more)] = blank
    BY <2>2, <2>3
  <2> HIDE DEF more
  <2>6. h \in Nat
    BY <1>3
  <2>7. [p EXCEPT !.rows = u \o more, !.y = p.y + h, !.consumed = p.consumed + 1]
            \in Paged(W, f, ls, n)
    BY <1>7, <2>2, <2>3, <2>4, <2>5, <2>6, PlacedWhole DEF u
  <2> QED
    BY <2>1, <2>5, <2>7, Zenon DEF u
<1>8. CASE ~p.full /\ wrapped # <<>> /\ Len(wrapped) <= TL!Fit(p.y, h)
  <2> DEFINE more == TL!Rows(hd, wrapped)
             high == Len(wrapped) * h
  <2>1. TL!Place(p, line, f)
           = [p EXCEPT !.rows = p.rows \o more, !.y = p.y + high,
                       !.consumed = p.consumed + 1]
    BY <1>8 DEF TL!Place
  <2>2. more \in Seq(RowsIn(W, f)) /\ TL!RowChars(more) = Flat(line.words)
    <3> HIDE DEF hd, wrapped
    <3>1. wrapped \in Seq(FitRows(W, TL!CharWidth(hd, f)))
      BY <1>4
    <3>2. TL!Rows(hd, wrapped) \in Seq(RowsIn(W, f))
          /\ TL!RowChars(TL!Rows(hd, wrapped)) = Text(wrapped)
      BY <1>2, <3>1, RowsAre
    <3> QED
      BY <1>4, <3>2
  <2>3. high \in Nat /\ ~(p.y + high > MaxRows)
    <3> DEFINE y == p.y
               m == Len(wrapped)
    <3>1. y \in Nat /\ m \in Nat /\ m > 0 /\ m <= TL!Fit(y, h)
      BY <1>1, <1>4, <1>8
    <3> HIDE DEF y, m
    <3>2. y + m * h <= MaxRows
      BY <1>3, <3>1, FitIs
    <3>3. m * h \in Nat
      BY <1>3, <3>1, ProductOrder
    <3> QED
      BY <3>1, <3>2, <3>3, TextsAssumption DEF y, m
  <2> HIDE DEF more, high
  <2>4. [p EXCEPT !.rows = p.rows \o more, !.y = p.y + high, !.consumed = p.consumed + 1]
            \in Paged(W, f, ls, n)
    BY <1>8, <2>2, <2>3, PlacedWhole
  <2> QED
    BY <2>1, <2>4
<1>9. CASE ~p.full /\ wrapped # <<>> /\ ~(Len(wrapped) <= TL!Fit(p.y, h))
  <2>1. TL!Place(p, line, f) = TL!Take(p, line, h, wrapped)
    BY <1>9 DEF TL!Place
  <2>2. CASE p.consumed > 0
    <3> DEFINE v == TRUE
    <3>1. TL!Take(p, line, h, wrapped) = Filled(p, v)
      BY <2>2 DEF TL!Take, Filled
    <3> HIDE DEF v
    <3>2. Filled(p, v) = [rows |-> p.rows, y |-> p.y, consumed |-> p.consumed, full |-> v,
                          rest |-> p.rest]
      BY <1>5, PageFull
    <3> DEFINE q == Filled(p, v)
    <3>3. q.rows = p.rows /\ q.y = p.y /\ q.consumed = p.consumed /\ q.full = v
          /\ q.rest = p.rest
      BY <3>2
    <3>4. v = TRUE
      BY DEF v
    <3>5. q \in [rows : Seq(RowsIn(W, f)), y : Nat, consumed : 0..n, full : BOOLEAN,
                 rest : Seq(LinesOf(W))]
      <4>1. p.consumed \in 0..n /\ v \in BOOLEAN
        BY <1>1, <3>4
      <4> QED
        BY <1>1, <3>2, <4>1
    <3> HIDE DEF q
    <3>6. q \in Paged(W, f, ls, n)
      <4>1. q.full /\ q.consumed > 0
        BY <2>2, <3>3, <3>4
      <4>2. q.consumed # 0
        BY <1>1, <2>2, <3>3
      <4>3. /\ TL!RowChars(p.rows) \o TL!LineChars(p.rest)
                  = TL!LineChars(SubSeq(ls, 1, p.consumed))
            /\ p.y > MaxRows => p.rows # <<>> /\ p.rows[Len(p.rows)].row = <<>>
            /\ p.rest # <<>> => Len(TL!RowChars(p.rows)) > 0
        BY DEF Paged
      <4> QED
        BY <3>3, <3>5, <4>1, <4>2, <4>3, Zenon DEF Paged
    <3> QED
      BY <2>1, <3>1, <3>6 DEF q, v
  <2>3. CASE ~(p.consumed > 0)
    <3>1. p.consumed = 0
      BY <1>1, <2>3
    <3>2. Len(wrapped) > TL!Fit(p.y, h)
      <4>1. p.y \in Nat /\ Len(wrapped) \in Nat
        BY <1>1, <1>4
      <4>2. TL!Fit(p.y, h) \in Nat
        BY <1>3, <4>1, FitIs
      <4> QED
        BY <1>9, <4>1, <4>2
    <3> HIDE DEF wrapped
    <3>3. TL!Take(p, line, h, wrapped) \in Paged(W, f, ls, n)
      BY <1>4, <1>9, <3>1, <3>2, PlacedSplit
    <3> QED
      BY <2>1, <3>3
  <2> QED
    BY <2>2, <2>3
<1> QED
  BY <1>6, <1>7, <1>8, <1>9

\* A page takes lines off the queue, the rest of one that was split in front.
LEMMA PaginateIs ==
    ASSUME NEW W, Words(W), NEW f \in Fonts, NEW ls \in Seq(LinesOf(W))
    PROVE  TL!Paginate(ls, f) \in Paged(W, f, ls, Len(ls))
<1> DEFINE L == Len(ls)
           x0 == [rows |-> <<>>, y |-> Margin, consumed |-> 0, full |-> FALSE, rest |-> <<>>]
           RS(n) == Paged(W, f, ls, n)
           P(h) == h = [n \in 0..L |-> IF n = 0 THEN x0 ELSE TL!Place(h[n - 1], ls[n], f)]
           k == CHOOSE h : P(h)
           All == UNION {RS(n) : n \in 0..L}
           G == [p \in (1..L) \X All |-> TL!Place(p[2], ls[p[1]], f)]
           U == [n \in 0..L |-> RS(n)]
<1>1. L \in Nat /\ 0 \in 0..L /\ L \in 0..L
      /\ \A n \in 1..L : n \in 0..L /\ n - 1 \in 0..L /\ n # 0
  OBVIOUS
<1>2. \A n \in 1..L : \A r \in All : G[<<n, r>>] = TL!Place(r, ls[n], f)
  <2> HIDE DEF All
  <2> QED
    OBVIOUS
<1>3. \A n \in 0..L : U[n] = RS(n)
  OBVIOUS
<1>4. x0 \in RS(0)
  <2>1. x0.rows = <<>> /\ x0.y = Margin /\ x0.consumed = 0 /\ ~x0.full /\ x0.rest = <<>>
    OBVIOUS
  <2>2. x0 \in [rows : Seq(RowsIn(W, f)), y : Nat, consumed : 0..0, full : BOOLEAN,
                rest : Seq(LinesOf(W))]
    BY TextsAssumption
  <2>3. Margin \in Nat /\ MaxRows \in Nat /\ Margin + 3 <= MaxRows
    BY TextsAssumption
  <2> HIDE DEF x0
  <2>4. TL!RowChars(x0.rows) \o TL!LineChars(x0.rest)
           = TL!LineChars(SubSeq(ls, 1, x0.consumed))
    <3>1. SubSeq(ls, 1, 0) = <<>> /\ <<>> \o <<>> = <<>>
      BY LongerPrefix
    <3> QED
      BY <2>1, <3>1, RowCharsFacts, LineCharsFacts
  <2>5. ~(x0.y > MaxRows)
    BY <2>1, <2>3
  <2> QED
    BY <2>1, <2>2, <2>4, <2>5, Zenon DEF Paged
<1>5. \A n \in 0..L : RS(n) \subseteq All
  OBVIOUS
<1> HIDE DEF L, x0, RS, All, G, U
<1>6. \A n \in 1..L : \A r \in RS(n - 1) : TL!Place(r, ls[n], f) \in RS(n)
  BY PlaceLineStep DEF L, RS
<1>7. PICK h : Recursive(h, L, x0, G)
  BY <1>1, RecursionDefines
<1>8. \A n \in 0..L : h[n] \in U[n]
  <2>1. x0 \in U[0]
    BY <1>1, <1>3, <1>4
  <2>2. \A n \in 1..L : \A r \in U[n - 1] : G[<<n, r>>] \in U[n]
    <3> SUFFICES ASSUME NEW n \in 1..L, NEW r \in U[n - 1] PROVE G[<<n, r>>] \in U[n]
      OBVIOUS
    <3>1. r \in RS(n - 1) /\ U[n] = RS(n)
      BY <1>1, <1>3
    <3>2. r \in All
      BY <1>1, <1>5, <3>1
    <3>3. G[<<n, r>>] = TL!Place(r, ls[n], f)
      BY <1>2, <3>2
    <3> QED
      BY <1>6, <3>1, <3>3
  <2> QED
    BY <1>1, <1>7, <2>1, <2>2, RecursionIn
<1>9. P(h)
  <2>1. ASSUME NEW n \in 0..L
        PROVE  h[n] = IF n = 0 THEN x0 ELSE TL!Place(h[n - 1], ls[n], f)
    <3>1. h[n] = IF n = 0 THEN x0 ELSE G[<<n, h[n - 1]>>]
      BY <1>7 DEF Recursive
    <3>2. CASE n # 0
      <4>1. n \in 1..L /\ n - 1 \in 0..L
        BY <1>1, <3>2
      <4>2. h[n - 1] \in All
        BY <1>3, <1>5, <1>8, <4>1
      <4> QED
        BY <1>2, <3>1, <3>2, <4>1, <4>2
    <3> QED
      BY <3>1, <3>2
  <2>2. h = [n \in 0..L |-> h[n]]
    BY <1>7 DEF Recursive
  <2> QED
    BY <2>1, <2>2
<1>10. P(k)
  <2> HIDE DEF P
  <2> QED
    BY <1>9
<1>11. TL!Paginate(ls, f) = k[L]
  BY DEF TL!Paginate, L, x0
<1> HIDE DEF k
<1>12. \A n \in 0..L : k[n] \in RS(n)
  <2> DEFINE T == {n \in 0..L : k[n] \in RS(n)}
  <2>1. 0 \in T
    BY <1>1, <1>4, <1>10
  <2>2. ASSUME NEW n \in 1..L, n - 1 \in T PROVE n \in T
    <3>1. k[n] = TL!Place(k[n - 1], ls[n], f)
      BY <1>1, <1>10
    <3> QED
      BY <1>1, <1>6, <2>2, <3>1
  <2> HIDE DEF T
  <2>3. 0..L \subseteq T
    BY <1>1, <2>1, <2>2, UpTo
  <2> QED
    BY <2>3 DEF T
<1> QED
  BY <1>1, <1>11, <1>12 DEF RS, L

\* What a page and the queue after it are.
LEMMA PageIs ==
    ASSUME NEW W, Words(W), NEW f \in Fonts, NEW ls \in Seq(LinesOf(W))
    PROVE  LET p == TL!Paginate(ls, f)
               left == TL!Drained(ls, p)
           IN  /\ p.rows \in Seq(RowsIn(W, f)) /\ p.y \in Nat /\ left \in Seq(LinesOf(W))
               /\ TL!RowChars(p.rows) \o TL!LineChars(left) = TL!LineChars(ls)
               /\ p.y > MaxRows => p.rows[Len(p.rows)].row = <<>>
               /\ Len(ls) > 0 =>
                    \/ Len(TL!LineChars(left)) < Len(TL!LineChars(ls))
                    \/ /\ Len(TL!LineChars(left)) = Len(TL!LineChars(ls))
                       /\ Len(left) < Len(ls)
               /\ ls = <<>> => p.rows = <<>> /\ left = <<>>
<1> DEFINE p == TL!Paginate(ls, f)
           L == Len(ls)
           c == p.consumed
           rest == p.rest
           before == SubSeq(ls, 1, c)
           after == SubSeq(ls, c + 1, L)
           left == TL!Drained(ls, p)
           printedChars == TL!RowChars(p.rows)
<1>1. p \in Paged(W, f, ls, L)
  BY PaginateIs
<1> HIDE DEF p
<1>2. /\ p.rows \in Seq(RowsIn(W, f)) /\ p.y \in Nat /\ c \in 0..L
      /\ p.full \in BOOLEAN /\ rest \in Seq(LinesOf(W))
      /\ ~p.full => c = L /\ rest = <<>>
      /\ p.full => c > 0
      /\ c = 0 => p.rows = <<>>
      /\ printedChars \o TL!LineChars(rest) = TL!LineChars(before)
      /\ p.y > MaxRows => p.rows[Len(p.rows)].row = <<>>
      /\ rest # <<>> => Len(printedChars) > 0
  BY <1>1 DEF Paged
<1>3. left = rest \o after
  BY DEF TL!Drained
<1> HIDE DEF c, rest, left
<1>4. /\ before \in Seq(LinesOf(W)) /\ after \in Seq(LinesOf(W)) /\ ls = before \o after
      /\ Len(after) = L - c /\ L \in Nat
  <2>1. c \in 0..Len(ls)
    BY <1>2
  <2>2. /\ before \in Seq(LinesOf(W)) /\ after \in Seq(LinesOf(W)) /\ ls = before \o after
        /\ Len(after) = L - c
    <3>1. SplitsAt(LinesOf(W), ls, c)
      BY <2>1, SplitAt
    <3> QED
      BY <3>1 DEF SplitsAt
  <2>3. L \in Nat
    OBVIOUS
  <2> QED
    BY <2>2, <2>3
<1> HIDE DEF L, before, after, printedChars
<1>5. left \in Seq(LinesOf(W)) /\ Len(left) = Len(rest) + Len(after)
  BY <1>2, <1>3, <1>4, JoinType
<1>6. /\ before \in Seq(TextLine) /\ after \in Seq(TextLine) /\ rest \in Seq(TextLine)
      /\ p.rows \in Seq(PageRow)
  BY <1>2, <1>4, PageSets
<1> DEFINE a == TL!LineChars(rest)
           b == TL!LineChars(after)
           l == TL!LineChars(left)
           all == TL!LineChars(ls)
<1>7. /\ a \in Seq(Glyphs) /\ b \in Seq(Glyphs) /\ printedChars \in Seq(Glyphs)
      /\ l = a \o b /\ all = TL!LineChars(before) \o b
  BY <1>3, <1>4, <1>6, LineCharsFacts, RowCharsFacts DEF printedChars
<1>8. printedChars \o a = TL!LineChars(before)
  BY <1>2
<1> HIDE DEF a, b, l, all
<1>9. all = printedChars \o l
  <2>1. Associates(printedChars, a, b)
    BY <1>7, JoinThree
  <2> QED
    BY <1>7, <1>8, <2>1 DEF Associates
<1>10. l \in Seq(Glyphs) /\ Len(all) = Len(printedChars) + Len(l)
  BY <1>7, <1>9, JoinType
<1>11. L > 0 => Len(l) < Len(all) \/ (Len(l) = Len(all) /\ Len(left) < L)
  <2> SUFFICES ASSUME L > 0 PROVE Len(l) < Len(all) \/ (Len(l) = Len(all) /\ Len(left) < L)
    OBVIOUS
  <2>1. Len(printedChars) \in Nat /\ Len(l) \in Nat
    BY <1>7, <1>10
  <2>2. CASE Len(printedChars) > 0
    BY <1>10, <2>1, <2>2
  <2>3. CASE Len(printedChars) = 0
    <3>1. rest = <<>>
      BY <1>2, <2>3
    <3>2. Len(rest) = 0 /\ c > 0
      BY <1>2, <3>1
    <3>3. Len(left) < L
      BY <1>2, <1>4, <1>5, <3>2
    <3> QED
      BY <1>10, <2>1, <2>3, <3>3
  <2> QED
    BY <2>1, <2>2, <2>3
<1>12. ls = <<>> => p.rows = <<>> /\ left = <<>>
  <2> SUFFICES ASSUME ls = <<>> PROVE p.rows = <<>> /\ left = <<>>
    OBVIOUS
  <2>1. L = 0
    BY DEF L
  <2>2. c = 0 /\ rest = <<>>
    BY <1>2, <2>1
  <2>3. Len(left) = 0
    BY <1>4, <1>5, <2>1, <2>2
  <2> QED
    BY <1>2, <1>5, <2>2, <2>3
<1> QED
  BY <1>2, <1>5, <1>9, <1>11, <1>12 DEF p, left, l, all, printedChars, L

-----------------------------------------------------------------------------
(* The text and its pages.                                                 *)

\* The words of lines ls and the pieces of those that may be cut.
WholeWords(ls) ==
    {x \in Seq(Glyphs) :
        /\ x # <<>>
        /\ \E n \in DOMAIN ls : \E w \in DOMAIN ls[n].words :
              /\ \A i \in 1..Len(x) : x[i][1] = n /\ x[i][2] = w
              /\ Len(ls[n].words[w]) * 2 <= Width => x = ls[n].words[w]}

\* They may be cut when they are too wide.
LEMMA WholeWordsCut ==
    ASSUME NEW ls
    PROVE  Words(WholeWords(ls))
<1> DEFINE W == WholeWords(ls)
<1>1. W \subseteq Seq(Glyphs) /\ <<>> \notin W
  BY DEF WholeWords
<1>2. ASSUME NEW cw \in {1, 2}, NEW x \in W, Len(x) * cw > Width,
             NEW a \in 1..Len(x), NEW b \in a..Len(x)
      PROVE  SubSeq(x, a, b) \in W
  <2> DEFINE y == SubSeq(x, a, b)
  <2>1. x \in Seq(Glyphs) /\ Len(x) \in Nat
    BY <1>1
  <2>2. PICK n \in DOMAIN ls : \E w \in DOMAIN ls[n].words :
           /\ \A i \in 1..Len(x) : x[i][1] = n /\ x[i][2] = w
           /\ Len(ls[n].words[w]) * 2 <= Width => x = ls[n].words[w]
    BY DEF WholeWords
  <2>3. PICK w \in DOMAIN ls[n].words :
           /\ \A i \in 1..Len(x) : x[i][1] = n /\ x[i][2] = w
           /\ Len(ls[n].words[w]) * 2 <= Width => x = ls[n].words[w]
    BY <2>2, Zenon
  <2>4. y \in Seq(Glyphs) /\ Len(y) = b - a + 1 /\ \A i \in 1..Len(y) : y[i] = x[a + i - 1]
    BY <2>1
  <2> HIDE DEF W, y
  <2>5. \A i \in 1..Len(y) : y[i][1] = n /\ y[i][2] = w
    <3> SUFFICES ASSUME NEW i \in 1..Len(y) PROVE y[i][1] = n /\ y[i][2] = w
      OBVIOUS
    <3>1. a + i - 1 \in 1..Len(x)
      BY <2>1, <2>4
    <3> QED
      BY <2>3, <2>4, <3>1
  <2>6. ~(Len(ls[n].words[w]) * 2 <= Width)
    <3> SUFFICES ASSUME Len(ls[n].words[w]) * 2 <= Width PROVE FALSE
      OBVIOUS
    <3>1. Len(x) * 2 <= Width
      BY <2>3, Zenon
    <3>2. Len(x) * cw <= Len(x) * 2
      BY <2>1
    <3>3. Width \in Nat
      BY TextsAssumption
    <3> QED
      BY <1>2, <2>1, <3>1, <3>2, <3>3
  <2>7. y # <<>>
    BY <2>4
  <2>8. y \in W
    BY <2>4, <2>5, <2>6, <2>7, Zenon DEF W, WholeWords
  <2> QED
    BY <2>8 DEF y
<1> HIDE DEF W
<1>3. Cuttable(W, 1) /\ Cuttable(W, 2)
  BY <1>1, <1>2 DEF Cuttable
<1> QED
  BY <1>3 DEF Words, W

\* Lines that are numbered from 1.
Lens == Seq(Nat \ {0})
Numbered(ls, N) ==
    /\ N \in Nat /\ DOMAIN ls = 1..N /\ ls = [n \in 1..N |-> ls[n]]
    /\ \A n \in 1..N : \E h \in BOOLEAN : \E lens \in Lens : ls[n] = TL!Line(n, h, lens)

\* Their words are words.
LEMMA NumberedWords ==
    ASSUME NEW ls, NEW N, Numbered(ls, N)
    PROVE  ls \in Seq(LinesOf(WholeWords(ls)))
<1> DEFINE W == WholeWords(ls)
<1>1. ASSUME NEW n \in 1..N PROVE ls[n] \in LinesOf(W)
  <2>1. PICK h \in BOOLEAN, lens \in Lens : ls[n] = TL!Line(n, h, lens)
    BY DEF Numbered
  <2> DEFINE words == ls[n].words
  <2>2. ls[n] = [headline |-> h, words |-> words]
        /\ words = [w \in DOMAIN lens |-> TL!Word(n, w, lens[w])]
    BY <2>1 DEF TL!Line
  <2>3. N \in Nat /\ DOMAIN ls = 1..N
    BY DEF Numbered
  <2>4. DOMAIN lens = 1..Len(lens) /\ Len(lens) \in Nat
        /\ \A w \in 1..Len(lens) : lens[w] \in Nat \ {0}
    BY DEF Lens
  <2> HIDE DEF words
  <2>5. DOMAIN words = 1..Len(lens)
    BY <2>2, <2>4
  <2>6. ASSUME NEW w \in 1..Len(lens) PROVE words[w] \in W
    <3> DEFINE x == words[w]
               m == lens[w]
    <3>1. x = TL!Word(n, w, m)
      BY <2>2, <2>4
    <3>2. m \in Nat \ {0}
      BY <2>4
    <3> HIDE DEF x, m
    <3>3. x = [c \in 1..m |-> <<n, w, c>>]
      BY <3>1 DEF TL!Word
    <3>4. \A c \in 1..m : <<n, w, c>> \in Glyphs
      BY <2>3, <2>4, <3>2 DEF Glyphs
    <3>5. x \in Seq(Glyphs) /\ Len(x) = m /\ x # <<>>
      BY <3>2, <3>3, <3>4
    <3>6. \A i \in 1..Len(x) : x[i][1] = n /\ x[i][2] = w
      BY <3>3, <3>5
    <3>7. n \in DOMAIN ls /\ w \in DOMAIN ls[n].words /\ x = ls[n].words[w]
      BY <2>3, <2>5 DEF x, words
    <3>8. x \in W
      BY <3>5, <3>6, <3>7, Zenon DEF WholeWords
    <3> QED
      BY <3>8 DEF x
  <2>7. words = [w \in 1..Len(lens) |-> words[w]]
    BY <2>2, <2>4
  <2> HIDE DEF W
  <2>8. words \in Seq(W)
    BY <2>4, <2>6, <2>7
  <2> QED
    BY <2>2, <2>8 DEF LinesOf
<1> HIDE DEF W
<1>2. N \in Nat /\ ls = [n \in 1..N |-> ls[n]]
  BY DEF Numbered
<1>3. ls \in Seq(LinesOf(W))
  <2> DEFINE X == LinesOf(W)
  <2>1. \A n \in 1..N : ls[n] \in X
    BY <1>1
  <2> HIDE DEF X
  <2> QED
    BY <1>2, <2>1 DEF X
<1> QED
  BY <1>3 DEF W

\* What is printed has numbered lines.
LEMMA SourceIs ==
    ASSUME NEW s \in TL!Sources
    PROVE  /\ s.kind \in {"text", "vcard"}
           /\ s.lines \in Seq(LinesOf(WholeWords(s.lines)))
<1>1. CASE \E t \in Texts : s = [kind |-> "text", lines |-> TL!TextLines(t)]
  <2>1. PICK t \in Texts : s = [kind |-> "text", lines |-> TL!TextLines(t)]
    BY <1>1
  <2>2. t \in Seq(Lens)
    BY TextsAssumption DEF Lens
  <2> DEFINE ls == TL!TextLines(t)
  <2>3. DOMAIN t = 1..Len(t) /\ Len(t) \in Nat /\ \A n \in 1..Len(t) : t[n] \in Lens
    BY <2>2
  <2>4. ls = [n \in 1..Len(t) |-> TL!Line(n, FALSE, t[n])]
    BY <2>3 DEF TL!TextLines
  <2> HIDE DEF ls
  <2>5. Numbered(ls, Len(t))
    <3>1. DOMAIN ls = 1..Len(t) /\ \A n \in 1..Len(t) : ls[n] = TL!Line(n, FALSE, t[n])
      BY <2>4
    <3>2. ls = [n \in 1..Len(t) |-> ls[n]]
      BY <2>4, <3>1
    <3> QED
      BY <2>3, <3>1, <3>2, Zenon DEF Numbered
  <2>6. ls \in Seq(LinesOf(WholeWords(ls)))
    BY <2>5, NumberedWords
  <2> QED
    BY <2>1, <2>6 DEF ls
<1>2. CASE \E c \in Cards : s = [kind |-> "vcard", lines |-> TL!VcardLines(c)]
  <2>1. PICK c \in Cards : s = [kind |-> "vcard", lines |-> TL!VcardLines(c)]
    BY <1>2
  <2> DEFINE E == [key : STRING, words : Lens]
             picks == [n \in DOMAIN c |-> IF TL!Known(c[n]) THEN <<c[n]>> ELSE <<>>]
             kept == TL!FlattenSeq(picks)
             ls == TL!VcardLines(c)
  <2>2. c \in Seq(E)
    BY TextsAssumption DEF Lens
  <2>3. kept \in Seq(E)
    <3>1. DOMAIN c = 1..Len(c) /\ Len(c) \in Nat /\ \A n \in 1..Len(c) : c[n] \in E
      <4> HIDE DEF E
      <4> QED
        BY <2>2
    <3> DEFINE pick(n) == IF TL!Known(c[n]) THEN <<c[n]>> ELSE <<>>
    <3>2. \A n \in 1..Len(c) : pick(n) \in Seq(E)
      <4> HIDE DEF E
      <4> QED
        BY <3>1
    <3>3. picks = [n \in 1..Len(c) |-> pick(n)]
      BY <3>1
    <3> HIDE DEF E, pick, picks
    <3>4. picks \in Seq(Seq(E))
      BY <3>1, <3>2, <3>3
    <3> QED
      BY <3>4, FlattenIsFlat, FlatAppend
  <2>4. ls = [n \in DOMAIN kept |->
                 IF kept[n].key = "FN" THEN TL!Line(n, TRUE, kept[n].words)
                 ELSE TL!Line(n, FALSE, <<2>> \o kept[n].words)]
    BY DEF TL!VcardLines
  <2> HIDE DEF kept, picks, ls
  <2>5. DOMAIN kept = 1..Len(kept) /\ Len(kept) \in Nat
        /\ \A n \in 1..Len(kept) : kept[n].words \in Lens
    <3>1. \A n \in 1..Len(kept) : kept[n] \in E
      <4> HIDE DEF E
      <4> QED
        BY <2>3
    <3>2. DOMAIN kept = 1..Len(kept) /\ Len(kept) \in Nat
      <4> HIDE DEF E
      <4> QED
        BY <2>3
    <3> QED
      BY <3>1, <3>2
  <2>6. ASSUME NEW n \in 1..Len(kept)
        PROVE  \E h \in BOOLEAN : \E lens \in Lens : ls[n] = TL!Line(n, h, lens)
    <3> DEFINE u == kept[n].words
               v == <<2>> \o u
    <3>1. u \in Lens /\ <<2>> \in Lens
      BY <2>5 DEF Lens
    <3> HIDE DEF u
    <3>2. v \in Lens
      BY <3>1, JoinType DEF Lens
    <3>3. ls[n] = IF kept[n].key = "FN" THEN TL!Line(n, TRUE, u) ELSE TL!Line(n, FALSE, v)
      BY <2>4, <2>5 DEF u
    <3> HIDE DEF v
    <3> QED
      BY <3>1, <3>2, <3>3, Zenon
  <2>7. Numbered(ls, Len(kept))
    <3>1. DOMAIN ls = 1..Len(kept) /\ ls = [n \in 1..Len(kept) |-> ls[n]]
      BY <2>4, <2>5
    <3> QED
      BY <2>5, <2>6, <3>1, Zenon DEF Numbered
  <2>8. ls \in Seq(LinesOf(WholeWords(ls)))
    BY <2>7, NumberedWords
  <2> QED
    BY <2>1, <2>8 DEF ls
<1> QED
  BY <1>1, <1>2 DEF TL!Sources

-----------------------------------------------------------------------------
(* The text on the paper.                                                  *)

\* What a print works on.
SourceWords == WholeWords(source.lines)
TextTypes ==
    /\ source.kind \in {"text", "vcard"}
    /\ source.lines \in Seq(LinesOf(SourceWords)) /\ lines \in Seq(LinesOf(SourceWords))
    /\ printed \in Seq(PageRow) /\ font \in Fonts
    /\ page.font \in Fonts /\ page.rows \in Seq(RowsIn(SourceWords, page.font)) /\ page.y \in Nat
    /\ printState \in {"idle", "printing", "done", "failed"}

\* A card has one page; of a text, what is printed and what is queued are the
\* text until a page is lost, and a print that goes on has lost none.
TextOrder ==
    /\ printState = "idle" => lines = source.lines /\ printed = <<>>
    /\ source.kind = "vcard" =>
          /\ TL!IsPrefix(TL!RowChars(printed), TL!LineChars(source.lines))
          /\ printState # "idle" => lines = <<>>
    /\ source.kind = "text" /\ (~TL!Lost \/ printState \in {"idle", "printing"}) =>
          TL!RowChars(printed) \o TL!LineChars(lines) = TL!LineChars(source.lines)

TextInv == TextTypes /\ TextOrder /\ TL!PageBounded

\* A sequence is a prefix of itself and what follows.
LEMMA PrefixOfJoin ==
    ASSUME NEW S, NEW s \in Seq(S), NEW t \in Seq(S)
    PROVE  TL!IsPrefix(s, s \o t)
<1>1. s \o t \in Seq(S) /\ Len(s \o t) = Len(s) + Len(t) /\ Len(s) \in Nat /\ Len(t) \in Nat
  OBVIOUS
<1>2. SubSeq(s, 1, Len(s)) = SubSeq(s \o t, 1, Len(s))
  OBVIOUS
<1> QED
  BY <1>1, <1>2 DEF TL!IsPrefix

\* The source and its page are the text.
LEMMA TextShows == TextInv => TL!PagesAreText
<1> SUFFICES ASSUME TextInv PROVE TL!PagesAreText
  OBVIOUS
<1> DEFINE W == SourceWords
           F == page.font
<1>1. TL!PageBounded
  BY DEF TextInv
<1>2. TL!PrintsInOrder
  <2>1. source.kind \in {"text", "vcard"}
    BY DEF TextInv, TextTypes
  <2> QED
    BY <2>1 DEF TextInv, TextOrder, TL!PrintsInOrder
<1>3. Words(W) /\ W \subseteq Seq(Glyphs) /\ F \in Fonts
  <2>1. Words(W)
    BY WholeWordsCut DEF SourceWords
  <2>2. F \in Fonts
    BY DEF TextInv, TextTypes
  <2> QED
    BY <2>1, <2>2, PageSets
<1>4. page.rows \in Seq(RowsIn(W, F))
  BY DEF TextInv, TextTypes
<1> HIDE DEF F
<1>5. ASSUME NEW n \in DOMAIN page.rows
      PROVE  LET r == page.rows[n]
             IN  /\ \/ TL!RowWidth(r.row, TL!CharWidth(r.headline, page.font)) <= Width
                    \/ TL!Chars(r.row) = 1
                 /\ \A k \in DOMAIN r.row :
                       LET c == r.row[k][1]
                           word == source.lines[c[1]].words[c[2]]
                       IN  Len(word) * TL!CharWidth(r.headline, "normal") <= Width
                              => r.row[k] = word
  <2> DEFINE r == page.rows[n]
             row == r.row
             cw == TL!CharWidth(r.headline, F)
  <2>1. r \in RowsIn(W, F)
    <3> HIDE DEF W
    <3> QED
      BY <1>4
  <2> HIDE DEF W, r
  <2>2. row \in Seq(W) /\ r.headline \in BOOLEAN /\ (row = <<>> \/ row \in FitRows(W, cw))
    BY <2>1 DEF RowsIn
  <2>3. cw \in {1, 2}
    BY <1>3, <2>2, PageSets
  <2>4. TL!RowWidth(row, cw) <= Width \/ TL!Chars(row) = 1
    <3>1. CASE row = <<>>
      <4>1. TL!Chars(row) = 0
        <5>1. TL!Chars(row) = Len(Flat(row))
          BY <1>3, <2>2, RowsOfWords DEF Words
        <5>2. Flat(row) = <<>>
          BY <3>1, FlatOne
        <5> QED
          BY <5>1, <5>2
      <4>2. Len(row) = 0 /\ Width \in Nat
        BY <3>1, TextsAssumption
      <4>3. TL!RowWidth(row, cw) = cw * (0 + 0 - 1)
        BY <4>1, <4>2 DEF TL!RowWidth
      <4> QED
        BY <2>3, <4>2, <4>3
    <3>2. CASE row \in FitRows(W, cw)
      BY <3>2 DEF FitRows
    <3> QED
      BY <2>2, <3>1, <3>2
  <2>5. ASSUME NEW k \in DOMAIN row,
               Len(source.lines[row[k][1][1]].words[row[k][1][2]])
                   * TL!CharWidth(r.headline, "normal") <= Width
        PROVE  row[k] = source.lines[row[k][1][1]].words[row[k][1][2]]
    <3> DEFINE x == row[k]
    <3>1. x \in W
      BY <2>2
    <3>2. TL!CharWidth(r.headline, "normal") = 2
      BY DEF TL!CharWidth
    <3> HIDE DEF x, row
    <3>3. x \in Seq(Glyphs) /\ x # <<>>
          /\ \E i \in DOMAIN source.lines : \E w \in DOMAIN source.lines[i].words :
                /\ \A j \in 1..Len(x) : x[j][1] = i /\ x[j][2] = w
                /\ Len(source.lines[i].words[w]) * 2 <= Width => x = source.lines[i].words[w]
      BY <3>1 DEF W, SourceWords, WholeWords
    <3>4. 1 \in 1..Len(x)
      BY <3>3
    <3>5. PICK i \in DOMAIN source.lines : \E w \in DOMAIN source.lines[i].words :
              /\ x[1][1] = i /\ x[1][2] = w
              /\ Len(source.lines[i].words[w]) * 2 <= Width => x = source.lines[i].words[w]
      BY <3>3, <3>4, Zenon
    <3>6. Len(source.lines[x[1][1]].words[x[1][2]]) * 2 <= Width
             => x = source.lines[x[1][1]].words[x[1][2]]
      BY <3>5, Zenon
    <3> QED
      BY <2>5, <3>2, <3>6 DEF x
  <2> QED
    BY <2>4, <2>5 DEF r, F
<1>6. TL!RowsFit
  BY <1>5 DEF TL!RowsFit
<1> QED
  BY <1>1, <1>2, <1>6 DEF TL!PagesAreText

\* A print starts with all of the text in the queue.
LEMMA TextInit == TL!Init => TextInv
<1> SUFFICES ASSUME TL!Init PROVE TextInv
  OBVIOUS
<1>1. /\ source \in TL!Sources /\ lines = source.lines /\ printed = <<>>
      /\ font \in Fonts /\ page = [rows |-> <<>>, y |-> 0, font |-> font]
      /\ printState = "idle"
  BY DEF TL!Init, Fonts
<1>2. source.kind \in {"text", "vcard"} /\ source.lines \in Seq(LinesOf(SourceWords))
  BY <1>1, SourceIs DEF SourceWords
<1>3. TextTypes
  BY <1>1, <1>2 DEF TextTypes
<1>4. Words(SourceWords)
  BY WholeWordsCut DEF SourceWords
<1>5. TL!LineChars(source.lines) \in Seq(Glyphs)
  <2>1. "normal" \in Fonts
    BY DEF Fonts
  <2>2. source.lines \in Seq(TextLine)
    BY <1>2, <1>4, <2>1, PageSets
  <2> QED
    BY <2>2, LineCharsFacts
<1>6. TL!RowChars(printed) = <<>> /\ <<>> \o TL!LineChars(source.lines) = TL!LineChars(source.lines)
  BY <1>1, <1>5, RowCharsFacts, Joined
<1>7. TL!IsPrefix(<<>>, <<>> \o TL!LineChars(source.lines))
  <2>1. <<>> \in Seq(Glyphs)
    OBVIOUS
  <2> QED
    BY <1>5, <2>1, PrefixOfJoin
<1>8. TextOrder
  BY <1>1, <1>6, <1>7 DEF TextOrder
<1>9. TL!PageBounded
  BY <1>1, TextsAssumption DEF TL!PageBounded
<1> QED
  BY <1>3, <1>8, <1>9 DEF TextInv

\* A page, drawn or not, keeps the text and comes nearer to its end.
LEMMA ComposeStep ==
    TextInv /\ TL!Compose =>
        /\ TextInv'
        /\ \/ printState' \in {"done", "failed"}
           \/ Len(TL!LineChars(lines')) < Len(TL!LineChars(lines))
           \/ Len(TL!LineChars(lines')) = Len(TL!LineChars(lines)) /\ Len(lines') < Len(lines)
<1> SUFFICES ASSUME TextInv, TL!Compose
             PROVE  /\ TextInv'
                    /\ \/ printState' \in {"done", "failed"}
                       \/ Len(TL!LineChars(lines')) < Len(TL!LineChars(lines))
                       \/ /\ Len(TL!LineChars(lines')) = Len(TL!LineChars(lines))
                          /\ Len(lines') < Len(lines)
  OBVIOUS
<1> DEFINE p == TL!Paginate(lines, font)
           rest == TL!Drained(lines, p)
           drawn == lines # <<>> /\ p.y + Margin <= SurfaceRows
           W == SourceWords
           all == TL!LineChars(source.lines)
<1>1. /\ printState = "idle" \/ (printState = "printing" /\ lines # <<>>)
      /\ lines' = IF source.kind = "vcard" THEN <<>> ELSE rest
      /\ printed' = IF drawn THEN printed \o p.rows ELSE printed
      /\ page' = [rows |-> p.rows, y |-> p.y, font |-> font]
      /\ printState' = IF drawn THEN "printing"
                       ELSE IF printState = "printing" /\ rest = <<>> THEN "done" ELSE "failed"
      /\ source' = source /\ font' = font
  BY DEF TL!Compose
<1>2. Words(W)
  BY WholeWordsCut DEF SourceWords
<1>3. /\ source.kind \in {"text", "vcard"}
      /\ source.lines \in Seq(LinesOf(W)) /\ lines \in Seq(LinesOf(W))
      /\ printed \in Seq(PageRow) /\ font \in Fonts
  BY DEF TextInv, TextTypes
<1> HIDE DEF W
<1>4. /\ p.rows \in Seq(RowsIn(W, font)) /\ p.y \in Nat /\ rest \in Seq(LinesOf(W))
      /\ TL!RowChars(p.rows) \o TL!LineChars(rest) = TL!LineChars(lines)
      /\ p.y > MaxRows => p.rows[Len(p.rows)].row = <<>>
      /\ Len(lines) > 0 =>
            \/ Len(TL!LineChars(rest)) < Len(TL!LineChars(lines))
            \/ /\ Len(TL!LineChars(rest)) = Len(TL!LineChars(lines))
               /\ Len(rest) < Len(lines)
      /\ lines = <<>> => p.rows = <<>> /\ rest = <<>>
  BY <1>2, <1>3, PageIs
<1> HIDE DEF p, rest
<1>5. /\ p.rows \in Seq(PageRow) /\ source.lines \in Seq(TextLine)
      /\ lines \in Seq(TextLine) /\ rest \in Seq(TextLine)
  BY <1>2, <1>3, <1>4, PageSets
<1>6. /\ all \in Seq(Glyphs) /\ TL!LineChars(rest) \in Seq(Glyphs)
      /\ TL!LineChars(lines) \in Seq(Glyphs) /\ TL!LineChars(<<>>) = <<>>
      /\ TL!RowChars(printed) \in Seq(Glyphs) /\ TL!RowChars(p.rows) \in Seq(Glyphs)
      /\ TL!RowChars(<<>>) = <<>>
      /\ TL!RowChars(printed \o p.rows) = TL!RowChars(printed) \o TL!RowChars(p.rows)
      /\ printed \o p.rows \in Seq(PageRow)
  BY <1>3, <1>5, LineCharsFacts, RowCharsFacts, JoinType
<1>7. SourceWords' = W
  BY <1>1 DEF SourceWords, W, WholeWords
<1>8. TextTypes'
  <2>1. page'.rows = p.rows /\ page'.y = p.y /\ page'.font = font
    BY <1>1
  <2>2. lines' \in Seq(LinesOf(W))
    <3> DEFINE X == LinesOf(W)
    <3>1. rest \in Seq(X) /\ <<>> \in Seq(X)
      BY <1>4
    <3> HIDE DEF X
    <3> QED
      BY <1>1, <3>1 DEF X
  <2>3. printed' \in Seq(PageRow)
    BY <1>1, <1>3, <1>6, Zenon
  <2>4. printState' \in {"idle", "printing", "done", "failed"}
    BY <1>1
  <2>5. /\ source'.kind \in {"text", "vcard"} /\ source'.lines \in Seq(LinesOf(W))
        /\ font' \in Fonts /\ page'.font \in Fonts /\ page'.y \in Nat
        /\ page'.rows \in Seq(RowsIn(W, page'.font))
    BY <1>1, <1>3, <1>4, <2>1, Zenon
  <2> QED
    BY <1>7, <2>2, <2>3, <2>4, <2>5 DEF TextTypes
<1>9. TL!PageBounded'
  BY <1>1, <1>4 DEF TL!PageBounded
<1>10. source.kind = "vcard" =>
          printState = "idle" /\ printed = <<>> /\ TL!LineChars(lines) = all
  BY <1>1 DEF TextInv, TextOrder
<1>11. source.kind = "text" => TL!RowChars(printed) \o TL!LineChars(lines) = all
  BY <1>1 DEF TextInv, TextOrder
<1>12. source.kind = "vcard" => TL!IsPrefix(TL!RowChars(printed'), all)
  <2> SUFFICES ASSUME source.kind = "vcard" PROVE TL!IsPrefix(TL!RowChars(printed'), all)
    OBVIOUS
  <2>1. TL!IsPrefix(TL!RowChars(p.rows), TL!RowChars(p.rows) \o TL!LineChars(rest))
    BY <1>6, PrefixOfJoin
  <2>2. TL!IsPrefix(<<>>, <<>> \o all)
    <3>1. <<>> \in Seq(Glyphs)
      OBVIOUS
    <3> QED
      BY <1>6, <3>1, PrefixOfJoin
  <2>3. <<>> \o all = all /\ <<>> \o p.rows = p.rows
    BY <1>5, <1>6, Joined
  <2> HIDE DEF all, drawn
  <2> QED
    BY <1>1, <1>4, <1>6, <1>10, <2>1, <2>2, <2>3, Zenon
<1>13. source.kind = "text" /\ drawn =>
          TL!RowChars(printed') \o TL!LineChars(lines') = all
  <2> SUFFICES ASSUME source.kind = "text", drawn
               PROVE  TL!RowChars(printed') \o TL!LineChars(lines') = all
    OBVIOUS
  <2>1. lines' = rest /\ printed' = printed \o p.rows
    BY <1>1
  <2> DEFINE a == TL!RowChars(printed)
             b == TL!RowChars(p.rows)
             c == TL!LineChars(rest)
  <2>2. TL!RowChars(printed') = a \o b /\ b \o c = TL!LineChars(lines)
        /\ a \o TL!LineChars(lines) = all
    BY <1>4, <1>6, <1>11, <2>1
  <2>3. a \in Seq(Glyphs) /\ b \in Seq(Glyphs) /\ c \in Seq(Glyphs)
    BY <1>6
  <2> HIDE DEF a, b, c, all, drawn
  <2>4. (a \o b) \o c = a \o (b \o c)
    <3>1. Associates(a, b, c)
      BY <2>3, JoinThree
    <3> QED
      BY <3>1 DEF Associates
  <2>5. TL!LineChars(lines') = c
    BY <2>1 DEF c
  <2> QED
    BY <2>2, <2>4, <2>5, Zenon
<1>14. source.kind = "text" /\ ~drawn /\ ~TL!Lost' =>
          TL!RowChars(printed') \o TL!LineChars(lines') = all
  <2> SUFFICES ASSUME source.kind = "text", ~drawn, ~TL!Lost'
               PROVE  TL!RowChars(printed') \o TL!LineChars(lines') = all
    OBVIOUS
  <2>1. page'.y = p.y
    BY <1>1
  <2>2. ~(p.y + Margin > SurfaceRows)
    BY <2>1 DEF TL!Lost
  <2>3. lines = <<>>
    BY <1>4, <2>2, TextsAssumption
  <2>4. printed' = printed /\ lines' = lines
    BY <1>1, <1>4, <2>3
  <2> QED
    BY <1>11, <2>4
<1>15. TextOrder'
  <2>1. printState' # "idle" /\ (printState' = "printing" => drawn)
    BY <1>1
  <2>2. source.kind = "vcard" => lines' = <<>>
    BY <1>1
  <2>3. source' = source
    BY <1>1
  <2> HIDE DEF drawn
  <2>4. source.kind = "text" /\ (~TL!Lost' \/ printState' \in {"idle", "printing"}) =>
            TL!RowChars(printed') \o TL!LineChars(lines') = all
    BY <1>13, <1>14, <2>1
  <2> QED
    BY <1>12, <2>1, <2>2, <2>3, <2>4 DEF TextOrder
<1>16. \/ printState' \in {"done", "failed"}
       \/ Len(TL!LineChars(lines')) < Len(TL!LineChars(lines))
       \/ Len(TL!LineChars(lines')) = Len(TL!LineChars(lines)) /\ Len(lines') < Len(lines)
  <2>1. CASE ~drawn
    BY <1>1, <2>1
  <2>2. CASE drawn /\ source.kind = "text"
    <3>1. lines' = rest /\ Len(lines) > 0
      BY <1>1, <1>5, <2>2
    <3> QED
      BY <1>4, <3>1, Zenon
  <2>3. CASE drawn /\ source.kind = "vcard"
    <3>1. lines' = <<>> /\ lines # <<>>
      BY <1>1, <2>3
    <3>2. Len(lines) > 0 /\ Len(lines') = 0
      BY <1>5, <3>1
    <3>3. Len(TL!LineChars(lines')) = 0
      BY <1>6, <3>1
    <3>4. Len(TL!LineChars(lines)) \in Nat
      BY <1>6
    <3> QED
      BY <3>2, <3>3, <3>4
  <2> QED
    BY <1>3, <2>1, <2>2, <2>3
<1> QED
  BY <1>8, <1>9, <1>15, <1>16 DEF TextInv

\* Every step of a print keeps the text and comes nearer to its end.
LEMMA TextStep ==
    /\ TextInv /\ (TL!Next \/ UNCHANGED tl) => TextInv'
    /\ TextInv /\ TL!Next /\ ~UNCHANGED tl =>
          \/ font' # font \/ printState' \in {"done", "failed"}
          \/ Len(TL!LineChars(lines')) < Len(TL!LineChars(lines))
          \/ Len(TL!LineChars(lines')) = Len(TL!LineChars(lines)) /\ Len(lines') < Len(lines)
<1>1. TextInv /\ UNCHANGED tl => TextInv'
  BY DEF tl, TextInv, TextTypes, TextOrder, SourceWords, WholeWords, TL!PageBounded, TL!Lost
<1>2. TextInv /\ TL!Finish => TextInv' /\ printState' = "done"
  <2> SUFFICES ASSUME TextInv, TL!Finish PROVE TextInv' /\ printState' = "done"
    OBVIOUS
  <2>1. /\ printState = "printing" /\ printState' = "done"
        /\ source' = source /\ lines' = lines /\ printed' = printed /\ font' = font
        /\ page' = page
    BY DEF TL!Finish
  <2>2. TextTypes' /\ TL!PageBounded'
    BY <2>1 DEF TextInv, TextTypes, SourceWords, WholeWords, TL!PageBounded
  <2>3. TextOrder'
    BY <2>1 DEF TextInv, TextOrder
  <2> QED
    BY <2>1, <2>2, <2>3 DEF TextInv
<1>3. TextInv /\ TL!SetFont => TextInv' /\ font' # font
  <2> SUFFICES ASSUME TextInv, TL!SetFont PROVE TextInv' /\ font' # font
    OBVIOUS
  <2>1. /\ font' \in Fonts \ {font} /\ printState' = printState
        /\ source' = source /\ lines' = lines /\ printed' = printed /\ page' = page
    BY DEF TL!SetFont, Fonts
  <2>2. TextTypes' /\ TL!PageBounded'
    BY <2>1 DEF TextInv, TextTypes, SourceWords, WholeWords, TL!PageBounded
  <2>3. TextOrder'
    BY <2>1 DEF TextInv, TextOrder, TL!Lost
  <2> QED
    BY <2>1, <2>2, <2>3 DEF TextInv
<1>4. TL!Over => UNCHANGED tl
  BY DEF TL!Over, TL!vars, tl
<1> QED
  BY <1>1, <1>2, <1>3, <1>4, ComposeStep DEF TL!Next

\* A text reaches the paper whole and in order, a character once, in rows and
\* pages that fit, over wrapped lines, cut words, split lines and changes of the
\* font; and the paper shows the raster that was sent, compressed or not, fed
\* row by row and refilled, for every text, card and raster.
THEOREM PrintsTheSource == Spec => []PaperIsPrint
<1>1. Init => CatInv /\ TextInv
  BY CatInit, TextInit DEF Init
<1>2. CatInv /\ TextInv /\ [Next]_vars => (CatInv /\ TextInv)'
  BY CatStep, TextStep, StepOfEach
<1>3. CatInv /\ TextInv => PaperIsPrint
  BY CatShows, TextShows DEF PaperIsPrint
<1> QED
  BY <1>1, <1>2, <1>3, PTL DEF Spec

\* The pages of a text come to an end: every page takes characters, or at least
\* a blank line, off the queue, however wide its words and high its lines are.
THEOREM PagesGoOn == Spec => PagesProgress
<1> DEFINE A == \/ font' # font \/ printState' \in {"done", "failed"}
                \/ Len(TL!LineChars(lines')) < Len(TL!LineChars(lines))
                \/ /\ Len(TL!LineChars(lines')) = Len(TL!LineChars(lines))
                   /\ Len(lines') < Len(lines)
<1>1. Init => TextInv
  BY TextInit DEF Init
<1>2. TextInv /\ [Next]_vars => TextInv' /\ [A]_TL!vars
  <2> SUFFICES ASSUME TextInv, [Next]_vars PROVE TextInv' /\ [A]_TL!vars
    OBVIOUS
  <2>1. TextInv'
    BY TextStep, StepOfEach
  <2>2. UNCHANGED tl => UNCHANGED TL!vars
    BY DEF tl, TL!vars
  <2>3. TL!Next /\ ~UNCHANGED tl => A
    BY TextStep
  <2> HIDE DEF A
  <2> QED
    BY <2>1, <2>2, <2>3, StepOfEach
<1> QED
  BY <1>1, <1>2, PTL DEF Spec, PagesProgress, TL!PagesProgress
=============================================================================
