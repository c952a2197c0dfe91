-------------------------- MODULE HubMailboxProofs --------------------------
(***************************************************************************)
(* Hub implements Mailbox, for every value of the constants.  First, what  *)
(* picking the frames of others out of a sequence does to appending,       *)
(* concatenating and losing frames; then what waits and in which order;    *)
(* then one lemma per goroutine: each of its steps is a step of Mailbox or *)
(* none.                                                                   *)
(***************************************************************************)
EXTENDS HubMailbox, HubAnswers, SequencesExt

----------------------------------------------------------------------------
(* What frames give to a connection. *)

Payload == Message \cup {NoMsg}

\* v holds the messages of the frames of s at the n places that e lists.
Shows(v, n, e, s) ==
    /\ v \in Seq(Payload) /\ Len(v) = n
    /\ \A i \in 1 .. n : v[i] = s[e[i]].msg

\* The messages given are those at the listed places.
LEMMA GivenByList ==
    ASSUME NEW k, NEW s \in Seq(Frame), NEW n \in Nat, NEW e \in [1 .. n -> Nat],
           Lists(e, Places(k, s))
    PROVE  Shows(Given(k)[s], n, e, s)
<1>1. Len(s) \in Nat /\ DOMAIN s = 1 .. Len(s)
  BY LenProperties
<1>2. Places(k, s) \subseteq Nat
  BY <1>1 DEF Places
<1>3. /\ Cardinality(Places(k, s)) = n
      /\ \A i \in 1 .. n : Nth(Places(k, s), i) = e[i]
  BY <1>2, ListLength, NthOfList
<1>4. Given(k)[s] = [i \in 1 .. n |-> s[e[i]].msg]
  BY <1>3 DEF Given
<1>5. \A i \in 1 .. n : s[e[i]].msg \in Payload
  <2>1. ASSUME NEW i \in 1 .. n PROVE s[e[i]] \in Frame
    <3>1. e[i] \in 1 .. Len(s)
      BY <1>1 DEF Lists, Places
    <3>. QED
      BY <3>1, ElementOfSeq
  <2>. QED
    BY <2>1 DEF Frame, Payload
<1>. DEFINE g == [i \in 1 .. n |-> s[e[i]].msg]
<1>6. g \in [1 .. n -> Payload]
  BY <1>5
<1>. HIDE DEF g
<1>7. g \in Seq(Payload) /\ Len(g) = n
  BY <1>6
<1>8. \A i \in 1 .. n : g[i] = s[e[i]].msg
  BY DEF g
<1>9. Given(k)[s] = g
  BY <1>4 DEF g
<1>. QED
  BY <1>7, <1>8, <1>9 DEF Shows

\* Every sequence of frames has such a list.
LEMMA PlacesListed ==
    ASSUME NEW k, NEW s \in Seq(Frame)
    PROVE  \E n \in Nat : \E e \in [1 .. n -> Nat] : Lists(e, Places(k, s))
<1>1. Len(s) \in Nat /\ DOMAIN s = 1 .. Len(s)
  BY LenProperties
<1>2. Places(k, s) \subseteq 1 .. Len(s)
  BY <1>1 DEF Places
<1>. QED
  BY <1>1, <1>2, ListExists

\* What is given is a sequence of messages.
LEMMA GivenType ==
    ASSUME NEW k, NEW s \in Seq(Frame)
    PROVE  Given(k)[s] \in Seq(Payload)
<1>1. PICK n \in Nat : \E e \in [1 .. n -> Nat] : Lists(e, Places(k, s))
  BY PlacesListed
<1>2. PICK e \in [1 .. n -> Nat] : Lists(e, Places(k, s))
  BY <1>1
<1>. QED
  BY <1>2, GivenByList DEF Shows

\* Frames after frames give what the ones and then the others give.
LEMMA GivenConcat ==
    ASSUME NEW k, NEW s \in Seq(Frame), NEW t \in Seq(Frame)
    PROVE  Given(k)[s \o t] = Given(k)[s] \o Given(k)[t]
<1>. DEFINE u == s \o t
<1>1. /\ Len(s) \in Nat /\ DOMAIN s = 1 .. Len(s)
      /\ Len(t) \in Nat /\ DOMAIN t = 1 .. Len(t)
      /\ u \in Seq(Frame) /\ DOMAIN u = 1 .. Len(s) + Len(t)
      /\ \A i \in 1 .. Len(s) + Len(t) : u[i] = IF i <= Len(s) THEN s[i] ELSE t[i - Len(s)]
  BY LenProperties, ConcatProperties
<1>. HIDE DEF u
<1>2. PICK n \in Nat : \E e \in [1 .. n -> Nat] : Lists(e, Places(k, s))
  BY PlacesListed
<1>3. PICK e \in [1 .. n -> Nat] : Lists(e, Places(k, s))
  BY <1>2
<1>4. PICK m \in Nat : \E g \in [1 .. m -> Nat] : Lists(g, Places(k, t))
  BY PlacesListed
<1>5. PICK g \in [1 .. m -> Nat] : Lists(g, Places(k, t))
  BY <1>4
<1>. DEFINE h == [i \in 1 .. n + m |-> IF i <= n THEN e[i] ELSE Len(s) + g[i - n]]
<1>6. ASSUME NEW i \in 1 .. n + m
      PROVE  \/ i \in 1 .. n /\ h[i] = e[i]
             \/ i > n /\ i - n \in 1 .. m /\ h[i] = Len(s) + g[i - n]
  OBVIOUS
<1>7. h \in [1 .. n + m -> Nat]
  BY <1>1
<1>8. /\ DOMAIN h = 1 .. n + m /\ n + m \in Nat /\ 1 .. n \subseteq 1 .. n + m
      /\ \A i \in 1 .. n : h[i] = e[i] /\ i \in 1 .. n + m /\ i <= n
  OBVIOUS
<1>9. \A i \in 1 .. m : i + n \in 1 .. n + m /\ h[i + n] = Len(s) + g[i]
  OBVIOUS
<1>. HIDE DEF h
<1>10. ASSUME NEW i \in 1 .. n
       PROVE  /\ e[i] \in 1 .. Len(s) /\ FromPeer(k, s[e[i]]) /\ u[e[i]] = s[e[i]]
              /\ e[i] \in 1 .. Len(s) + Len(t)
  <2>1. e[i] \in 1 .. Len(s) /\ FromPeer(k, s[e[i]])
    BY <1>1, <1>3 DEF Lists, Places
  <2>2. e[i] <= Len(s) /\ e[i] \in 1 .. Len(s) + Len(t)
    BY <1>1, <2>1
  <2>. QED
    BY <1>1, <2>1, <2>2
<1>11. ASSUME NEW i \in 1 .. m
       PROVE  /\ g[i] \in 1 .. Len(t) /\ FromPeer(k, t[g[i]]) /\ u[Len(s) + g[i]] = t[g[i]]
              /\ Len(s) + g[i] \in 1 .. Len(s) + Len(t) /\ Len(s) + g[i] > Len(s)
  <2>1. g[i] \in 1 .. Len(t) /\ FromPeer(k, t[g[i]])
    BY <1>1, <1>5 DEF Lists, Places
  <2>2. /\ Len(s) + g[i] \in 1 .. Len(s) + Len(t) /\ Len(s) + g[i] > Len(s)
        /\ ~(Len(s) + g[i] <= Len(s)) /\ (Len(s) + g[i]) - Len(s) = g[i]
    BY <1>1, <2>1
  <2>. QED
    BY <1>1, <2>1, <2>2
<1>12. Lists(h, Places(k, u))
  <2>1. \A i \in DOMAIN h : h[i] \in Places(k, u)
    BY <1>1, <1>6, <1>8, <1>10, <1>11 DEF Places
  <2>2. ASSUME NEW i \in 1 .. n + m, NEW j \in 1 .. n + m, i < j
        PROVE  h[i] < h[j]
    <3>1. CASE j <= n
      <4>1. i \in 1 .. n /\ j \in 1 .. n
        BY <2>2, <3>1
      <4>. QED
        BY <1>3, <1>8, <2>2, <4>1 DEF Lists
    <3>2. CASE i <= n /\ ~(j <= n)
      <4>1. i \in 1 .. n /\ j - n \in 1 .. m /\ h[j] = Len(s) + g[j - n]
        BY <1>6, <3>2
      <4>2. h[i] = e[i] /\ e[i] \in 1 .. Len(s)
        BY <1>8, <1>10, <4>1
      <4>3. h[j] > Len(s) /\ h[j] \in 1 .. Len(s) + Len(t)
        BY <1>11, <4>1
      <4>. QED
        BY <1>1, <4>2, <4>3
    <3>3. CASE ~(i <= n)
      <4>1. i - n \in 1 .. m /\ h[i] = Len(s) + g[i - n]
            /\ j - n \in 1 .. m /\ h[j] = Len(s) + g[j - n] /\ i - n < j - n
        BY <1>6, <2>2, <3>3
      <4>2. g[i - n] < g[j - n]
        BY <1>5, <4>1 DEF Lists
      <4>3. g[i - n] \in Nat /\ g[j - n] \in Nat /\ Len(s) \in Nat
        BY <1>1, <1>11, <4>1
      <4>. QED
        BY <4>1, <4>2, <4>3
    <3>. QED
      BY <3>1, <3>2, <3>3
  <2>3. ASSUME NEW x \in Places(k, u) PROVE \E i \in DOMAIN h : h[i] = x
    <3>1. x \in 1 .. Len(s) + Len(t) /\ FromPeer(k, u[x])
      BY <1>1 DEF Places
    <3>2. CASE x <= Len(s)
      <4>1. x \in Places(k, s)
        BY <1>1, <3>1, <3>2 DEF Places
      <4>2. PICK i \in 1 .. n : e[i] = x
        BY <1>3, <4>1 DEF Lists
      <4>. QED
        BY <1>8, <4>2
    <3>3. CASE ~(x <= Len(s))
      <4>0. x - Len(s) \in 1 .. Len(t) /\ u[x] = t[x - Len(s)] /\ Len(s) + (x - Len(s)) = x
        BY <1>1, <3>1, <3>3
      <4>1. x - Len(s) \in Places(k, t)
        BY <1>1, <3>1, <4>0 DEF Places
      <4>2. PICK i \in 1 .. m : g[i] = x - Len(s)
        BY <1>5, <4>1 DEF Lists
      <4>3. i + n \in DOMAIN h /\ h[i + n] = Len(s) + g[i]
        BY <1>8, <1>9
      <4>. QED
        BY <4>0, <4>2, <4>3
    <3>. QED
      BY <3>2, <3>3
  <2>. QED
    BY <1>8, <2>1, <2>2, <2>3 DEF Lists
<1>13. /\ Given(k)[u] \in Seq(Payload) /\ Len(Given(k)[u]) = n + m
       /\ \A i \in 1 .. n + m : Given(k)[u][i] = u[h[i]].msg
  <2>1. PICK l \in Nat : l = n + m
    BY <1>8
  <2>2. PICK y \in [1 .. l -> Nat] : y = h
    BY <1>7, <2>1
  <2>3. PICK x \in Seq(Frame) : x = u
    BY <1>1
  <2>4. Lists(y, Places(k, x))
    BY <1>12, <2>2, <2>3
  <2>5. Shows(Given(k)[x], l, y, x)
    BY <2>4, GivenByList
  <2>6. Shows(Given(k)[u], n + m, h, u)
    BY <2>1, <2>2, <2>3, <2>5
  <2>. HIDE DEF u, h
  <2>. QED
    BY <2>6 DEF Shows
<1>14. /\ Given(k)[s] \in Seq(Payload) /\ Len(Given(k)[s]) = n
       /\ \A i \in 1 .. n : Given(k)[s][i] = s[e[i]].msg
  <2>1. Shows(Given(k)[s], n, e, s)
    BY <1>3, GivenByList
  <2>. QED
    BY <2>1 DEF Shows
<1>15. /\ Given(k)[t] \in Seq(Payload) /\ Len(Given(k)[t]) = m
       /\ \A i \in 1 .. m : Given(k)[t][i] = t[g[i]].msg
  <2>1. Shows(Given(k)[t], m, g, t)
    BY <1>5, GivenByList
  <2>. QED
    BY <2>1 DEF Shows
<1>. DEFINE a == Given(k)[s]
            b == Given(k)[t]
            v == a \o b
<1>16. /\ v \in Seq(Payload) /\ Len(v) = n + m
       /\ \A i \in 1 .. n + m : v[i] = IF i <= n THEN Given(k)[s][i] ELSE Given(k)[t][i - n]
  <2>1. a \in Seq(Payload) /\ b \in Seq(Payload) /\ Len(a) = n /\ Len(b) = m
    BY <1>14, <1>15
  <2>. HIDE DEF a, b
  <2>2. /\ v \in Seq(Payload) /\ Len(v) = n + m
        /\ \A i \in 1 .. n + m : v[i] = IF i <= n THEN a[i] ELSE b[i - n]
    BY <2>1, ConcatProperties
  <2>. QED
    BY <2>2 DEF a, b
<1>. HIDE DEF v
<1>17. ASSUME NEW i \in 1 .. n + m PROVE Given(k)[u][i] = v[i]
  <2>1. CASE i \in 1 .. n
    <3>1. Given(k)[u][i] = u[e[i]].msg
      BY <1>8, <1>13, <2>1
    <3>2. v[i] = s[e[i]].msg
      BY <1>8, <1>14, <1>16, <2>1
    <3>. QED
      BY <1>10, <2>1, <3>1, <3>2
  <2>2. CASE i > n /\ i - n \in 1 .. m
    <3>1. h[i] = Len(s) + g[i - n] /\ ~(i <= n)
      BY <1>6, <2>2
    <3>2. Given(k)[u][i] = u[Len(s) + g[i - n]].msg
      BY <1>13, <3>1
    <3>3. v[i] = t[g[i - n]].msg
      BY <1>15, <1>16, <2>2, <3>1
    <3>. QED
      BY <1>11, <2>2, <3>2, <3>3
  <2>. QED
    BY <1>6, <2>1, <2>2
<1>18. Given(k)[u] = v
  BY <1>8, <1>13, <1>16, <1>17, SeqEqual
<1>. QED
  BY <1>18 DEF u, v

\* Frames without a message of another give nothing.
LEMMA GivenNothing ==
    ASSUME NEW k, NEW s \in Seq(Frame), Places(k, s) = {}
    PROVE  Given(k)[s] = <<>>
<1>. DEFINE e == [i \in 1 .. 0 |-> 0]
<1>1. e \in [1 .. 0 -> Nat] /\ DOMAIN e = {} /\ 1 .. 0 = {} /\ 0 \in Nat
  OBVIOUS
<1>. HIDE DEF e
<1>2. Lists(e, Places(k, s))
  BY <1>1 DEF Lists
<1>3. Given(k)[s] \in Seq(Payload) /\ Len(Given(k)[s]) = 0
  BY <1>1, <1>2, GivenByList DEF Shows
<1>. QED
  BY <1>3, EmptySeq

\* One frame gives its message, if it is one of another.
LEMMA GivenOne ==
    ASSUME NEW k, NEW f \in Frame
    PROVE  Given(k)[<<f>>] = IF FromPeer(k, f) THEN <<f.msg>> ELSE <<>>
<1>. DEFINE s == <<f>>
<1>1. s \in Seq(Frame) /\ DOMAIN s = {1} /\ s[1] = f
  OBVIOUS
<1>. HIDE DEF s
<1>2. CASE FromPeer(k, f)
  <2>. DEFINE e == [i \in 1 .. 1 |-> 1]
  <2>1. e \in [1 .. 1 -> Nat] /\ DOMAIN e = 1 .. 1 /\ \A i \in 1 .. 1 : e[i] = 1
    OBVIOUS
  <2>. HIDE DEF e
  <2>2. Places(k, s) = {1}
    BY <1>1, <1>2 DEF Places
  <2>3. Lists(e, Places(k, s))
    BY <2>1, <2>2 DEF Lists
  <2>4. 1 \in Nat
    OBVIOUS
  <2>5. /\ Given(k)[s] \in Seq(Payload) /\ Len(Given(k)[s]) = 1
        /\ \A i \in 1 .. 1 : Given(k)[s][i] = s[e[i]].msg
    <3>1. PICK n \in Nat : n = 1
      BY <2>4
    <3>2. e \in [1 .. n -> Nat]
      BY <2>1, <3>1
    <3>3. /\ Given(k)[s] \in Seq(Payload) /\ Len(Given(k)[s]) = n
          /\ \A i \in 1 .. n : Given(k)[s][i] = s[e[i]].msg
      <4>1. Shows(Given(k)[s], n, e, s)
        BY <1>1, <2>3, <3>2, GivenByList
      <4>. HIDE DEF e
      <4>. QED
        BY <4>1 DEF Shows
    <3>. QED
      BY <3>1, <3>3
  <2>6. Given(k)[s][1] = f.msg /\ f.msg \in Payload
    BY <1>1, <2>1, <2>5 DEF Frame, Payload
  <2>7. <<f.msg>> \in Seq(Payload) /\ Len(<<f.msg>>) = 1 /\ <<f.msg>>[1] = f.msg
    BY <2>6
  <2>8. Given(k)[s] = <<f.msg>>
    BY <2>5, <2>6, <2>7, SeqEqual
  <2>. QED
    BY <1>2, <2>8 DEF s
<1>3. CASE ~FromPeer(k, f)
  <2>1. Places(k, s) = {}
    BY <1>1, <1>3 DEF Places
  <2>2. Given(k)[s] = <<>>
    BY <1>1, <2>1, GivenNothing
  <2>. QED
    BY <1>3, <2>2 DEF s
<1>. QED
  BY <1>2, <1>3

\* One frame more gives its message more, if it is one of another.
LEMMA GivenAppend ==
    ASSUME NEW k, NEW s \in Seq(Frame), NEW f \in Frame
    PROVE  Given(k)[Append(s, f)] = IF FromPeer(k, f) THEN Append(Given(k)[s], f.msg)
                                                      ELSE Given(k)[s]
<1>1. Append(s, f) = s \o <<f>> /\ <<f>> \in Seq(Frame)
  BY AppendIsConcat
<1>2. Given(k)[Append(s, f)] = Given(k)[s] \o Given(k)[<<f>>]
  BY <1>1, GivenConcat
<1>3. Given(k)[s] \in Seq(Payload) /\ f.msg \in Payload
  BY GivenType DEF Frame, Payload
<1>4. Given(k)[<<f>>] = IF FromPeer(k, f) THEN <<f.msg>> ELSE <<>>
  BY GivenOne
<1>5. Given(k)[s] \o <<f.msg>> = Append(Given(k)[s], f.msg)
  BY <1>3, AppendIsConcat
<1>6. Given(k)[s] \o <<>> = Given(k)[s]
  BY <1>3, ConcatEmptySeq
<1>. QED
  BY <1>2, <1>4, <1>5, <1>6

\* r is q without its i-th element.
Without(q, i, r) == i \in DOMAIN q /\ RemoveAt(q, i) = r

\* Removing what stands between two sequences leaves the two.
LEMMA RemoveBetween ==
    ASSUME NEW S, NEW x \in Seq(S), NEW z \in Seq(S), NEW m \in S
    PROVE  Without(x \o (<<m>> \o z), Len(x) + 1, x \o z)
<1>. DEFINE y == <<m>> \o z
            q == x \o y
            l == SubSeq(q, 1, Len(x) + 1 - 1)
            r == SubSeq(q, Len(x) + 1 + 1, Len(q))
            t == l \o r
            v == x \o z
<1>0. Len(x) \in Nat /\ Len(z) \in Nat /\ <<m>> \in Seq(S) /\ Len(<<m>>) = 1
  BY LenProperties
<1>1. /\ y \in Seq(S) /\ Len(y) = Len(z) + 1
      /\ \A i \in 1 .. Len(z) : y[i + 1] = z[i]
  <2>1. /\ y \in Seq(S) /\ Len(y) = Len(<<m>>) + Len(z)
        /\ \A i \in 1 .. Len(<<m>>) + Len(z) :
             y[i] = IF i <= Len(<<m>>) THEN <<m>>[i] ELSE z[i - Len(<<m>>)]
    BY <1>0, ConcatProperties
  <2>. HIDE DEF y
  <2>2. ASSUME NEW i \in 1 .. Len(z) PROVE y[i + 1] = z[i]
    <3>1. i + 1 \in 1 .. 1 + Len(z) /\ ~(i + 1 <= 1) /\ (i + 1) - 1 = i
      BY <1>0
    <3>. QED
      BY <1>0, <2>1, <3>1
  <2>. QED
    BY <1>0, <2>1, <2>2
<1>. HIDE DEF y
<1>2. /\ q \in Seq(S) /\ Len(q) = Len(x) + Len(z) + 1
      /\ \A i \in 1 .. Len(x) : q[i] = x[i]
      /\ \A i \in 1 .. Len(z) : q[Len(x) + 1 + i] = z[i]
  <2>1. /\ q \in Seq(S) /\ Len(q) = Len(x) + Len(y)
        /\ \A i \in 1 .. Len(x) + Len(y) :
             q[i] = IF i <= Len(x) THEN x[i] ELSE y[i - Len(x)]
    BY <1>1, ConcatProperties
  <2>. HIDE DEF q
  <2>2. ASSUME NEW i \in 1 .. Len(z) PROVE q[Len(x) + 1 + i] = z[i]
    <3>1. /\ Len(x) + 1 + i \in 1 .. Len(x) + Len(y) /\ ~(Len(x) + 1 + i <= Len(x))
          /\ (Len(x) + 1 + i) - Len(x) = i + 1
      BY <1>0, <1>1
    <3>. QED
      BY <1>1, <2>1, <3>1
  <2>3. \A i \in 1 .. Len(x) : q[i] = x[i]
    BY <1>0, <1>1, <2>1
  <2>. QED
    BY <1>0, <1>1, <2>1, <2>2, <2>3
<1>3. Len(x) + 1 \in DOMAIN q
  <2>1. DOMAIN q = 1 .. Len(q)
    BY <1>2, LenProperties
  <2>. QED
    BY <1>0, <1>2, <2>1
<1>. HIDE DEF q
<1>4. \A i \in 1 .. Len(q) : q[i] \in S
  BY <1>2, ElementOfSeq
<1>5. l \in Seq(S) /\ Len(l) = Len(x) /\ \A i \in 1 .. Len(x) : l[i] = x[i]
  <2>1. l = SubSeq(q, 1, Len(x)) /\ 1 \in Int /\ Len(x) \in Int
    BY <1>0
  <2>2. \A i \in 1 .. Len(x) : q[i] \in S
    BY <1>0, <1>2, <1>4
  <2>3. /\ SubSeq(q, 1, Len(x)) \in Seq(S)
        /\ Len(SubSeq(q, 1, Len(x))) = IF 1 <= Len(x) THEN Len(x) - 1 + 1 ELSE 0
        /\ \A i \in 1 .. Len(x) - 1 + 1 : SubSeq(q, 1, Len(x))[i] = q[1 + i - 1]
    BY <2>1, <2>2, SubSeqProperties
  <2>4. \A i \in 1 .. Len(x) : i \in 1 .. Len(x) - 1 + 1 /\ 1 + i - 1 = i
    BY <1>0
  <2>. HIDE DEF l
  <2>. QED
    BY <1>0, <1>2, <2>1, <2>3, <2>4
<1>6. r \in Seq(S) /\ Len(r) = Len(z) /\ \A i \in 1 .. Len(z) : r[i] = z[i]
  <2>. DEFINE a == Len(x) + 1 + 1
  <2>1. a \in Int /\ Len(q) \in Int /\ Len(q) - a + 1 = Len(z)
    BY <1>0, <1>2
  <2>2. \A i \in a .. Len(q) : q[i] \in S
    BY <1>0, <1>4
  <2>3. \A i \in 1 .. Len(z) : a + i - 1 = Len(x) + 1 + i
    BY <1>0
  <2>4. a <= Len(q) <=> Len(z) # 0
    BY <1>0, <1>2
  <2>. HIDE DEF a
  <2>5. /\ SubSeq(q, a, Len(q)) \in Seq(S)
        /\ Len(SubSeq(q, a, Len(q))) = IF a <= Len(q) THEN Len(q) - a + 1 ELSE 0
        /\ \A i \in 1 .. Len(q) - a + 1 : SubSeq(q, a, Len(q))[i] = q[a + i - 1]
    BY <2>1, <2>2, SubSeqProperties
  <2>6. r = SubSeq(q, a, Len(q))
    BY DEF a
  <2>. HIDE DEF r
  <2>. QED
    BY <1>0, <1>2, <2>1, <2>3, <2>4, <2>5, <2>6
<1>. HIDE DEF l, r
<1>7. /\ t \in Seq(S) /\ Len(t) = Len(x) + Len(z)
      /\ \A i \in 1 .. Len(x) + Len(z) : t[i] = IF i <= Len(x) THEN l[i] ELSE r[i - Len(x)]
  <2>1. l \in Seq(S) /\ r \in Seq(S)
    BY <1>5, <1>6
  <2>2. /\ t \in Seq(S) /\ Len(t) = Len(l) + Len(r)
        /\ \A i \in 1 .. Len(l) + Len(r) : t[i] = IF i <= Len(l) THEN l[i] ELSE r[i - Len(l)]
    BY <2>1, ConcatProperties
  <2>. QED
    BY <1>5, <1>6, <2>2
<1>8. /\ v \in Seq(S) /\ Len(v) = Len(x) + Len(z)
      /\ \A i \in 1 .. Len(x) + Len(z) : v[i] = IF i <= Len(x) THEN x[i] ELSE z[i - Len(x)]
  BY ConcatProperties
<1>. HIDE DEF t, v
<1>9. ASSUME NEW i \in 1 .. Len(x) + Len(z) PROVE t[i] = v[i]
  <2>1. CASE i <= Len(x)
    <3>1. i \in 1 .. Len(x)
      BY <1>0, <2>1
    <3>. QED
      BY <1>5, <1>7, <1>8, <2>1, <3>1
  <2>2. CASE ~(i <= Len(x))
    <3>1. i - Len(x) \in 1 .. Len(z)
      BY <1>0, <2>2
    <3>. QED
      BY <1>6, <1>7, <1>8, <2>2, <3>1
  <2>. QED
    BY <2>1, <2>2
<1>10. t = v
  <2>1. \A i \in 1 .. Len(t) : t[i] = v[i]
    BY <1>7, <1>9
  <2>. QED
    BY <1>7, <1>8, <2>1, SeqEqual
<1>11. RemoveAt(q, Len(x) + 1) = t
  <2>1. \A s, i : RemoveAt(s, i) = SubSeq(s, 1, i - 1) \o SubSeq(s, i + 1, Len(s))
    BY DEF RemoveAt
  <2>2. PICK j : j = Len(x) + 1
    OBVIOUS
  <2>3. l = SubSeq(q, 1, j - 1) /\ r = SubSeq(q, j + 1, Len(q))
    BY <2>2 DEF l, r
  <2>4. RemoveAt(q, j) = l \o r
    BY <2>1, <2>3
  <2>. QED
    BY <2>2, <2>4 DEF t
<1>. QED
  BY <1>3, <1>10, <1>11 DEF Without, v, q, y

\* A lost frame takes at most one message with it.
LEMMA GivenTail ==
    ASSUME NEW k, NEW w \in Seq(Frame), NEW b \in Seq(Frame), b # <<>>
    PROVE  \/ Given(k)[w \o Tail(b)] = Given(k)[w \o b]
           \/ \E i \in DOMAIN Given(k)[w \o b] :
                Given(k)[w \o Tail(b)] = RemoveAt(Given(k)[w \o b], i)
<1>. DEFINE h == Head(b)
            r == Tail(b)
            x == Given(k)[w]
            z == Given(k)[r]
<1>1. h \in Frame /\ r \in Seq(Frame) /\ <<h>> \in Seq(Frame)
  BY HeadTailProperties
<1>2. b = <<h>> \o r
  <2>1. Append(<<>>, Head(b)) \o Tail(b) = <<>> \o b
    BY EmptySeq, HeadMoves
  <2>2. Append(<<>>, Head(b)) = <<Head(b)>>
    OBVIOUS
  <2>3. <<>> \o b = b
    BY ConcatEmptySeq
  <2>. QED
    BY <2>1, <2>2, <2>3
<1>. HIDE DEF h, r
<1>3. Given(k)[w \o r] = x \o z
  BY <1>1, GivenConcat
<1>4. Given(k)[w \o b] = x \o (Given(k)[<<h>>] \o z)
  <2>1. Given(k)[w \o b] = x \o Given(k)[b]
    BY GivenConcat
  <2>2. Given(k)[b] = Given(k)[<<h>>] \o z
    BY <1>1, <1>2, GivenConcat
  <2>. QED
    BY <2>1, <2>2
<1>5. x \in Seq(Payload) /\ z \in Seq(Payload)
  BY <1>1, GivenType
<1>. HIDE DEF x, z
<1>6. CASE FromPeer(k, h)
  <2>1. Given(k)[<<h>>] = <<h.msg>> /\ h.msg \in Payload
    <3>1. h \in Frame
      BY <1>1
    <3>2. h.msg \in Payload
      BY <3>1 DEF Frame, Payload
    <3>. QED
      BY <1>6, <3>1, <3>2, GivenOne
  <2>2. /\ Len(x) + 1 \in DOMAIN (x \o (<<h.msg>> \o z))
        /\ RemoveAt(x \o (<<h.msg>> \o z), Len(x) + 1) = x \o z
    <3>1. Without(x \o (<<h.msg>> \o z), Len(x) + 1, x \o z)
      BY <1>5, <2>1, RemoveBetween
    <3>. QED
      BY <3>1 DEF Without
  <2>3. Given(k)[w \o b] = x \o (<<h.msg>> \o z)
    BY <1>4, <2>1
  <2>4. \E i \in DOMAIN Given(k)[w \o b] :
          Given(k)[w \o r] = RemoveAt(Given(k)[w \o b], i)
    BY <1>3, <2>2, <2>3
  <2>. QED
    BY <2>4 DEF r
<1>7. CASE ~FromPeer(k, h)
  <2>1. Given(k)[<<h>>] = <<>>
    BY <1>1, <1>7, GivenOne
  <2>2. <<>> \o z = z
    BY <1>5, ConcatEmptySeq
  <2>. QED
    BY <1>3, <1>4, <2>1, <2>2 DEF r
<1>. QED
  BY <1>6, <1>7

\* What is on the wire has given the first of what wire and channel give.
LEMMA GivenPrefix ==
    ASSUME NEW k, NEW w \in Seq(Frame), NEW b \in Seq(Frame)
    PROVE  IsPrefix(Given(k)[w], Given(k)[w \o b])
<1>. DEFINE x == Given(k)[w]
            z == Given(k)[b]
            q == x \o z
<1>1. x \in Seq(Payload) /\ z \in Seq(Payload) /\ Given(k)[w \o b] = q
  BY GivenType, GivenConcat
<1>. HIDE DEF x, z
<1>2. /\ Len(x) \in Nat /\ Len(z) \in Nat /\ Len(q) = Len(x) + Len(z)
      /\ \A i \in 1 .. Len(x) : q[i] = x[i] /\ x[i] \in Payload
  BY <1>1, ConcatProperties, LenProperties, ElementOfSeq
<1>. HIDE DEF q
<1>3. SubSeq(q, 1, Len(x)) = SubSeq(x, 1, Len(x))
  <2>1. /\ SubSeq(q, 1, Len(x)) \in Seq(Payload)
        /\ Len(SubSeq(q, 1, Len(x))) = IF 1 <= Len(x) THEN Len(x) - 1 + 1 ELSE 0
        /\ \A i \in 1 .. Len(x) - 1 + 1 : SubSeq(q, 1, Len(x))[i] = q[1 + i - 1]
    BY <1>2, SubSeqProperties
  <2>2. /\ SubSeq(x, 1, Len(x)) \in Seq(Payload)
        /\ Len(SubSeq(x, 1, Len(x))) = IF 1 <= Len(x) THEN Len(x) - 1 + 1 ELSE 0
        /\ \A i \in 1 .. Len(x) - 1 + 1 : SubSeq(x, 1, Len(x))[i] = x[1 + i - 1]
    BY <1>2, SubSeqProperties
  <2>3. \A i \in 1 .. Len(x) : i \in 1 .. Len(x) - 1 + 1 /\ 1 + i - 1 = i
    BY <1>2
  <2>4. Len(SubSeq(q, 1, Len(x))) = Len(x) /\ Len(SubSeq(x, 1, Len(x))) = Len(x)
    BY <1>2, <2>1, <2>2
  <2>5. \A i \in 1 .. Len(x) : SubSeq(q, 1, Len(x))[i] = SubSeq(x, 1, Len(x))[i]
    BY <1>2, <2>1, <2>2, <2>3
  <2>. QED
    BY <2>1, <2>2, <2>4, <2>5, SeqEqual
<1>4. Len(x) <= Len(q)
  BY <1>2
<1>5. IsPrefix(x, q)
  BY <1>3, <1>4 DEF IsPrefix
<1>. QED
  BY <1>1, <1>5 DEF x

----------------------------------------------------------------------------
(* What waits, and in which order. *)

\* A message waits if it is queued or held.
LEMMA WaitingMeans ==
    ASSUME TypeInv
    PROVE  \A x : x \in Waiting <=>
             \/ \E i \in DOMAIN sendTo : sendTo[i] = x
             \/ \E c \in Conns : Held(c) /\ out[c] = x
<1>1. \A x : x \in Range(sendTo) <=> \E i \in DOMAIN sendTo : sendTo[i] = x
  BY DEF Range
<1>. QED
  BY <1>1 DEF Waiting, Held

\* So after a step.
LEMMA NextWaitingMeans ==
    ASSUME TypeInv'
    PROVE  \A x : x \in Waiting' <=>
             \/ \E i \in DOMAIN sendTo' : sendTo'[i] = x
             \/ \E c \in Conns : Held(c)' /\ out'[c] = x
<1>1. \A x : x \in Range(sendTo)' <=> \E i \in DOMAIN sendTo' : sendTo'[i] = x
  BY DEF Range
<1>. QED
  BY <1>1 DEF Waiting, Held

\* No row comes before itself, nor do two rows come before each other.
LEMMA BeforeIsStrict ==
    ASSUME TypeInv, Delivery, NEW x, NEW y, Before(x, y)
    PROVE  x # y /\ ~Before(y, x)
<1>1. \A p \in DOMAIN db : p \in Nat
  BY LenProperties DEF TypeInv, TypeOK
<1>2. \A p, q \in DOMAIN db : db[p] = db[q] => p = q
  BY DEF Delivery, RowsUnique
<1>. QED
  BY <1>1, <1>2 DEF Before

\* The oldest request is the first that waits of its connection.
LEMMA HeadIsFirst ==
    ASSUME TypeInv, Delivery, sendTo # <<>>
    PROVE  /\ Head(sendTo) \in Waiting /\ Mail!First(Head(sendTo))
           /\ \A x : x \in Waiting /\ x.conn = Head(sendTo).conn =>
                x = Head(sendTo) \/ Before(Head(sendTo), x)
<1>. DEFINE m == Head(sendTo)
<1>1. 1 \in DOMAIN sendTo /\ sendTo[1] = m /\ \A i \in DOMAIN sendTo : i = 1 \/ 1 < i
  BY RequestHead
<1>. HIDE DEF m
<1>2. m \in Waiting
  BY <1>1, WaitingMeans
<1>3. ASSUME NEW x \in Waiting, x.conn = m.conn PROVE x = m \/ Before(m, x)
  <2>1. ASSUME NEW i \in DOMAIN sendTo, sendTo[i] = x PROVE x = m \/ Before(m, x)
    BY <1>1, <1>3, <2>1 DEF Delivery, QueueSound
  <2>2. ASSUME NEW c \in Conns, Held(c), out[c] = x PROVE Before(m, x)
    <3>1. out[c].conn = c
      BY <2>2 DEF Delivery, HandlerSound, Held
    <3>. QED
      BY <1>1, <1>3, <2>2, <3>1 DEF Delivery, QueueSound
  <2>. QED
    BY <2>1, <2>2, WaitingMeans
<1>4. PICK p \in DOMAIN db : db[p] = m
  BY <1>1 DEF Delivery, QueueSound, IsRow
<1>5. \A q \in DOMAIN db : q \in Nat
  BY LenProperties DEF TypeInv, TypeOK
<1>6. ASSUME NEW j \in 1 .. p - 1, db[j].conn = m.conn PROVE db[j] \notin Waiting
  <2>1. j \in DOMAIN db /\ j < p
    <3>1. DOMAIN db = 1 .. Len(db) /\ Len(db) \in Nat
      BY LenProperties DEF TypeInv, TypeOK
    <3>. QED
      BY <1>4, <3>1
  <2>2. Before(db[j], m)
    BY <1>4, <2>1 DEF Before
  <2>3. m # db[j] /\ ~Before(m, db[j])
    BY <2>2, BeforeIsStrict
  <2>. QED
    BY <1>3, <1>6, <2>3
<1>7. Mail!First(m)
  BY <1>4, <1>6 DEF Mail!First
<1>. QED
  BY <1>2, <1>3, <1>7 DEF m

\* What a handler holds is the last that waits of its connection.
LEMMA HeldIsLatest ==
    ASSUME TypeInv, Delivery, NEW c \in Conns, Held(c)
    PROVE  /\ out[c] \in Waiting /\ Mail!Latest(out[c])
           /\ \A i \in DOMAIN sendTo : sendTo[i] # out[c]
           /\ \A k \in Conns : Held(k) /\ out[k] = out[c] => k = c
<1>1. out[c].conn = c /\ IsRow(out[c])
  BY DEF Delivery, HandlerSound, Held
<1>2. out[c] \in Waiting
  BY WaitingMeans
<1>3. \A k \in Conns : Held(k) => out[k].conn = k
  BY DEF Delivery, HandlerSound, Held
<1>4. ASSUME NEW x \in Waiting, x.conn = c PROVE x = out[c] \/ Before(x, out[c])
  BY <1>3, <1>4, WaitingMeans DEF Delivery, QueueSound
<1>5. PICK p \in DOMAIN db : db[p] = out[c]
  BY <1>1 DEF IsRow
<1>6. DOMAIN db = 1 .. Len(db) /\ Len(db) \in Nat
  BY LenProperties DEF TypeInv, TypeOK
<1>7. ASSUME NEW j \in p + 1 .. Len(db), db[j].conn = out[c].conn PROVE db[j] \notin Waiting
  <2>1. j \in DOMAIN db /\ p < j
    BY <1>5, <1>6
  <2>2. Before(out[c], db[j])
    BY <1>5, <2>1 DEF Before
  <2>3. out[c] # db[j] /\ ~Before(db[j], out[c])
    BY <2>2, BeforeIsStrict
  <2>. QED
    BY <1>1, <1>4, <1>7, <2>3
<1>8. Mail!Latest(out[c])
  BY <1>5, <1>7 DEF Mail!Latest
<1>9. ASSUME NEW i \in DOMAIN sendTo PROVE sendTo[i] # out[c]
  <2>1. sendTo[i].conn = c => Before(sendTo[i], out[c])
    BY DEF Delivery, QueueSound
  <2>. QED
    BY <1>1, <2>1, BeforeIsStrict
<1>. QED
  BY <1>1, <1>2, <1>3, <1>8, <1>9

----------------------------------------------------------------------------
(* Every step of the hub is one of the mailbox, or none. *)

\* Where all connections are given what they were, the boxes are the same.
LEMMA SameBoxes ==
    ASSUME \A k \in Conns : Given(k)[Stream(k)'] = Given(k)[Stream(k)]
    PROVE  Boxes' = Boxes
BY DEF Boxes

\* The same waits if the same is queued and held.
LEMMA SameWaiting ==
    ASSUME TypeInv, TypeInv', sendTo' = sendTo,
           \A k \in Conns : Held(k)' <=> Held(k),
           \A k \in Conns : Held(k) => out'[k] = out[k]
    PROVE  Waiting' = Waiting
<1>1. \A x : x \in Waiting' <=> x \in Waiting
  BY WaitingMeans, NextWaitingMeans
<1>. QED
  BY <1>1

\* A new row is a message accepted; a repeated msg_id changes nothing.
LEMMA ReadImplements ==
    ASSUME TypeInv, TypeInv', Delivery, NEW c \in Conns, ReadMsg(c)
    PROVE  [Mail!Next]_(Mail!vars)
<1>1. PICK m \in Message :
        /\ m.conn = c /\ StoreTextMessage(c, m) /\ out' = [out EXCEPT ![c] = m]
  <2>1. PICK d \in Drafts[UserOf[c]] :
          /\ StoreTextMessage(c, [id |-> d.id, to |-> d.to, conn |-> c])
          /\ out' = [out EXCEPT ![c] = [id |-> d.id, to |-> d.to, conn |-> c]]
    BY DEF ReadMsg
  <2>2. [id |-> d.id, to |-> d.to, conn |-> c] \in Message
    BY ConstantsAssumption DEF Message
  <2>. QED
    BY <2>1, <2>2
<1>2. /\ pc' = [pc EXCEPT ![c] = "acking"] /\ pc[c] = "reading"
      /\ inserted' = [inserted EXCEPT ![c] = ~Stored(m.id)]
      /\ sendTo' = sendTo
      /\ pc \in [Conns -> PCs] /\ inserted \in [Conns -> BOOLEAN]
      /\ out \in [Conns -> Message \cup {NoMsg}]
  BY <1>1 DEF ReadMsg, StoreTextMessage, hubVars, TypeInv, TypeOK
<1>3. Boxes' = Boxes
  <2>1. \A k \in Conns : Stream(k)' = Stream(k)
    BY DEF ReadMsg, Stream
  <2>. QED
    BY <2>1, SameBoxes
<1>4. /\ \A k \in Conns \ {c} : (Held(k)' <=> Held(k)) /\ out'[k] = out[k]
      /\ ~Held(c) /\ out'[c] = m
      /\ Held(c)' <=> ~Stored(m.id)
  BY <1>1, <1>2 DEF Held
<1>5. CASE Stored(m.id)
  <2>1. Waiting' = Waiting
    BY <1>2, <1>4, <1>5, SameWaiting
  <2>. QED
    BY <1>1, <1>3, <1>5, <2>1 DEF StoreTextMessage, Mail!vars
<1>6. CASE ~Stored(m.id)
  <2>1. \A x : x \in Waiting' <=> x \in Waiting \/ x = m
    BY <1>2, <1>4, <1>6, WaitingMeans, NextWaitingMeans
  <2>2. Waiting' = Waiting \cup {m}
    BY <2>1
  <2>3. Mail!Accept(m)
    BY <1>1, <1>3, <1>6, <2>2 DEF StoreTextMessage, Stored, Mail!Accept
  <2>. QED
    BY <2>3 DEF Mail!Next
<1>. QED
  BY <1>5, <1>6

\* The handover moves a message from its handler to the queue.
LEMMA HandImplements ==
    ASSUME TypeInv, TypeInv', Delivery, NEW c \in Conns, HandToHub(c)
    PROVE  [Mail!Next]_(Mail!vars)
<1>1. /\ sendTo' = Append(sendTo, out[c])
      /\ pc' = [pc EXCEPT ![c] = "reading"] /\ pc[c] = "handing"
      /\ out' = out /\ inserted' = inserted /\ db' = db
      /\ pc \in [Conns -> PCs]
  BY DEF HandToHub, pumpVars, TypeInv, TypeOK
<1>2. Held(c) /\ ~Held(c)' /\ \A k \in Conns \ {c} : Held(k)' <=> Held(k)
  BY <1>1 DEF Delivery, HandlerSound, Held
<1>3. /\ DOMAIN sendTo = 1 .. Len(sendTo) /\ DOMAIN sendTo' = 1 .. Len(sendTo) + 1
      /\ Len(sendTo) \in Nat
      /\ \A i \in 1 .. Len(sendTo) : sendTo'[i] = sendTo[i]
      /\ sendTo'[Len(sendTo) + 1] = out[c]
  <2>1. sendTo \in Seq(Message) /\ out[c] \in Message
    BY <1>1 DEF TypeInv, TypeOK, HandlingMessage
  <2>. QED
    BY <1>1, <2>1, AppendProperties, LenProperties
<1>4. \A x : (\E i \in DOMAIN sendTo' : sendTo'[i] = x) <=>
             (\E i \in DOMAIN sendTo : sendTo[i] = x) \/ x = out[c]
  <2>1. \A i \in 1 .. Len(sendTo) + 1 : i \in 1 .. Len(sendTo) \/ i = Len(sendTo) + 1
    BY <1>3
  <2>2. 1 .. Len(sendTo) \subseteq 1 .. Len(sendTo) + 1
        /\ Len(sendTo) + 1 \in 1 .. Len(sendTo) + 1
    BY <1>3
  <2>. QED
    BY <1>3, <2>1, <2>2
<1>5. \A x : x \in Waiting' <=> x \in Waiting
  BY <1>1, <1>2, <1>4, WaitingMeans, NextWaitingMeans
<1>6. Waiting' = Waiting
  BY <1>5
<1>7. Boxes' = Boxes
  <2>1. \A k \in Conns : Stream(k)' = Stream(k)
    BY DEF HandToHub, Stream
  <2>. QED
    BY <2>1, SameBoxes
<1>. QED
  BY <1>1, <1>6, <1>7 DEF Mail!vars

\* A handler's own frames give nothing.
LEMMA HandlerBoxes ==
    ASSUME TypeInv, Delivery, NEW c \in Conns, HandlerStep(c)
    PROVE  Boxes' = Boxes
<1>1. ASSUME NEW k \in Conns PROVE Given(k)[Stream(k)'] = Given(k)[Stream(k)]
  <2>1. pc[c] = "echoing" => out[c].conn = c
    BY DEF Delivery, HandlerSound
  <2>2. Stream(k) \in Seq(Frame)
    BY StreamType
  <2>3. ASSUME NEW f \in Frame, ~Decides(k, f), Stream(k)' = Append(Stream(k), f)
        PROVE  Given(k)[Stream(k)'] = Given(k)[Stream(k)]
    BY <2>2, <2>3, GivenAppend DEF Decides
  <2>4. CASE Stream(k)' = Stream(k)
    BY <2>4
  <2>. QED
    BY <2>1, <2>3, <2>4, HandlerStreams
<1>. QED
  BY <1>1, SameBoxes

\* All else a handler does lets its message wait, or is the end of both.
LEMMA HandlerImplements ==
    ASSUME TypeInv, TypeInv', Delivery, NEW c \in Conns, HandlerStep(c)
    PROVE  [Mail!Next]_(Mail!vars)
<1>0. pc \in [Conns -> PCs] /\ inserted \in [Conns -> BOOLEAN]
  BY DEF TypeInv, TypeOK
<1>1. CASE ReadMsg(c)
  BY <1>1, ReadImplements
<1>2. CASE HandToHub(c)
  BY <1>2, HandImplements
<1>3. CASE Greet(c) \/ ReadRejected(c) \/ Ack(c) \/ Echo(c) \/ ReadFails(c)
  <2>1. db' = db /\ sendTo' = sendTo /\ out' = out /\ inserted' = inserted
    BY <1>3 DEF Greet, ReadRejected, Ack, Echo, ReadFails, hubVars, pumpVars
  <2>2. /\ \A k \in Conns \ {c} : pc'[k] = pc[k]
        /\ \/ pc'[c] = "panicked"
           \/ pc[c] \notin {"acking", "echoing", "handing"} /\ pc'[c] \in {"reading", "leaving"}
           \/ pc[c] = "acking" /\ pc'[c] = "echoing"
           \/ pc[c] = "echoing" /\ pc'[c] = "handing" /\ inserted[c]
           \/ pc[c] = "echoing" /\ pc'[c] = "reading" /\ ~inserted[c]
    <3>1. CASE Greet(c) \/ ReadRejected(c)
      BY <1>0, <3>1 DEF Greet, ReadRejected, Enqueue
    <3>2. CASE Ack(c)
      BY <1>0, <3>2 DEF Ack, Enqueue
    <3>3. CASE Echo(c)
      BY <1>0, <3>3 DEF Echo, Enqueue
    <3>4. CASE ReadFails(c)
      BY <1>0, <3>4 DEF ReadFails
    <3>. QED
      BY <1>3, <3>1, <3>2, <3>3, <3>4
  <2>3. Boxes' = Boxes
    BY HandlerBoxes
  <2>4. \A k \in Conns \ {c} : Held(k)' <=> Held(k)
    BY <2>1, <2>2 DEF Held
  <2>5. CASE Held(c)' <=> Held(c)
    <3>1. Waiting' = Waiting
      BY <2>1, <2>4, <2>5, SameWaiting
    <3>. QED
      BY <2>1, <2>3, <3>1 DEF Mail!vars
  <2>6. CASE Held(c) /\ ~Held(c)'
    <3>1. /\ out[c] \in Waiting /\ Mail!Latest(out[c])
          /\ \A i \in DOMAIN sendTo : sendTo[i] # out[c]
          /\ \A k \in Conns : Held(k) /\ out[k] = out[c] => k = c
      BY <2>6, HeldIsLatest
    <3>2. \A x : x \in Waiting' <=> x \in Waiting /\ x # out[c]
      BY <2>1, <2>4, <2>6, <3>1, WaitingMeans, NextWaitingMeans
    <3>3. Waiting' = Waiting \ {out[c]}
      BY <3>2
    <3>4. Mail!Abandon(out[c])
      BY <2>1, <2>3, <3>1, <3>3 DEF Mail!Abandon
    <3>. QED
      BY <3>1, <3>4 DEF Mail!Next
  <2>7. Held(c)' => Held(c)
    BY <2>1, <2>2 DEF Held
  <2>. QED
    BY <2>5, <2>6, <2>7
<1>. QED
  BY <1>1, <1>2, <1>3 DEF HandlerStep

\* A writePump can only lose what its box holds.
LEMMA WriterImplements ==
    ASSUME TypeInv, TypeInv', NEW c \in Conns, WriterStep(c)
    PROVE  [Mail!Next]_(Mail!vars)
<1>1. UNCHANGED <<db, sendTo, out, inserted, pc>>
  BY DEF WriterStep, WriteFrame, WriteFails, PingFails, SendCloseFrame, hubVars, pumpVars
<1>2. Waiting' = Waiting
  BY <1>1, SameWaiting DEF Held
<1>3. ASSUME NEW k \in Conns, k # c PROVE Given(k)[Stream(k)'] = Given(k)[Stream(k)]
  <2>1. Stream(k)' = Stream(k)
    BY <1>3, WriterStreams
  <2>. QED
    BY <2>1
<1>4. CASE Given(c)[Stream(c)'] = Given(c)[Stream(c)]
  <2>1. Boxes' = Boxes
    BY <1>3, <1>4, SameBoxes
  <2>. QED
    BY <1>1, <1>2, <2>1 DEF Mail!vars
<1>5. CASE \E i \in DOMAIN Given(c)[Stream(c)] :
             Given(c)[Stream(c)'] = RemoveAt(Given(c)[Stream(c)], i)
  <2>1. PICK i \in DOMAIN Given(c)[Stream(c)] :
             Given(c)[Stream(c)'] = RemoveAt(Given(c)[Stream(c)], i)
    BY <1>5
  <2>2. i \in DOMAIN Boxes[c]
    BY DEF Boxes
  <2>3. Boxes' = [Boxes EXCEPT ![c] = RemoveAt(Boxes[c], i)]
    BY <1>3, <2>1 DEF Boxes
  <2>4. Mail!RemoveAt(Boxes[c], i) = RemoveAt(Boxes[c], i)
    BY DEF Mail!RemoveAt, RemoveAt
  <2>5. Mail!Lose(c)
    BY <1>1, <1>2, <2>2, <2>3, <2>4 DEF Mail!Lose
  <2>. QED
    BY <2>5 DEF Mail!Next
<1>6. CASE Stream(c)' # Stream(c)
  <2>1. chan[c].buf # <<>> /\ Stream(c)' = wire[c] \o Tail(chan[c].buf)
    BY <1>6, WriterStreams
  <2>2. wire[c] \in Seq(Frame) /\ chan[c].buf \in Seq(Frame)
        /\ Stream(c) = wire[c] \o chan[c].buf
    BY StreamType DEF Stream
  <2>3. \/ Given(c)[wire[c] \o Tail(chan[c].buf)] = Given(c)[wire[c] \o chan[c].buf]
        \/ \E i \in DOMAIN Given(c)[wire[c] \o chan[c].buf] :
             Given(c)[wire[c] \o Tail(chan[c].buf)] = RemoveAt(Given(c)[wire[c] \o chan[c].buf], i)
    BY <2>1, <2>2, GivenTail
  <2>. QED
    BY <1>4, <1>5, <2>1, <2>2, <2>3
<1>. QED
  BY <1>4, <1>6

\* Who comes or goes waits for nothing and is given nothing.
LEMMA RegistrationImplements ==
    ASSUME TypeInv, TypeInv', NEW c \in Conns, Register(c) \/ Unregister(c)
    PROVE  [Mail!Next]_(Mail!vars)
<1>1. /\ sendTo' = sendTo /\ out' = out /\ inserted' = inserted /\ db' = db
      /\ pc \in [Conns -> PCs]
      /\ \/ pc[c] = "idle" /\ pc' = [pc EXCEPT ![c] = "greeting"]
         \/ pc[c] = "leaving" /\ pc' = [pc EXCEPT ![c] = "closed"]
  BY DEF Register, Unregister, pumpVars, TypeInv, TypeOK
<1>2. \A k \in Conns : Held(k)' <=> Held(k)
  BY <1>1 DEF Held
<1>3. Waiting' = Waiting
  BY <1>1, <1>2, SameWaiting
<1>4. Boxes' = Boxes
  <2>1. \A k \in Conns : Stream(k)' = Stream(k)
    BY RegistrationStreams
  <2>. QED
    BY <2>1, SameBoxes
<1>. QED
  BY <1>1, <1>3, <1>4 DEF Mail!vars

\* A request that is served waits no longer.
LEMMA ServedWaitsNot ==
    ASSUME TypeInv, TypeInv', Delivery, TakeRequest
    PROVE  Waiting' = Waiting \ {Head(sendTo)}
<1>. DEFINE m == Head(sendTo)
<1>1. /\ sendTo # <<>> /\ sendTo' = Tail(sendTo)
      /\ pc' = pc /\ out' = out /\ inserted' = inserted
  BY DEF TakeRequest, pumpVars
<1>2. /\ 1 \in DOMAIN sendTo /\ sendTo[1] = m
      /\ DOMAIN sendTo' = 1 .. Len(sendTo) - 1
      /\ DOMAIN sendTo = 1 .. Len(sendTo) /\ Len(sendTo) \in Nat
      /\ \A i \in DOMAIN sendTo' : i + 1 \in DOMAIN sendTo /\ sendTo'[i] = sendTo[i + 1]
  BY <1>1, RequestHead
<1>. HIDE DEF m
<1>3. \A c \in Conns : Held(c)' <=> Held(c)
  BY <1>1 DEF Held
<1>4. ASSUME NEW i \in DOMAIN sendTo, i # 1 PROVE sendTo[i] # m
  <2>1. 1 < i
    BY <1>2, <1>4
  <2>2. sendTo[i].conn = m.conn => Before(m, sendTo[i])
    BY <1>2, <2>1 DEF Delivery, QueueSound
  <2>. QED
    BY <2>2, BeforeIsStrict
<1>5. ASSUME NEW c \in Conns, Held(c) PROVE out[c] # m
  <2>1. out[c].conn = c
    BY <1>5 DEF Delivery, HandlerSound, Held
  <2>2. m.conn = c => Before(m, out[c])
    BY <1>2, <1>5 DEF Delivery, QueueSound
  <2>. QED
    BY <2>1, <2>2, BeforeIsStrict
<1>6. ASSUME NEW x
      PROVE  (\E i \in DOMAIN sendTo' : sendTo'[i] = x)
               <=> (\E i \in DOMAIN sendTo : sendTo[i] = x) /\ x # m
  <2>1. ASSUME NEW i \in DOMAIN sendTo', sendTo'[i] = x
        PROVE  (\E j \in DOMAIN sendTo : sendTo[j] = x) /\ x # m
    <3>1. i + 1 \in DOMAIN sendTo /\ sendTo[i + 1] = x /\ i + 1 # 1
      BY <1>2, <2>1
    <3>. QED
      BY <1>4, <3>1
  <2>2. ASSUME NEW i \in DOMAIN sendTo, sendTo[i] = x, x # m
        PROVE  \E j \in DOMAIN sendTo' : sendTo'[j] = x
    <3>1. i # 1
      BY <1>2, <2>2
    <3>2. i - 1 \in DOMAIN sendTo' /\ (i - 1) + 1 = i
      BY <1>2, <3>1
    <3>3. sendTo'[i - 1] = sendTo[i]
      BY <1>2, <3>2
    <3>. QED
      BY <2>2, <3>2, <3>3
  <2>. QED
    BY <2>1, <2>2
<1>7. \A x : x \in Waiting' <=> x \in Waiting /\ x # m
  BY <1>1, <1>3, <1>5, <1>6, WaitingMeans, NextWaitingMeans
<1>8. Waiting' = Waiting \ {m}
  BY <1>7
<1>. QED
  BY <1>8 DEF m

\* The hub delivers or refuses what it takes from its queue.
LEMMA ServeImplements ==
    ASSUME Registry, TypeInv', Delivery, HubSend
    PROVE  [Mail!Next]_(Mail!vars)
<1>. DEFINE m == Head(sendTo)
<1>1. TypeInv /\ TakeRequest /\ sendTo # <<>> /\ db' = db
  BY DEF HubSend, SendToOffline, SendToOnline, SendToSlow, TakeRequest, Registry
<1>2. /\ Waiting' = Waiting \ {m}
      /\ m \in Waiting /\ Mail!First(m)
      /\ m \in Message /\ m.conn \in Conns
  BY <1>1, ServedWaitsNot, HeadIsFirst, RequestHead
<1>3. ASSUME NEW type \in {"delivered", "offline", "failed"}
      PROVE  WSOut(type, m) \in Frame /\ \A k : ~FromPeer(k, WSOut(type, m))
  BY <1>2 DEF WSOut, Frame, FrameTypes, FromPeer
<1>4. WSOut("msg", m) \in Frame /\ WSOut("msg", m).msg = m
      /\ \A k : FromPeer(k, WSOut("msg", m)) <=> m.conn # k
  BY <1>2 DEF WSOut, Frame, FrameTypes, FromPeer
<1>5. \A k \in Conns : Stream(k) \in Seq(Frame)
  BY <1>1, StreamType
<1>. HIDE DEF m
<1>6. ASSUME Boxes' = Boxes PROVE [Mail!Next]_(Mail!vars)
  <2>1. Mail!Refuse(m)
    BY <1>1, <1>2, <1>6 DEF Mail!Refuse
  <2>. QED
    BY <1>2, <2>1 DEF Mail!Next
<1>7. CASE SendToOffline \/ SendToSlow
  <2>1. ASSUME NEW k \in Conns PROVE Given(k)[Stream(k)'] = Given(k)[Stream(k)]
    <3>1. CASE Stream(k)' = Stream(k)
      BY <3>1
    <3>2. ASSUME NEW type \in {"offline", "failed"}, Stream(k)' = Append(Stream(k), WSOut(type, m))
          PROVE  Given(k)[Stream(k)'] = Given(k)[Stream(k)]
      BY <1>3, <1>5, <3>2, GivenAppend
    <3>. QED
      BY <1>7, <3>1, <3>2, RefusedStreams DEF m
  <2>. QED
    BY <1>6, <2>1, SameBoxes
<1>8. CASE SendToOnline
  <2>1. PICK dst \in Conns : dst = byUser[m.to] /\ UserOf[dst] = m.to
    BY <1>8, OnlineStreams DEF m
  <2>. DEFINE f == WSOut("msg", m)
              given(k) == IF k = dst THEN Append(Stream(k), f) ELSE Stream(k)
  <2>2. \A k \in Conns : \/ Stream(k)' = given(k)
                         \/ Stream(k)' = Append(given(k), WSOut("delivered", m))
    BY <1>8, <2>1, OnlineStreams DEF m
  <2>3. ASSUME NEW k \in Conns
        PROVE  /\ given(k) \in Seq(Frame)
               /\ Given(k)[given(k)] = IF k = dst /\ m.conn # dst
                                       THEN Append(Given(k)[Stream(k)], m)
                                       ELSE Given(k)[Stream(k)]
    <3>1. Append(Stream(k), f) \in Seq(Frame)
      BY <1>4, <1>5, AppendProperties
    <3>2. Given(k)[Append(Stream(k), f)] = IF m.conn # k THEN Append(Given(k)[Stream(k)], m)
                                                         ELSE Given(k)[Stream(k)]
      BY <1>4, <1>5, GivenAppend
    <3>. QED
      BY <1>5, <3>1, <3>2
  <2>. HIDE DEF given, f
  <2>4. ASSUME NEW k \in Conns
        PROVE  Given(k)[Stream(k)'] = IF k = dst /\ m.conn # dst
                                      THEN Append(Given(k)[Stream(k)], m)
                                      ELSE Given(k)[Stream(k)]
    <3>1. CASE Stream(k)' = given(k)
      BY <2>3, <3>1
    <3>2. CASE Stream(k)' = Append(given(k), WSOut("delivered", m))
      <4>1. Given(k)[Append(given(k), WSOut("delivered", m))] = Given(k)[given(k)]
        BY <1>3, <2>3, GivenAppend
      <4>. QED
        BY <2>3, <3>2, <4>1
    <3>. QED
      BY <2>2, <3>1, <3>2
  <2>5. CASE m.conn = dst
    BY <1>6, <2>4, <2>5, SameBoxes
  <2>6. CASE m.conn # dst
    <3>1. Boxes' = [Boxes EXCEPT ![dst] = Append(Boxes[dst], m)]
      BY <2>4, <2>6 DEF Boxes
    <3>2. Mail!Deliver(m, dst)
      BY <1>1, <1>2, <2>1, <3>1 DEF Mail!Deliver
    <3>. QED
      BY <1>2, <3>2 DEF Mail!Next
  <2>. QED
    BY <2>5, <2>6
<1>. QED
  BY <1>7, <1>8 DEF HubSend

\* A restart leaves the table and what was on the wires.
LEMMA RestartImplements ==
    ASSUME TypeInv, TypeInv', Restart
    PROVE  [Mail!Next]_(Mail!vars)
<1>1. db' = db /\ sendTo' = <<>> /\ \A c \in Conns : ~Held(c)'
  BY DEF Restart, Held
<1>2. Waiting' = {}
  <2>1. DOMAIN <<>> = {}
    OBVIOUS
  <2>2. \A x : x \notin Waiting'
    BY <1>1, <2>1, NextWaitingMeans
  <2>. QED
    BY <2>2
<1>3. ASSUME NEW k \in Conns PROVE Mail!IsPrefix(Boxes'[k], Boxes[k])
  <2>1. /\ wire[k] \in Seq(Frame) /\ chan[k].buf \in Seq(Frame)
        /\ Stream(k) = wire[k] \o chan[k].buf /\ Stream(k)' = wire[k]
    BY StreamType, RestartStreams DEF Stream
  <2>2. IsPrefix(Given(k)[wire[k]], Given(k)[wire[k] \o chan[k].buf])
    BY <2>1, GivenPrefix
  <2>3. Boxes'[k] = Given(k)[Stream(k)'] /\ Boxes[k] = Given(k)[Stream(k)]
    BY DEF Boxes
  <2>4. IsPrefix(Boxes'[k], Boxes[k])
    BY <2>1, <2>2, <2>3
  <2>. QED
    BY <2>4 DEF IsPrefix, Mail!IsPrefix
<1>4. Mail!Restart
  BY <1>1, <1>2, <1>3 DEF Mail!Restart
<1>. QED
  BY <1>4 DEF Mail!Next

\* At first nothing waits and nothing is given.
LEMMA InitImplements == Init => Mail!Init
<1>. SUFFICES ASSUME Init PROVE Mail!Init
  OBVIOUS
<1>1. TypeInv
  BY InitType
<1>2. ASSUME NEW k \in Conns PROVE Given(k)[Stream(k)] = <<>>
  <2>1. Stream(k) = <<>> /\ <<>> \in Seq(Frame)
    BY EmptySeq, ConcatEmptySeq DEF Init, Stream
  <2>2. Places(k, <<>>) = {}
    BY DEF Places
  <2>. QED
    BY <2>1, <2>2, GivenNothing
<1>3. Boxes = [k \in Conns |-> <<>>]
  BY <1>2 DEF Boxes
<1>4. Waiting = {}
  <2>1. sendTo = <<>> /\ DOMAIN <<>> = {} /\ \A c \in Conns : ~Held(c)
    BY DEF Init, Held
  <2>2. \A x : x \notin Waiting
    BY <1>1, <2>1, WaitingMeans
  <2>. QED
    BY <2>2
<1>5. db = <<>>
  BY DEF Init
<1>. QED
  BY <1>3, <1>4, <1>5 DEF Mail!Init

\* Hub, handlers and writePumps, with all their queues, kicks, panics, failing
\* writes and restarts, do nothing to a message that a mailbox would not do.
THEOREM HubIsMailbox == Spec => ImplementsMailbox
<1>1. Init => Mail!Init
  BY InitImplements
<1>2. Registry /\ Registry' /\ Delivery /\ [Next]_vars => [Mail!Next]_(Mail!vars)
  <2>. SUFFICES ASSUME Registry, Registry', Delivery, [Next]_vars
                PROVE  [Mail!Next]_(Mail!vars)
    OBVIOUS
  <2>0. TypeInv /\ TypeInv'
    BY DEF Registry
  <2>1. ASSUME NEW c \in Conns, HandlerStep(c) PROVE [Mail!Next]_(Mail!vars)
    BY <2>0, <2>1, HandlerImplements
  <2>2. ASSUME NEW c \in Conns, WriterStep(c) PROVE [Mail!Next]_(Mail!vars)
    BY <2>0, <2>2, WriterImplements
  <2>3. ASSUME NEW c \in Conns, Register(c) \/ Unregister(c) PROVE [Mail!Next]_(Mail!vars)
    BY <2>0, <2>3, RegistrationImplements
  <2>4. CASE HubSend
    BY <2>0, <2>4, ServeImplements
  <2>5. CASE Restart
    BY <2>0, <2>5, RestartImplements
  <2>6. CASE UNCHANGED vars
    <3>1. db' = db /\ sendTo' = sendTo /\ out' = out /\ inserted' = inserted /\ pc' = pc
          /\ \A k \in Conns : Stream(k)' = Stream(k)
      BY <2>6 DEF vars, hubVars, pumpVars, Stream
    <3>2. Waiting' = Waiting
      BY <2>0, <3>1, SameWaiting DEF Held
    <3>3. Boxes' = Boxes
      BY <3>1, SameBoxes
    <3>. QED
      BY <3>1, <3>2, <3>3 DEF Mail!vars
  <2>. QED
    BY <2>1, <2>2, <2>3, <2>4, <2>5, <2>6 DEF Next, HandlerStep, WriterStep, HubSend
<1>. QED
  BY <1>1, <1>2, RegistrySound, DeliverySound, PTL DEF Spec, ImplementsMailbox, Mail!Spec

=============================================================================
