-------------------------- MODULE TunnelPipeProofs ---------------------------
(***************************************************************************)
(* Ordered and NoTruncation of TunnelPipe, for addresses, windows, buffers *)
(* and numbers of bytes of any size.                                       *)
(*                                                                         *)
(* A lane is one direction: the hops Out(p), Out(p) + 1 and Out(p) + 2 and *)
(* the two copies between them.  Ordered needs that every piece of a lane  *)
(* continues where the one before it ends, as long as what is written to   *)
(* it still arrives (Lane).                                                *)
(*                                                                         *)
(* NoTruncation needs the reasons of an end.  Whoever returns first does   *)
(* so because its own peer has ended (Reasons), and bytes that peer sent   *)
(* get lost only if bytes of the other direction do (Account).             *)
(***************************************************************************)
EXTENDS TunnelPipe, TLAPS

\* The bytes of s, without the first k, are the ones after the m-th.
Continues(s, k, m) == \A i \in DOMAIN s : i > k => s[i] = m + (i - k)

\* A lane: received are g, under way in its hops d1, d2 (with k bytes of the header
\* before it) and d3, in hand of its copies b1 and b2, and s were sent.  The last n
\* hops still take what is written to them.
LaneOf(g, d3, b2, d2, k, b1, d1, s, n) ==
    LET m1 == Len(g) + Len(d3)
        m2 == m1 + Len(b2)
        m3 == m2 + Len(d2) - k
        m4 == m3 + Len(b1)
    IN
    /\ Continues(g, 0, 0) /\ Continues(d3, 0, Len(g)) /\ m1 <= s
    /\ n >= 1 => Continues(b2, 0, m1) /\ Continues(d2, k, m2) /\ m2 <= s /\ m3 <= s
    /\ n >= 2 => k <= Len(d2) /\ Continues(b1, 0, m3) /\ Continues(d1, 0, m4) /\ m4 + Len(d1) <= s
    /\ n >= 3 => m4 + Len(d1) = s

\* The part of the header that hop 2 still has to deliver.
Skip(h) == IF h = 2 /\ client = "header" /\ server # "header" THEN address + 1 - header ELSE 0

\* What is written to a hop arrives.
Flows(h) == hop[h].end = "open" /\ hop[h].reader = "there"
Depth(p) ==
    IF ~Flows(Out(p) + 2) \/ (p = "user" /\ client = "returned") THEN 0
    ELSE IF ~Flows(Out(p) + 1) THEN 1
    ELSE IF ~Flows(Out(p)) THEN 2 ELSE 3

Lane(p) ==
    LaneOf(got[Other(p)], hop[Out(p) + 2].data, copy[Out(p) + 1].buf, hop[Out(p) + 1].data,
           Skip(Out(p) + 1), copy[Out(p)].buf, hop[Out(p)].data, sent[p], Depth(p))

\* Where the handlers and their copies are.
Shape ==
    /\ server = "header" =>
          /\ hop[2].data = <<>> /\ header = 0 /\ client \in {"header", "returned"}
          /\ hop[2].end = "open" => client = "header"
          /\ copy[1].state = "off" /\ copy[5].state = "off"
    /\ client \in {"header", "dial"} => copy[2].state = "off" /\ copy[4].state = "off"
    /\ client = "piping" => copy[2].state # "off"
    /\ client = "header" => header <= address /\ header <= MaxHeader
    /\ client = "header" /\ server # "header" =>
          /\ \A i \in 1..Len(hop[2].data) : i <= Skip(2) =>
                hop[2].data[i] = IF i = Skip(2) THEN Newline ELSE Char
          /\ hop[2].end = "open" => Skip(2) <= Len(hop[2].data)
    /\ \A c \in Copies : copy[c].state # "on" => copy[c].buf = <<>>
    /\ hop[2].reader = "there" /\ hop[5].reader = "there"

-----------------------------------------------------------------------------
Returned(p) == IF p = "user" THEN server = "returned" ELSE client = "returned"

\* The bytes of p's lane by where they are: received, in its hops, in hand of its
\* copies; and the bytes of the header before them.
Got(p) == Len(got[Other(p)])
Far(p) == Len(hop[Out(p) + 2].data)
FarHeld(p) == Len(copy[Out(p) + 1].buf)
Middle(p) == Len(hop[Out(p) + 1].data)
NearHeld(p) == Len(copy[Out(p)].buf)
Near(p) == Len(hop[Out(p)].data)
Ahead(p) == Skip(Out(p) + 1)

\* How many of p's bytes are neither received nor under way.
Lost(p) ==
    sent[p] - (Got(p) + Far(p) + FarHeld(p) + (Middle(p) - Ahead(p)) + NearHeld(p) + Near(p))

\* Who ends what.
Causes(p) ==
    /\ hop[Out(p) + 1].end # "open" /\ session = "alive" => Returned(p)
    /\ Returned(p) => hop[Out(p) + 1].end # "open"
    /\ Returned(p) /\ Connected(p) => hop[In(p)].end # "open"
    /\ hop[In(p)].end # "open" => Returned(p) /\ Connected(p)
    /\ hop[In(p)].reader = "gone" => hop[Out(p)].end # "open"
    /\ hop[Out(p)].reader = "gone" => Returned(p)
    /\ ~Connected(p) => sent[p] = 0

\* Why the handler at p may return.
Reasons(p) ==
    /\ copy[Out(p)].state = "done" /\ session = "alive" /\ ~Returned(p) =>
          hop[Out(p)].end # "open" /\ hop[Out(p)].data = <<>>
    /\ copy[6 - Out(p)].state = "done" /\ session = "alive" /\ ~Returned(p) =>
          \/ Returned(Other(p)) /\ hop[6 - Out(p)].data = <<>>
          \/ Lost(Other(p)) > 0 /\ hop[Out(p)].end # "open"
    /\ Returned(p) /\ Connected(p) /\ session = "alive" /\ hop[Out(p)].end = "open" =>
          Returned(Other(p))

\* Unless the client has returned in the middle of the header.
Bounded(p) == (p = "user" /\ client = "returned" => copy[2].state # "off") => Lost(p) >= 0

\* Nothing has gone wrong that p has to answer for.
Unharmed(p) ==
    /\ session = "alive" /\ hop[Out(p)].end = "open" /\ hop[In(p)].end # "reset"
    /\ Lost(p) <= 0 /\ (Returned(p) => Connected(p))
\* All that p sent has left the handler at p, and p sends no more.
Drained(p) ==
    /\ hop[Out(p)].data = <<>> /\ copy[Out(p)].buf = <<>>
    /\ hop[Out(p)].end # "open" \/ ~Connected(p)
Account(p) ==
    Unharmed(p) =>
        /\ Lost(Other(p)) <= 0
        /\ Returned(Other(p)) => Drained(Other(p))
        /\ Returned(p) => copy[6 - Out(p)].state = "done" /\ hop[6 - Out(p)].data = <<>>

Flow == TypeOK /\ Shape /\ \A p \in Peers : Lane(p) /\ Causes(p)
IInv == Flow /\ \A p \in Peers : Reasons(p) /\ Bounded(p) /\ Account(p)
-----------------------------------------------------------------------------
(* Sequences. *)

LEMMA Lengths ==
    ASSUME NEW s \in Seq(Int)
    PROVE  Len(s) \in Nat /\ DOMAIN s = 1..Len(s) /\ \A i \in 1..Len(s) : s[i] \in Int
OBVIOUS

LEMMA Empty == <<>> \in Seq(Byte)
OBVIOUS

LEMMA Section ==
    ASSUME NEW s, NEW m \in Int, NEW n \in Int, \A i \in m..n : s[i] \in Int
    PROVE  /\ SubSeq(s, m, n) \in Seq(Int)
           /\ Len(SubSeq(s, m, n)) = IF m <= n THEN n - m + 1 ELSE 0
           /\ \A i \in 1..(n - m + 1) : SubSeq(s, m, n)[i] = s[m + i - 1]
OBVIOUS

LEMMA Joined ==
    ASSUME NEW s \in Seq(Int), NEW t \in Seq(Int)
    PROVE  s \o t \in Seq(Int) /\ Len(s \o t) = Len(s) + Len(t)
OBVIOUS

LEMMA TakenRest ==
    ASSUME NEW d \in Seq(Int), NEW n \in Nat \ {0}
    PROVE  /\ Taken(d, n) \in Seq(Int) /\ Rest(d, n) \in Seq(Int)
           /\ Len(Taken(d, n)) + Len(Rest(d, n)) = Len(d)
           /\ Len(Taken(d, n)) <= n /\ (d # <<>> => Len(Taken(d, n)) > 0)
           /\ \A i \in 1..Len(Taken(d, n)) : Taken(d, n)[i] = d[i]
           /\ \A i \in 1..Len(Rest(d, n)) : Rest(d, n)[i] = d[Len(Taken(d, n)) + i]
<1> DEFINE k == IF n < Len(d) THEN n ELSE Len(d)
           l == Len(d)
           x == SubSeq(d, 1, k)
           y == SubSeq(d, n + 1, l)
<1>1. l \in Nat /\ k \in 0..l /\ (d # <<>> => k > 0) /\ k <= n /\ (k = n \/ k = l)
  OBVIOUS
<1>2. (\A i \in 1..k : d[i] \in Int) /\ (\A i \in (n + 1)..l : d[i] \in Int)
  BY <1>1
<1>3. x \in Seq(Int) /\ Len(x) = (IF 1 <= k THEN k - 1 + 1 ELSE 0) /\ \A i \in 1..(k - 1 + 1) : x[i] = d[1 + i - 1]
  <2>1. 1 \in Int /\ k \in Int
    BY <1>1
  <2> HIDE DEF k, l
  <2>2. QED
    BY <2>1, <1>2, Section, Zenon
<1>4. y \in Seq(Int) /\ Len(y) = (IF n + 1 <= l THEN l - (n + 1) + 1 ELSE 0) /\ \A i \in 1..(l - (n + 1) + 1) : y[i] = d[n + 1 + i - 1]
  <2>1. n + 1 \in Int /\ l \in Int
    BY <1>1
  <2> HIDE DEF k, l
  <2>2. QED
    BY <2>1, <1>2, Section, Zenon
<1>5. Taken(d, n) = x /\ Rest(d, n) = y
  BY DEF Taken, Rest
<1> HIDE DEF k, l, x, y
<1>6. Len(x) = k /\ \A i \in 1..k : x[i] = d[i]
  BY <1>1, <1>3
<1>7. Len(y) = l - k
  BY <1>1, <1>4
<1>8. ASSUME NEW i \in 1..(l - k)
      PROVE  y[i] = d[k + i]
  <2>1. i \in 1..(l - (n + 1) + 1) /\ n + 1 + i - 1 = k + i
    BY <1>1
  <2>2. QED
    BY <1>4, <2>1, Zenon
<1>9. k + (l - k) = l /\ (d # <<>> => k > 0) /\ k <= n
  BY <1>1
<1>10. QED
  BY <1>3, <1>4, <1>5, <1>6, <1>7, <1>8, <1>9, Zenon DEF l

LEMMA OneByte ==
    ASSUME NEW d \in Seq(Int), d # <<>>
    PROVE  /\ Taken(d, 1) \in Seq(Int) /\ Len(Taken(d, 1)) = 1 /\ Taken(d, 1)[1] = d[1]
           /\ Rest(d, 1) \in Seq(Int) /\ 1 + Len(Rest(d, 1)) = Len(d)
           /\ \A i \in 1..Len(Rest(d, 1)) : Rest(d, 1)[i] = d[1 + i]
<1> DEFINE x == Taken(d, 1)
           y == Rest(d, 1)
<1>1. 1 \in Nat \ {0} /\ 1 \in 1..1 /\ \A i \in Nat : i <= 1 /\ i > 0 => i = 1
  OBVIOUS
<1>2. /\ x \in Seq(Int) /\ y \in Seq(Int) /\ Len(x) + Len(y) = Len(d)
      /\ Len(x) <= 1 /\ Len(x) > 0
      /\ (\A i \in 1..Len(x) : x[i] = d[i]) /\ \A i \in 1..Len(y) : y[i] = d[Len(x) + i]
  BY <1>1, TakenRest, Zenon
<1> HIDE DEF x, y
<1>3. Len(x) = 1
  BY <1>1, <1>2, Lengths, Zenon
<1>4. QED
  BY <1>1, <1>2, <1>3, Zenon DEF x, y

LEMMA ContinuesPrefix ==
    ASSUME NEW s \in Seq(Int), NEW t \in Seq(Int), NEW k \in Nat, NEW m \in Int,
           Continues(s, k, m), Len(t) <= Len(s), \A i \in 1..Len(t) : t[i] = s[i]
    PROVE  Continues(t, k, m)
<1>1. /\ DOMAIN t = 1..Len(t) /\ DOMAIN s = 1..Len(s)
      /\ \A i \in 1..Len(t) : i \in 1..Len(s)
  OBVIOUS
<1>2. QED
  BY <1>1, Zenon DEF Continues

LEMMA ContinuesRead ==
    ASSUME NEW d \in Seq(Int), NEW n \in Nat \ {0}, NEW m \in Int, Continues(d, 0, m)
    PROVE  /\ Continues(Taken(d, n), 0, m)
           /\ Continues(Rest(d, n), 0, m + Len(Taken(d, n)))
<1> DEFINE x == Taken(d, n)
           y == Rest(d, n)
           j == Len(x)
<1>1. /\ x \in Seq(Int) /\ y \in Seq(Int) /\ j + Len(y) = Len(d)
      /\ (\A i \in 1..j : x[i] = d[i]) /\ \A i \in 1..Len(y) : y[i] = d[j + i]
  BY TakenRest, Zenon
<1> HIDE DEF x, y
<1>2. Continues(x, 0, m)
  <2>1. j <= Len(d) /\ 0 \in Nat
    BY <1>1
  <2>2. QED
    BY <1>1, <2>1, ContinuesPrefix, Zenon
<1>3. j \in Nat /\ Len(y) \in Nat /\ DOMAIN y = 1..Len(y) /\ DOMAIN d = 1..Len(d)
  BY <1>1
<1> HIDE DEF j
<1>4. ASSUME NEW i \in 1..Len(y)
      PROVE  y[i] = (m + j) + (i - 0)
  <2>1. j + i \in DOMAIN d /\ j + i > 0
    BY <1>1, <1>3
  <2>2. d[j + i] = m + ((j + i) - 0)
    BY <2>1, Zenon DEF Continues
  <2>3. y[i] = d[j + i]
    BY <1>1
  <2>4. m + ((j + i) - 0) = (m + j) + (i - 0)
    BY <1>3
  <2>5. QED
    BY <2>2, <2>3, <2>4, Zenon
<1>5. Continues(y, 0, m + j)
  BY <1>3, <1>4, Zenon DEF Continues
<1>6. QED
  BY <1>2, <1>5, Zenon DEF x, y, j

LEMMA ContinuesWrite ==
    ASSUME NEW s \in Seq(Int), NEW t \in Seq(Int), NEW k \in Nat, NEW m \in Int,
           k <= Len(s), Continues(s, k, m), Continues(t, 0, m + Len(s) - k)
    PROVE  Continues(s \o t, k, m)
<1> DEFINE x == s \o t
           l == Len(s)
<1>1. /\ l \in Nat /\ Len(t) \in Nat /\ DOMAIN s = 1..l /\ DOMAIN t = 1..Len(t)
      /\ DOMAIN x = 1..(l + Len(t))
      /\ \A i \in 1..(l + Len(t)) : x[i] = IF i <= l THEN s[i] ELSE t[i - l]
  OBVIOUS
<1> HIDE DEF x, l
<1>2. ASSUME NEW i \in 1..(l + Len(t)), i > k
      PROVE  x[i] = m + (i - k)
  <2>1. CASE i <= l
    <3>1. i \in 1..l
      BY <1>1, <2>1
    <3>2. s[i] = m + (i - k)
      BY <1>1, <1>2, <3>1, Zenon DEF Continues
    <3>3. QED
      BY <1>1, <2>1, <3>2, Zenon
  <2>2. CASE ~(i <= l)
    <3>1. i - l \in 1..Len(t) /\ i - l > 0
      BY <1>1, <2>2
    <3>2. t[i - l] = m + l - k + (i - l - 0)
      BY <1>1, <3>1, Zenon DEF Continues, l
    <3>3. m + l - k + (i - l - 0) = m + (i - k)
      BY <1>1
    <3>4. QED
      BY <1>1, <2>2, <3>2, <3>3, Zenon
  <2>3. QED
    BY <2>1, <2>2
<1>3. QED
  BY <1>1, <1>2, Zenon DEF Continues, x

LEMMA ContinuesEmpty ==
    ASSUME NEW k, NEW m
    PROVE  Continues(<<>>, k, m)
BY DEF Continues

-----------------------------------------------------------------------------
(* Lanes. *)

LEMMA Shorter ==
    ASSUME NEW x \in Nat, NEW y \in Nat, x <= y, NEW s \in Nat, NEW t \in Nat, s <= t,
           NEW j \in Nat, NEW k \in Nat, j = k \/ x = 0,
           NEW m \in Int, m <= s, m + y - k <= s
    PROVE  m <= t /\ m + x - j <= t
OBVIOUS

\* Of the pieces of a lane the first parts are left: all of those that still arrive.
Trimmed(d3, b2, d2, k, b1, d1, s, n, e3, c2, e2, j, c1, e1, t, o) ==
    /\ o <= n /\ s <= t
    /\ Len(e3) <= Len(d3) /\ \A i \in 1..Len(e3) : e3[i] = d3[i]
    /\ Len(e2) <= Len(d2) /\ \A i \in 1..Len(e2) : e2[i] = d2[i]
    /\ Len(e1) <= Len(d1) /\ \A i \in 1..Len(e1) : e1[i] = d1[i]
    /\ o >= 1 => e3 = d3 /\ c2 = b2 /\ (j = k \/ (e2 = <<>> /\ o = 1))
    /\ o >= 2 => e2 = d2 /\ c1 = b1
    /\ o >= 3 => e1 = d1 /\ t = s

\* The near end of a lane is cut off, after whatever still arrives.
LEMMA LaneCut ==
    ASSUME NEW g \in Seq(Int), NEW d3 \in Seq(Int), NEW b2 \in Seq(Int), NEW d2 \in Seq(Int),
           NEW k \in Nat, NEW b1 \in Seq(Int), NEW d1 \in Seq(Int), NEW s \in Nat, NEW n \in 0..3,
           LaneOf(g, d3, b2, d2, k, b1, d1, s, n),
           NEW e3 \in Seq(Int), NEW c2 \in Seq(Int), NEW e2 \in Seq(Int),
           NEW j \in Nat, NEW c1 \in Seq(Int), NEW e1 \in Seq(Int), NEW t \in Nat, NEW o \in 0..3,
           Trimmed(d3, b2, d2, k, b1, d1, s, n, e3, c2, e2, j, c1, e1, t, o)
    PROVE  LaneOf(g, e3, c2, e2, j, c1, e1, t, o)
<1> SUFFICES ASSUME o <= n, s <= t,
                    Len(e3) <= Len(d3), \A i \in 1..Len(e3) : e3[i] = d3[i],
                    Len(e2) <= Len(d2), \A i \in 1..Len(e2) : e2[i] = d2[i],
                    Len(e1) <= Len(d1), \A i \in 1..Len(e1) : e1[i] = d1[i],
                    o >= 1 => e3 = d3 /\ c2 = b2 /\ (j = k \/ (e2 = <<>> /\ o = 1)),
                    o >= 2 => e2 = d2 /\ c1 = b1,
                    o >= 3 => e1 = d1 /\ t = s
             PROVE  LaneOf(g, e3, c2, e2, j, c1, e1, t, o)
  BY Zenon DEF Trimmed
<1> DEFINE m1 == Len(g) + Len(d3)
           m2 == m1 + Len(b2)
           m3 == m2 + Len(d2) - k
           m4 == m3 + Len(b1)
<1>1. /\ Continues(g, 0, 0) /\ Continues(d3, 0, Len(g)) /\ m1 <= s
      /\ n >= 1 => Continues(b2, 0, m1) /\ Continues(d2, k, m2) /\ m2 <= s /\ m3 <= s
      /\ n >= 2 => /\ k <= Len(d2) /\ Continues(b1, 0, m3) /\ Continues(d1, 0, m4)
                   /\ m4 + Len(d1) <= s
      /\ n >= 3 => m4 + Len(d1) = s
  BY Zenon DEF LaneOf
<1>2. /\ Len(g) \in Nat /\ Len(d3) \in Nat /\ Len(b2) \in Nat /\ Len(d2) \in Nat /\ Len(b1) \in Nat
      /\ Len(d1) \in Nat /\ Len(e3) \in Nat /\ Len(e2) \in Nat /\ Len(e1) \in Nat
  BY Lengths, Zenon
<1>3. m1 \in Int /\ m2 \in Int /\ m3 \in Int /\ m4 \in Int /\ 0 \in Nat
  BY <1>2
<1>4. Continues(e3, 0, Len(g)) /\ Len(g) + Len(e3) <= t
  <2>1. Len(g) + Len(e3) <= t /\ Len(g) \in Int
    BY <1>1, <1>2
  <2>2. QED
    BY <1>1, <1>3, <2>1, ContinuesPrefix, Zenon
<1>5. ASSUME o >= 1
      PROVE  /\ Continues(c2, 0, Len(g) + Len(e3))
             /\ Continues(e2, j, Len(g) + Len(e3) + Len(c2))
             /\ Len(g) + Len(e3) + Len(c2) <= t
             /\ Len(g) + Len(e3) + Len(c2) + Len(e2) - j <= t
  <2>1. n >= 1 /\ e3 = d3 /\ c2 = b2 /\ (j = k \/ (e2 = <<>> /\ o = 1))
    BY <1>5
  <2>2. Continues(e2, j, m2)
    BY <1>1, <1>3, <2>1, ContinuesPrefix, ContinuesEmpty, Zenon
  <2>3. m2 <= t /\ m2 + Len(e2) - j <= t
    <3>1. m2 <= s /\ m2 + Len(d2) - k <= s
      BY <1>1, <2>1, Zenon
    <3>2. j = k \/ Len(e2) = 0
      BY <2>1
    <3> HIDE DEF m2
    <3>3. QED
      BY <1>2, <1>3, <3>1, <3>2, Shorter, Zenon
  <2>4. QED
    BY <1>1, <2>1, <2>2, <2>3, Zenon
<1>6. ASSUME o >= 2
      PROVE  /\ j <= Len(e2) /\ Continues(c1, 0, Len(g) + Len(e3) + Len(c2) + Len(e2) - j)
             /\ Continues(e1, 0, Len(g) + Len(e3) + Len(c2) + Len(e2) - j + Len(c1))
             /\ Len(g) + Len(e3) + Len(c2) + Len(e2) - j + Len(c1) + Len(e1) <= t
  <2>1. n >= 2 /\ o >= 1 /\ o # 1
    BY <1>6
  <2>2. e3 = d3 /\ c2 = b2 /\ j = k /\ e2 = d2 /\ c1 = b1
    BY <1>6, <2>1, Zenon
  <2>3. Continues(e1, 0, m4)
    BY <1>1, <1>3, <2>1, ContinuesPrefix, Zenon
  <2>4. m4 + Len(e1) <= t
    <3>1. m4 + Len(d1) <= s
      BY <1>1, <2>1, Zenon
    <3> HIDE DEF m4
    <3>2. QED
      BY <1>2, <1>3, <3>1
  <2>5. QED
    BY <1>1, <2>1, <2>2, <2>3, <2>4, Zenon
<1>7. ASSUME o >= 3
      PROVE  Len(g) + Len(e3) + Len(c2) + Len(e2) - j + Len(c1) + Len(e1) = t
  <2>1. n >= 3 /\ o >= 1 /\ o >= 2 /\ o # 1
    BY <1>7
  <2>2. QED
    BY <1>1, <1>7, <2>1, Zenon
<1>8. QED
  BY <1>1, <1>4, <1>5, <1>6, <1>7, Zenon DEF LaneOf

LEMMA Halves ==
    ASSUME NEW x \in Nat, NEW y \in Nat, NEW m \in Int
    PROVE  /\ m + x + y = m + (x + y) /\ m + x + y - 0 = m + (x + y) - 0
           /\ m + x <= m + (x + y) - 0 /\ 0 <= y
           /\ m + x \in Int /\ m + (x + y) - 0 \in Int
OBVIOUS

LEMMA OneMore ==
    ASSUME NEW y \in Nat, NEW k \in Nat, NEW m \in Int
    PROVE  m + (1 + y) - k = m + y - (k - 1) /\ (k <= 1 + y => k - 1 <= y)
OBVIOUS

\* The far copy reads.
LEMMA LaneFarRead ==
    ASSUME NEW g \in Seq(Int), NEW d3 \in Seq(Int), NEW d2 \in Seq(Int),
           NEW b1 \in Seq(Int), NEW d1 \in Seq(Int), NEW s \in Nat, NEW n \in 0..3,
           LaneOf(g, d3, <<>>, d2, 0, b1, d1, s, n)
    PROVE  LaneOf(g, d3, Taken(d2, BufSize), Rest(d2, BufSize), 0, b1, d1, s, n)
<1> DEFINE x == Taken(d2, BufSize)
           y == Rest(d2, BufSize)
           m1 == Len(g) + Len(d3)
           m2 == m1 + Len(<<>>)
           m3 == m2 + Len(d2) - 0
           k2 == m1 + Len(x)
           k3 == k2 + Len(y) - 0
<1>1. /\ Continues(g, 0, 0) /\ Continues(d3, 0, Len(g)) /\ m1 <= s
      /\ n >= 1 => Continues(d2, 0, m2) /\ m2 <= s /\ m3 <= s
      /\ n >= 2 => /\ Continues(b1, 0, m3) /\ Continues(d1, 0, m3 + Len(b1))
                   /\ m3 + Len(b1) + Len(d1) <= s
      /\ n >= 3 => m3 + Len(b1) + Len(d1) = s
  BY Zenon DEF LaneOf
<1>2. x \in Seq(Int) /\ y \in Seq(Int) /\ Len(x) + Len(y) = Len(d2)
  BY TakenRest, SizesAssumption, Zenon
<1>3. Len(g) \in Nat /\ Len(d3) \in Nat /\ Len(d2) \in Nat /\ Len(x) \in Nat /\ Len(y) \in Nat
  BY <1>2, Lengths, Zenon
<1>4. m1 \in Int /\ m2 = m1
  BY <1>3
<1> HIDE DEF x, y, m1, m2
<1>5. n >= 1 => Continues(x, 0, m1) /\ Continues(y, 0, k2)
  BY <1>1, <1>4, ContinuesRead, SizesAssumption, Zenon DEF x, y
<1>6. k3 = m3 /\ k2 <= m3 /\ 0 <= Len(y) /\ k2 \in Int /\ m3 \in Int
  <2>1. /\ m1 + Len(x) + Len(y) - 0 = m1 + (Len(x) + Len(y)) - 0
        /\ m1 + Len(x) <= m1 + (Len(x) + Len(y)) - 0
        /\ 0 <= Len(y) /\ m1 + Len(x) \in Int /\ m1 + (Len(x) + Len(y)) - 0 \in Int
    BY <1>3, <1>4, Halves, Zenon
  <2>2. QED
    BY <1>2, <1>4, <2>1, Zenon
<1> HIDE DEF m3
<1>7. n >= 1 => k2 <= s /\ k3 <= s
  BY <1>1, <1>6
<1> HIDE DEF k2, k3
<1>8. n >= 2 => /\ 0 <= Len(y) /\ Continues(b1, 0, k3) /\ Continues(d1, 0, k3 + Len(b1))
                /\ k3 + Len(b1) + Len(d1) <= s
  BY <1>1, <1>6, Zenon
<1>9. n >= 3 => k3 + Len(b1) + Len(d1) = s
  BY <1>1, <1>6, Zenon
<1>10. LaneOf(g, d3, x, y, 0, b1, d1, s, n)
  BY <1>1, <1>5, <1>7, <1>8, <1>9, Zenon DEF LaneOf, m1, k2, k3
<1>11. QED
  BY <1>10, Zenon DEF x, y

\* The near copy reads.
LEMMA LaneNearRead ==
    ASSUME NEW g \in Seq(Int), NEW d3 \in Seq(Int), NEW b2 \in Seq(Int), NEW d2 \in Seq(Int),
           NEW k \in Nat, NEW d1 \in Seq(Int), NEW s \in Nat, NEW n \in 0..3,
           LaneOf(g, d3, b2, d2, k, <<>>, d1, s, n)
    PROVE  LaneOf(g, d3, b2, d2, k, Taken(d1, BufSize), Rest(d1, BufSize), s, n)
<1> DEFINE x == Taken(d1, BufSize)
           y == Rest(d1, BufSize)
           m1 == Len(g) + Len(d3)
           m2 == m1 + Len(b2)
           m3 == m2 + Len(d2) - k
<1>1. /\ Continues(g, 0, 0) /\ Continues(d3, 0, Len(g)) /\ m1 <= s
      /\ n >= 1 => Continues(b2, 0, m1) /\ Continues(d2, k, m2) /\ m2 <= s /\ m3 <= s
      /\ n >= 2 => /\ k <= Len(d2) /\ Continues(d1, 0, m3 + Len(<<>>))
                   /\ m3 + Len(<<>>) + Len(d1) <= s
      /\ n >= 3 => m3 + Len(<<>>) + Len(d1) = s
  BY Zenon DEF LaneOf
<1>2. x \in Seq(Int) /\ y \in Seq(Int) /\ Len(x) + Len(y) = Len(d1)
  BY TakenRest, SizesAssumption, Zenon
<1>3. /\ Len(g) \in Nat /\ Len(d3) \in Nat /\ Len(b2) \in Nat /\ Len(d2) \in Nat
      /\ Len(d1) \in Nat /\ Len(x) \in Nat /\ Len(y) \in Nat
  BY <1>2, Lengths, Zenon
<1>4. m3 \in Int
  BY <1>3
<1> HIDE DEF x, y, m3
<1>5. m3 + Len(<<>>) = m3
  BY <1>4
<1>6. n >= 2 => Continues(x, 0, m3) /\ Continues(y, 0, m3 + Len(x))
  BY <1>1, <1>4, <1>5, ContinuesRead, SizesAssumption, Zenon DEF x, y
<1>7. m3 + Len(x) + Len(y) = m3 + Len(d1)
  <2>1. m3 + Len(x) + Len(y) = m3 + (Len(x) + Len(y))
    BY <1>3, <1>4
  <2>2. QED
    BY <1>2, <2>1, Zenon
<1>8. n >= 2 => k <= Len(d2) /\ m3 + Len(x) + Len(y) <= s
  BY <1>1, <1>5, <1>7, Zenon
<1>9. n >= 3 => m3 + Len(x) + Len(y) = s
  BY <1>1, <1>5, <1>7, Zenon
<1>10. LaneOf(g, d3, b2, d2, k, x, y, s, n)
  BY <1>1, <1>6, <1>8, <1>9, Zenon DEF LaneOf, m3
<1>11. QED
  BY <1>10, Zenon DEF x, y

\* The far copy writes.
LEMMA LaneFarWrite ==
    ASSUME NEW g \in Seq(Int), NEW d3 \in Seq(Int), NEW b2 \in Seq(Int), NEW d2 \in Seq(Int),
           NEW b1 \in Seq(Int), NEW d1 \in Seq(Int), NEW s \in Nat, NEW n \in 1..3,
           LaneOf(g, d3, b2, d2, 0, b1, d1, s, n)
    PROVE  LaneOf(g, d3 \o b2, <<>>, d2, 0, b1, d1, s, n)
<1> DEFINE x == d3 \o b2
           m1 == Len(g) + Len(d3)
           m2 == m1 + Len(b2)
           m3 == m2 + Len(d2) - 0
           k1 == Len(g) + Len(x)
           k2 == k1 + Len(<<>>)
<1>1. x \in Seq(Int) /\ Len(x) = Len(d3) + Len(b2) /\ n >= 1
  OBVIOUS
<1>2. /\ Continues(g, 0, 0) /\ Continues(d3, 0, Len(g)) /\ Continues(b2, 0, m1)
      /\ Continues(d2, 0, m2) /\ m2 <= s /\ m3 <= s
      /\ n >= 2 => /\ 0 <= Len(d2) /\ Continues(b1, 0, m3) /\ Continues(d1, 0, m3 + Len(b1))
                   /\ m3 + Len(b1) + Len(d1) <= s
      /\ n >= 3 => m3 + Len(b1) + Len(d1) = s
  BY <1>1, Zenon DEF LaneOf
<1>3. Len(g) \in Nat /\ Len(d3) \in Nat /\ Len(b2) \in Nat
  BY Lengths, Zenon
<1>4. /\ 0 \in Nat /\ 0 <= Len(d3) /\ Len(g) \in Int /\ Len(g) + Len(d3) - 0 = m1
  BY <1>3
<1>5. Continues(x, 0, Len(g))
  BY <1>2, <1>4, ContinuesWrite, Zenon
<1> HIDE DEF x
<1>6. k1 = m2 /\ k2 = m2
  BY <1>1, <1>3
<1> HIDE DEF k1, k2, m2
<1>7. LaneOf(g, x, <<>>, d2, 0, b1, d1, s, n)
  <2>1. Continues(g, 0, 0) /\ Continues(x, 0, Len(g)) /\ k1 <= s
    BY <1>2, <1>5, <1>6, Zenon
  <2>2. Continues(<<>>, 0, k1) /\ Continues(d2, 0, k2) /\ k2 <= s /\ k2 + Len(d2) - 0 <= s
    BY <1>2, <1>6, ContinuesEmpty, Zenon
  <2>3. /\ n >= 2 => /\ 0 <= Len(d2) /\ Continues(b1, 0, k2 + Len(d2) - 0)
                     /\ Continues(d1, 0, k2 + Len(d2) - 0 + Len(b1))
                     /\ k2 + Len(d2) - 0 + Len(b1) + Len(d1) <= s
        /\ n >= 3 => k2 + Len(d2) - 0 + Len(b1) + Len(d1) = s
    BY <1>2, <1>6, Zenon
  <2>4. QED
    BY <2>1, <2>2, <2>3, Zenon DEF LaneOf, k1, k2
<1>8. QED
  BY <1>7, Zenon DEF x

\* The near copy writes.
LEMMA LaneNearWrite ==
    ASSUME NEW g \in Seq(Int), NEW d3 \in Seq(Int), NEW b2 \in Seq(Int), NEW d2 \in Seq(Int),
           NEW k \in Nat, NEW b1 \in Seq(Int), NEW d1 \in Seq(Int), NEW s \in Nat,
           NEW n \in 0..3, n # 1, LaneOf(g, d3, b2, d2, k, b1, d1, s, n)
    PROVE  LaneOf(g, d3, b2, d2 \o b1, k, <<>>, d1, s, n)
<1> DEFINE x == d2 \o b1
           m1 == Len(g) + Len(d3)
           m2 == m1 + Len(b2)
           m3 == m2 + Len(d2) - k
           m4 == m3 + Len(b1)
           k3 == m2 + Len(x) - k
           k4 == k3 + Len(<<>>)
<1>1. x \in Seq(Int) /\ Len(x) = Len(d2) + Len(b1) /\ (n >= 1 <=> n >= 2)
  OBVIOUS
<1>2. /\ Continues(g, 0, 0) /\ Continues(d3, 0, Len(g)) /\ m1 <= s
      /\ n >= 2 => /\ Continues(b2, 0, m1) /\ Continues(d2, k, m2) /\ m2 <= s /\ m3 <= s
                   /\ k <= Len(d2) /\ Continues(b1, 0, m3) /\ Continues(d1, 0, m4)
                   /\ m4 + Len(d1) <= s
      /\ n >= 3 => m4 + Len(d1) = s
  BY <1>1, Zenon DEF LaneOf
<1>3. /\ Len(g) \in Nat /\ Len(d3) \in Nat /\ Len(b2) \in Nat /\ Len(d2) \in Nat
      /\ Len(b1) \in Nat /\ Len(d1) \in Nat
  BY Lengths, Zenon
<1>4. m2 \in Int
  BY <1>3
<1>5. n >= 2 => Continues(x, k, m2)
  BY <1>2, <1>4, ContinuesWrite, Zenon
<1> HIDE DEF x, m1, m2
<1>6. k3 = m4 /\ k4 = m4 /\ m4 \in Int /\ (k <= Len(d2) => k <= Len(x))
  BY <1>1, <1>3, <1>4
<1> HIDE DEF m3, m4, k3, k4
<1>7. m4 + Len(d1) <= s => k3 <= s
  BY <1>3, <1>6
<1>8. LaneOf(g, d3, b2, x, k, <<>>, d1, s, n)
  <2>1. n >= 1 => Continues(b2, 0, m1) /\ Continues(x, k, m2) /\ m2 <= s /\ k3 <= s
    BY <1>1, <1>2, <1>5, <1>7, Zenon
  <2>2. /\ n >= 2 => k <= Len(x) /\ Continues(<<>>, 0, k3) /\ Continues(d1, 0, k4) /\ k4 + Len(d1) <= s
        /\ n >= 3 => k4 + Len(d1) = s
    BY <1>2, <1>6, ContinuesEmpty, Zenon
  <2>3. QED
    BY <1>2, <2>1, <2>2, Zenon DEF LaneOf, m1, m2, k3, k4
<1>9. QED
  BY <1>8, Zenon DEF x

\* The peer sends.
LEMMA LaneSend ==
    ASSUME NEW g \in Seq(Int), NEW d3 \in Seq(Int), NEW b2 \in Seq(Int), NEW d2 \in Seq(Int),
           NEW k \in Nat, NEW b1 \in Seq(Int), NEW d1 \in Seq(Int), NEW s \in Nat,
           NEW n \in 0..3, n # 2, LaneOf(g, d3, b2, d2, k, b1, d1, s, n), NEW l \in Nat
    PROVE  LaneOf(g, d3, b2, d2, k, b1, d1 \o [i \in 1..l |-> s + i], s + l, n)
<1> DEFINE w == [i \in 1..l |-> s + i]
           x == d1 \o w
           m1 == Len(g) + Len(d3)
           m2 == m1 + Len(b2)
           m3 == m2 + Len(d2) - k
           m4 == m3 + Len(b1)
<1>1. /\ Continues(g, 0, 0) /\ Continues(d3, 0, Len(g)) /\ m1 <= s
      /\ n >= 1 => Continues(b2, 0, m1) /\ Continues(d2, k, m2) /\ m2 <= s /\ m3 <= s
      /\ n >= 2 => /\ k <= Len(d2) /\ Continues(b1, 0, m3) /\ Continues(d1, 0, m4)
                   /\ m4 + Len(d1) <= s
      /\ n >= 3 => m4 + Len(d1) = s
  BY Zenon DEF LaneOf
<1>2. w \in Seq(Int) /\ Len(w) = l
  OBVIOUS
<1>3. Continues(w, 0, s)
  BY DEF Continues
<1>4. /\ Len(g) \in Nat /\ Len(d3) \in Nat /\ Len(b2) \in Nat /\ Len(d2) \in Nat
      /\ Len(b1) \in Nat /\ Len(d1) \in Nat
  BY Lengths, Zenon
<1> HIDE DEF w
<1>5. Len(x) = Len(d1) + l
  BY <1>2, Joined, Zenon
<1>6. m1 \in Int /\ m2 \in Int /\ m3 \in Int /\ m4 \in Int /\ (n >= 2 => n >= 3)
  BY <1>4
<1> HIDE DEF m1, m2, m3, m4
<1>7. n >= 3 => m4 + Len(x) = s + l
  <2>1. m4 + (Len(d1) + l) = (m4 + Len(d1)) + l
    BY <1>4, <1>6
  <2>2. QED
    BY <1>1, <1>5, <2>1, Zenon
<1>8. n >= 3 => Continues(x, 0, m4)
  <2>1. 0 \in Nat /\ 0 <= Len(d1) /\ m4 + Len(d1) - 0 = m4 + Len(d1)
    BY <1>4, <1>6
  <2>2. n >= 3 => n >= 2
    OBVIOUS
  <2>3. QED
    BY <1>1, <1>2, <1>3, <1>6, <2>1, <2>2, ContinuesWrite, Zenon
<1> HIDE DEF x
<1>9. /\ m1 <= s + l /\ (n >= 1 => m2 <= s + l /\ m3 <= s + l) /\ s + l <= s + l
  BY <1>1, <1>6
<1>10. LaneOf(g, d3, b2, d2, k, b1, x, s + l, n)
  <2>1. n >= 2 => k <= Len(d2) /\ Continues(b1, 0, m3) /\ Continues(x, 0, m4) /\ m4 + Len(x) <= s + l
    BY <1>1, <1>6, <1>7, <1>8, <1>9, Zenon
  <2>2. QED
    BY <1>1, <1>7, <1>9, <2>1, Zenon DEF LaneOf, m1, m2, m3, m4
<1>11. QED
  BY <1>10, Zenon DEF x, w

\* The other peer receives.
LEMMA LaneReceive ==
    ASSUME NEW g \in Seq(Int), NEW d3 \in Seq(Int), NEW b2 \in Seq(Int), NEW d2 \in Seq(Int),
           NEW k \in Nat, NEW b1 \in Seq(Int), NEW d1 \in Seq(Int), NEW s \in Nat,
           NEW n \in 0..3, LaneOf(g, d3, b2, d2, k, b1, d1, s, n), d3 # <<>>
    PROVE  LaneOf(Append(g, Head(d3)), Tail(d3), b2, d2, k, b1, d1, s, n)
<1> DEFINE x == Append(g, Head(d3))
           y == Tail(d3)
           m1 == Len(g) + Len(d3)
           k1 == Len(x) + Len(y)
<1>1. /\ Continues(g, 0, 0) /\ Continues(d3, 0, Len(g)) /\ m1 <= s
      /\ n >= 1 => /\ Continues(b2, 0, m1) /\ Continues(d2, k, m1 + Len(b2))
                   /\ m1 + Len(b2) <= s /\ m1 + Len(b2) + Len(d2) - k <= s
      /\ n >= 2 => /\ k <= Len(d2) /\ Continues(b1, 0, m1 + Len(b2) + Len(d2) - k)
                   /\ Continues(d1, 0, m1 + Len(b2) + Len(d2) - k + Len(b1))
                   /\ m1 + Len(b2) + Len(d2) - k + Len(b1) + Len(d1) <= s
      /\ n >= 3 => m1 + Len(b2) + Len(d2) - k + Len(b1) + Len(d1) = s
  BY Zenon DEF LaneOf
<1>2. /\ Len(g) \in Nat /\ DOMAIN g = 1..Len(g) /\ Len(d3) \in Nat \ {0}
      /\ DOMAIN d3 = 1..Len(d3) /\ DOMAIN y = 1..(Len(d3) - 1) /\ Len(y) = Len(d3) - 1
      /\ \A i \in 1..(Len(d3) - 1) : y[i] = d3[i + 1]
  OBVIOUS
<1>3. /\ DOMAIN x = 1..(Len(g) + 1) /\ Len(x) = Len(g) + 1
      /\ (\A i \in 1..Len(g) : x[i] = g[i]) /\ x[Len(g) + 1] = d3[1]
  OBVIOUS
<1> DEFINE a == Len(g)
           b == Len(d3)
<1>4. k1 = m1
  BY <1>2, <1>3
<1> HIDE DEF x, y, a, b
<1>5. Continues(x, 0, 0)
  <2>1. d3[1] = a + (1 - 0)
    <3>1. 1 \in DOMAIN d3 /\ 1 > 0
      BY <1>2
    <3>2. QED
      BY <1>1, <3>1, Zenon DEF Continues, a
  <2>2. ASSUME NEW i \in 1..(a + 1)
        PROVE  x[i] = 0 + (i - 0)
    <3>1. a \in Nat
      BY <1>2 DEF a
    <3>2. CASE i = a + 1
      <4>1. a + (1 - 0) = 0 + (i - 0)
        BY <3>1, <3>2
      <4>2. QED
        BY <1>3, <2>1, <3>2, <4>1, Zenon DEF a
    <3>3. CASE i # a + 1
      <4>1. i \in 1..a /\ i > 0
        BY <3>1, <3>3
      <4>2. g[i] = 0 + (i - 0)
        BY <1>1, <1>2, <4>1, Zenon DEF Continues, a
      <4>3. QED
        BY <1>3, <4>1, <4>2, Zenon DEF a
    <3>4. QED
      BY <3>2, <3>3
  <2>3. QED
    BY <1>3, <2>2, Zenon DEF Continues, a
<1>6. Continues(y, 0, Len(x))
  <2>1. ASSUME NEW i \in 1..(b - 1)
        PROVE  y[i] = (a + 1) + (i - 0)
    <3>1. a \in Nat /\ b \in Nat
      BY <1>2 DEF a, b
    <3>2. i + 1 \in 1..b /\ i + 1 > 0 /\ a + ((i + 1) - 0) = (a + 1) + (i - 0)
      BY <3>1
    <3>3. d3[i + 1] = a + ((i + 1) - 0)
      BY <1>1, <1>2, <3>2, Zenon DEF Continues, a, b
    <3>4. QED
      BY <1>2, <3>2, <3>3, Zenon DEF b
  <2>2. QED
    BY <1>2, <1>3, <2>1, Zenon DEF Continues, a, b
<1> HIDE DEF k1, m1
<1>7. LaneOf(x, y, b2, d2, k, b1, d1, s, n)
  <2>1. /\ k1 <= s
        /\ n >= 1 => /\ Continues(b2, 0, k1) /\ Continues(d2, k, k1 + Len(b2))
                     /\ k1 + Len(b2) <= s /\ k1 + Len(b2) + Len(d2) - k <= s
        /\ n >= 2 => /\ k <= Len(d2) /\ Continues(b1, 0, k1 + Len(b2) + Len(d2) - k)
                     /\ Continues(d1, 0, k1 + Len(b2) + Len(d2) - k + Len(b1))
                     /\ k1 + Len(b2) + Len(d2) - k + Len(b1) + Len(d1) <= s
        /\ n >= 3 => k1 + Len(b2) + Len(d2) - k + Len(b1) + Len(d1) = s
    BY <1>1, <1>4, Zenon
  <2>2. QED
    BY <1>5, <1>6, <2>1, Zenon DEF LaneOf, k1
<1>8. QED
  BY <1>7, Zenon DEF x, y

\* The server writes the header w.
LEMMA LaneHeader ==
    ASSUME NEW g \in Seq(Int), NEW d3 \in Seq(Int), NEW b2 \in Seq(Int),
           NEW d1 \in Seq(Int), NEW s \in Nat, NEW n \in 0..3,
           LaneOf(g, d3, b2, <<>>, 0, <<>>, d1, s, n), NEW w \in Seq(Int)
    PROVE  LaneOf(g, d3, b2, <<>> \o w, Len(w), <<>>, d1, s, n)
<1> DEFINE x == <<>> \o w
           m1 == Len(g) + Len(d3)
           m2 == m1 + Len(b2)
           m3 == m2 + Len(<<>>) - 0
           m4 == m3 + Len(<<>>)
           k3 == m2 + Len(x) - Len(w)
           k4 == k3 + Len(<<>>)
<1>1. /\ Continues(g, 0, 0) /\ Continues(d3, 0, Len(g)) /\ m1 <= s
      /\ n >= 1 => Continues(b2, 0, m1) /\ m2 <= s /\ m3 <= s
      /\ n >= 2 => Continues(d1, 0, m4) /\ m4 + Len(d1) <= s
      /\ n >= 3 => m4 + Len(d1) = s
  BY Zenon DEF LaneOf
<1>2. x = w
  OBVIOUS
<1>3. Len(g) \in Nat /\ Len(d3) \in Nat /\ Len(b2) \in Nat /\ Len(w) \in Nat /\ DOMAIN w = 1..Len(w)
  BY Lengths, Zenon
<1>4. m2 \in Int
  BY <1>3
<1>5. Continues(x, Len(w), m2)
  <2>1. \A i \in 1..Len(w) : ~(i > Len(w))
    BY <1>3
  <2>2. QED
    BY <1>2, <1>3, <2>1, Zenon DEF Continues
<1> HIDE DEF x, m1, m2
<1>6. k3 = m2 /\ m3 = m2 /\ k4 = m2 /\ m4 = m2 /\ Len(w) <= Len(x)
  BY <1>2, <1>3, <1>4
<1> HIDE DEF m3, m4, k3, k4
<1>7. LaneOf(g, d3, b2, x, Len(w), <<>>, d1, s, n)
  <2>1. n >= 1 => Continues(b2, 0, m1) /\ Continues(x, Len(w), m2) /\ m2 <= s /\ k3 <= s
    BY <1>1, <1>5, <1>6, Zenon
  <2>2. /\ n >= 2 => /\ Len(w) <= Len(x) /\ Continues(<<>>, 0, k3) /\ Continues(d1, 0, k4)
                     /\ k4 + Len(d1) <= s
        /\ n >= 3 => k4 + Len(d1) = s
    BY <1>1, <1>6, ContinuesEmpty, Zenon
  <2>3. QED
    BY <1>1, <2>1, <2>2, Zenon DEF LaneOf, m1, m2, k3, k4
<1>8. QED
  BY <1>7, Zenon DEF x

\* The client reads a byte of the header.
LEMMA LaneHeaderRead ==
    ASSUME NEW g \in Seq(Int), NEW d3 \in Seq(Int), NEW b2 \in Seq(Int), NEW d2 \in Seq(Int),
           NEW k \in Nat \ {0}, NEW b1 \in Seq(Int), NEW d1 \in Seq(Int), NEW s \in Nat,
           NEW n \in 0..3, LaneOf(g, d3, b2, d2, k, b1, d1, s, n), d2 # <<>>
    PROVE  LaneOf(g, d3, b2, Rest(d2, 1), k - 1, b1, d1, s, n)
<1> DEFINE y == Rest(d2, 1)
           m1 == Len(g) + Len(d3)
           m2 == m1 + Len(b2)
           m3 == m2 + Len(d2) - k
           k3 == m2 + Len(y) - (k - 1)
<1>1. /\ Continues(g, 0, 0) /\ Continues(d3, 0, Len(g)) /\ m1 <= s
      /\ n >= 1 => Continues(b2, 0, m1) /\ Continues(d2, k, m2) /\ m2 <= s /\ m3 <= s
      /\ n >= 2 => /\ k <= Len(d2) /\ Continues(b1, 0, m3) /\ Continues(d1, 0, m3 + Len(b1))
                   /\ m3 + Len(b1) + Len(d1) <= s
      /\ n >= 3 => m3 + Len(b1) + Len(d1) = s
  BY Zenon DEF LaneOf
<1>2. /\ y \in Seq(Int) /\ 1 + Len(y) = Len(d2)
      /\ \A i \in 1..Len(y) : y[i] = d2[1 + i]
  BY OneByte, Zenon
<1>3. /\ Len(g) \in Nat /\ Len(d3) \in Nat /\ Len(b2) \in Nat /\ Len(d2) \in Nat /\ Len(y) \in Nat
      /\ DOMAIN y = 1..Len(y) /\ DOMAIN d2 = 1..Len(d2)
  BY <1>2, Lengths, Zenon
<1>4. m2 \in Int
  BY <1>3
<1> HIDE DEF y, m1, m2
<1>5. k3 = m3 /\ (k <= Len(d2) => k - 1 <= Len(y))
  <2>1. m2 + (1 + Len(y)) - k = k3 /\ (k <= 1 + Len(y) => k - 1 <= Len(y))
    BY <1>3, <1>4, OneMore, Zenon
  <2>2. QED
    BY <1>2, <2>1, Zenon
<1>6. n >= 1 => Continues(y, k - 1, m2)
  <2>1. ASSUME n >= 1, NEW i \in 1..Len(y), i > k - 1
        PROVE  y[i] = m2 + (i - (k - 1))
    <3>1. 1 + i \in DOMAIN d2 /\ 1 + i > k /\ m2 + ((1 + i) - k) = m2 + (i - (k - 1))
      BY <1>2, <1>3, <1>4, <2>1
    <3>2. d2[1 + i] = m2 + ((1 + i) - k)
      BY <1>1, <2>1, <3>1, Zenon DEF Continues
    <3>3. QED
      BY <1>2, <3>1, <3>2, Zenon
  <2>2. QED
    BY <1>3, <2>1, Zenon DEF Continues
<1> HIDE DEF m3, k3
<1>7. LaneOf(g, d3, b2, y, k - 1, b1, d1, s, n)
  <2>1. n >= 1 => Continues(b2, 0, m1) /\ Continues(y, k - 1, m2) /\ m2 <= s /\ k3 <= s
    BY <1>1, <1>5, <1>6, Zenon
  <2>2. /\ n >= 2 => /\ k - 1 <= Len(y) /\ Continues(b1, 0, k3) /\ Continues(d1, 0, k3 + Len(b1))
                     /\ k3 + Len(b1) + Len(d1) <= s
        /\ n >= 3 => k3 + Len(b1) + Len(d1) = s
    BY <1>1, <1>5, Zenon
  <2>3. QED
    BY <1>1, <2>1, <2>2, Zenon DEF LaneOf, m1, m2, k3
<1>8. QED
  BY <1>7, Zenon DEF y

-----------------------------------------------------------------------------
(* Hops. *)

\* The hop y holds a first part of what x held, and takes no byte that x did not.
Cut(x, y) ==
    /\ Len(y.data) <= Len(x.data) /\ \A i \in 1..Len(y.data) : y.data[i] = x.data[i]
    /\ y.end = "open" /\ y.reader = "there" => y = x
    /\ x.end # "open" => y.end # "open"
    /\ x.end = "reset" => y.end = "reset"
    /\ x.reader = "gone" => y.reader = "gone"

LEMMA CutSame ==
    ASSUME NEW x \in Hop
    PROVE  Cut(x, x)
BY DEF Cut, Hop

LEMMA ResetCuts ==
    ASSUME NEW x \in Hop, NEW y \in Reset(x)
    PROVE  /\ y \in Hop /\ Cut(x, y) /\ y.end = "reset" /\ y.reader = x.reader
<1>1. PICK n \in 0..Len(x.data) : y = [x EXCEPT !.data = SubSeq(x.data, 1, n), !.end = "reset"]
  BY Zenon DEF Reset
<1>2. /\ x.data \in Seq(Int) /\ SubSeq(x.data, 1, n) \in Seq(Int)
      /\ Len(SubSeq(x.data, 1, n)) = n /\ \A i \in 1..n : SubSeq(x.data, 1, n)[i] = x.data[i]
  BY Section DEF Hop, Byte
<1>3. /\ y.data = SubSeq(x.data, 1, n) /\ y.end = "reset" /\ y.reader = x.reader
      /\ y \in Hop
  BY <1>1, <1>2, Zenon DEF Hop, Byte
<1>4. QED
  BY <1>2, <1>3 DEF Cut

LEMMA ClosedCuts ==
    ASSUME NEW f \in [Hops -> Hop], NEW h \in Hops, NEW g \in Closed(f, h)
    PROVE  /\ g \in [Hops -> Hop]
           /\ \A k \in Hops \ {h, 7 - h} : g[k] = f[k]
           /\ Cut(f[h], g[h]) /\ g[h].end # "open" /\ g[h].reader = f[h].reader
           /\ f[h].end # "open" => g[h] = f[h]
           /\ f[7 - h].data = <<>> \/ g[h].end # "reset" => g[h].data = f[h].data
           /\ Cut(f[7 - h], g[7 - h]) /\ g[7 - h].data = <<>> /\ g[7 - h].reader = "gone"
           /\ g[7 - h].end = f[7 - h].end
<1> DEFINE r == [f[7 - h] EXCEPT !.data = <<>>, !.reader = "gone"]
           ws == IF f[h].end # "open" THEN {f[h]}
                 ELSE IF f[7 - h].data = <<>> THEN {[f[h] EXCEPT !.end = "fin"]}
                 ELSE Reset(f[h])
<1>1. PICK w \in ws : g = [f EXCEPT ![h] = w, ![7 - h] = r]
  BY Zenon DEF Closed
<1>2. 7 - h \in Hops /\ 7 - h # h /\ f[h] \in Hop /\ f[7 - h] \in Hop
  BY DEF Hops
<1>3. /\ w \in Hop /\ Cut(f[h], w) /\ w.end # "open" /\ w.reader = f[h].reader
      /\ f[h].end # "open" => w = f[h]
      /\ f[7 - h].data = <<>> \/ w.end # "reset" => w.data = f[h].data
  <2>1. CASE f[h].end # "open"
    <3>1. ws = {f[h]}
      BY <2>1
    <3>2. QED
      BY <1>1, <1>2, <2>1, <3>1, CutSame, Zenon
  <2>2. CASE f[h].end = "open" /\ f[7 - h].data = <<>>
    <3>1. w = [f[h] EXCEPT !.end = "fin"]
      BY <2>2, Zenon
    <3>2. w \in Hop /\ w.data = f[h].data /\ w.end = "fin" /\ w.reader = f[h].reader
      BY <1>2, <3>1, Zenon DEF Hop
    <3>3. Cut(f[h], w)
      BY <1>2, <2>2, <3>2 DEF Cut, Hop
    <3>4. QED
      BY <2>2, <3>2, <3>3, Zenon
  <2>3. CASE f[h].end = "open" /\ f[7 - h].data # <<>>
    <3>1. w \in Reset(f[h])
      BY <2>3, Zenon
    <3>2. QED
      BY <1>2, <2>3, <3>1, ResetCuts, Zenon
  <2>4. QED
    BY <2>1, <2>2, <2>3, Zenon
<1>4. /\ r \in Hop /\ r.data = <<>> /\ r.reader = "gone" /\ r.end = f[7 - h].end
  <2>1. <<>> \in Seq(Byte)
    OBVIOUS
  <2> DEFINE x == f[7 - h]
  <2>2. x \in Hop
    BY <1>2
  <2> HIDE DEF x
  <2>3. LET q == [x EXCEPT !.data = <<>>, !.reader = "gone"]
        IN  q \in Hop /\ q.data = <<>> /\ q.reader = "gone" /\ q.end = x.end
    BY <2>1, <2>2 DEF Hop
  <2>4. QED
    BY <2>3, Zenon DEF x
<1> HIDE DEF r, ws
<1>5. Cut(f[7 - h], r)
  BY <1>2, <1>4 DEF Cut, Hop
<1>6. g[h] = w /\ g[7 - h] = r /\ g \in [Hops -> Hop] /\ \A k \in Hops \ {h, 7 - h} : g[k] = f[k]
  BY <1>1, <1>2, <1>3, <1>4, Zenon
<1>7. QED
  BY <1>3, <1>4, <1>5, <1>6, Zenon

LEMMA StreamClosedCuts ==
    ASSUME NEW f \in [Hops -> Hop], NEW h \in Hops
    PROVE  /\ StreamClosed(f, h) \in [Hops -> Hop]
           /\ \A k \in Hops \ {h} : StreamClosed(f, h)[k] = f[k]
           /\ Cut(f[h], StreamClosed(f, h)[h]) /\ StreamClosed(f, h)[h].end # "open"
           /\ StreamClosed(f, h)[h].data = f[h].data /\ StreamClosed(f, h)[h].reader = f[h].reader
<1>1. CASE f[h].end # "open"
  <2>1. StreamClosed(f, h) = f
    BY <1>1, Zenon DEF StreamClosed
  <2>2. QED
    BY <1>1, <2>1, CutSame
<1>2. CASE f[h].end = "open"
  <2> DEFINE w == [f[h] EXCEPT !.end = "fin"]
  <2>1. StreamClosed(f, h) = [f EXCEPT ![h] = w]
    BY <1>2, Zenon DEF StreamClosed
  <2>2. w \in Hop /\ w.data = f[h].data /\ w.end = "fin" /\ w.reader = f[h].reader
    BY Zenon DEF Hop
  <2> HIDE DEF w
  <2>3. Cut(f[h], w)
    BY <1>2, <2>2 DEF Cut, Hop
  <2>4. QED
    BY <2>1, <2>2, <2>3, Zenon
<1>3. QED
  BY <1>1, <1>2, Zenon

\* The hops around p: its lane and the one towards it.
LEMMA Around ==
    ASSUME NEW p \in Peers
    PROVE  /\ Out(p) \in {1, 4} /\ In(p) = 7 - Out(p) /\ Other(p) \in Peers /\ Other(p) # p
           /\ Other(Other(p)) = p /\ Out(Other(p)) = 5 - Out(p) /\ In(Other(p)) = Out(p) + 2
           /\ (p = "user" <=> Out(p) = 1)
BY DEF Peers, Out, In, Other

LEMMA Places ==
    ASSUME NEW p \in Peers
    PROVE  /\ Out(p) \in Hops /\ Out(p) + 1 \in Hops /\ Out(p) + 2 \in Hops
           /\ 5 - Out(p) \in Hops /\ 6 - Out(p) \in Hops /\ 7 - Out(p) \in Hops /\ In(p) \in Hops
           /\ Out(p) \in Copies /\ Out(p) + 1 \in Copies
           /\ 5 - Out(p) \in Copies /\ 6 - Out(p) \in Copies
           /\ Out(p) + 1 # Out(p) /\ Out(p) + 2 # Out(p) /\ Out(p) + 2 # Out(p) + 1
           /\ (Out(p) + 1) + 1 = Out(p) + 2
           /\ \A x \in {Out(p), Out(p) + 1, Out(p) + 2} :
                 x # 5 - Out(p) /\ x # 6 - Out(p) /\ x # 7 - Out(p)
BY Around DEF Hops, Copies

LEMMA Across ==
    ASSUME NEW p \in Peers
    PROVE  /\ Out(Other(p)) + 1 = 6 - Out(p) /\ Out(Other(p)) + 2 = In(p)
           /\ 6 - Out(Other(p)) = Out(p) + 1 /\ In(Other(p)) = Out(p) + 2
           /\ 6 - (6 - Out(p)) = Out(p) /\ (6 - Out(p)) + 1 = In(p)
           /\ Out(p) + 1 \in {2, 5} /\ 6 - Out(p) \in {2, 5}
           /\ Other(p) = "user" \/ p = "user"
           /\ (Other(p) = "backend" <=> p = "user") /\ (p = "backend" <=> Other(p) = "user")
BY DEF Peers, Out, In, Other

LEMMA CopyPlaces ==
    ASSUME NEW c \in Copies, NEW p \in Peers
    PROVE  /\ c \in {Out(p), Out(p) + 1, 5 - Out(p), 6 - Out(p)}
           /\ c \in Hops /\ c + 1 \in Hops /\ 6 - c \in Hops /\ c # Out(p) + 2
           /\ c \notin {Out(p), Out(p) + 1} => c + 1 \notin {Out(p), Out(p) + 1, Out(p) + 2}
BY Around DEF Hops, Copies

LEMMA Six ==
    /\ 1 \in Hops /\ 2 \in Hops /\ 3 \in Hops /\ 4 \in Hops /\ 5 \in Hops /\ 6 \in Hops
    /\ 1 \in Copies /\ 2 \in Copies /\ 4 \in Copies /\ 5 \in Copies
    /\ 1 # 2 /\ 3 # 2 /\ 4 # 2 /\ 5 # 2 /\ 6 # 2 /\ 1 # 5 /\ 2 # 5 /\ 4 # 5
BY DEF Hops, Copies

LEMMA DepthRange == \A p : Depth(p) \in 0..3
BY DEF Depth

LEMMA DepthRangeNext == \A p : Depth(p)' \in 0..3
BY DEF Depth

LEMMA NoLess == \A m, n \in Nat : m <= m /\ m <= m + n
OBVIOUS

\* The handler at p closes its stream and its connection.
Leaves(p) == hop' \in Closed(StreamClosed(hop, Out(p) + 1), In(p))

LEMMA Leaving ==
    ASSUME TypeOK, NEW p \in Peers, Leaves(p)
    PROVE  /\ hop' \in [Hops -> Hop]
           /\ \A h \in Hops : Cut(hop[h], hop'[h])
           /\ hop'[Out(p) + 1].end # "open" /\ hop'[Out(p) + 1].data = hop[Out(p) + 1].data
           /\ hop'[Out(p) + 1].reader = hop[Out(p) + 1].reader
           /\ hop'[Out(p) + 2] = hop[Out(p) + 2] /\ hop'[5 - Out(p)] = hop[5 - Out(p)]
           /\ hop'[6 - Out(p)] = hop[6 - Out(p)]
           /\ hop'[7 - Out(p)].end # "open" /\ hop'[7 - Out(p)].reader = hop[7 - Out(p)].reader
           /\ hop'[7 - Out(p)].end # "reset" => hop'[7 - Out(p)].data = hop[7 - Out(p)].data
           /\ hop'[Out(p)].data = <<>> /\ hop'[Out(p)].reader = "gone"
           /\ hop'[Out(p)].end = hop[Out(p)].end
<1> DEFINE a == Out(p)
           f == StreamClosed(hop, a + 1)
<1>1. a \in {1, 4} /\ In(p) = 7 - a /\ hop \in [Hops -> Hop]
  BY Around, Zenon DEF TypeOK
<1>2. hop' \in Closed(f, 7 - a)
  BY <1>1, Zenon DEF Leaves
<1> HIDE DEF a
<1>3. /\ a \in Hops /\ a + 1 \in Hops /\ a + 2 \in Hops /\ 7 - (7 - a) = a
      /\ 5 - a \in Hops /\ 6 - a \in Hops /\ 7 - a \in Hops
      /\ Hops = {a, a + 1, a + 2, 5 - a, 6 - a, 7 - a}
      /\ a + 1 # a /\ a + 1 # 7 - a /\ a + 2 # a + 1 /\ 5 - a # a + 1 /\ 6 - a # a + 1
      /\ a + 2 \notin {a, 7 - a} /\ 5 - a \notin {a, 7 - a} /\ 6 - a \notin {a, 7 - a}
  BY <1>1 DEF Hops
<1>4. /\ f \in [Hops -> Hop] /\ \A k \in Hops \ {a + 1} : f[k] = hop[k]
      /\ Cut(hop[a + 1], f[a + 1]) /\ f[a + 1].end # "open"
      /\ f[a + 1].data = hop[a + 1].data /\ f[a + 1].reader = hop[a + 1].reader
  BY <1>1, <1>3, StreamClosedCuts, Zenon
<1> HIDE DEF f
<1>5. /\ hop' \in [Hops -> Hop]
      /\ \A k \in Hops \ {7 - a, a} : hop'[k] = f[k]
      /\ Cut(f[7 - a], hop'[7 - a]) /\ hop'[7 - a].end # "open" /\ hop'[7 - a].reader = f[7 - a].reader
      /\ hop'[7 - a].end # "reset" => hop'[7 - a].data = f[7 - a].data
      /\ Cut(f[a], hop'[a]) /\ hop'[a].data = <<>> /\ hop'[a].reader = "gone"
      /\ hop'[a].end = f[a].end
  <2> DEFINE h == 7 - a
  <2>1. hop' \in Closed(f, h) /\ h \in Hops /\ f \in [Hops -> Hop]
    BY <1>2, <1>3, <1>4, Zenon DEF f
  <2>2. 7 - h = a
    BY <1>3
  <2> HIDE DEF h
  <2>3. /\ hop' \in [Hops -> Hop]
        /\ \A k \in Hops \ {h, 7 - h} : hop'[k] = f[k]
        /\ Cut(f[h], hop'[h]) /\ hop'[h].end # "open" /\ hop'[h].reader = f[h].reader
        /\ f[7 - h].data = <<>> \/ hop'[h].end # "reset" => hop'[h].data = f[h].data
        /\ Cut(f[7 - h], hop'[7 - h]) /\ hop'[7 - h].data = <<>> /\ hop'[7 - h].reader = "gone"
        /\ hop'[7 - h].end = f[7 - h].end
    BY <2>1, ClosedCuts, Zenon
  <2>4. QED
    BY <2>2, <2>3, Zenon DEF h
<1>6. f[a] = hop[a] /\ f[7 - a] = hop[7 - a]
  BY <1>3, <1>4, Zenon
<1>7. /\ hop'[a + 1] = f[a + 1] /\ hop'[a + 2] = hop[a + 2] /\ hop'[5 - a] = hop[5 - a]
      /\ hop'[6 - a] = hop[6 - a]
  BY <1>3, <1>4, <1>5, Zenon
<1>8. \A h \in Hops : Cut(hop[h], hop'[h])
  <2>1. Cut(hop[a + 2], hop'[a + 2]) /\ Cut(hop[5 - a], hop'[5 - a]) /\ Cut(hop[6 - a], hop'[6 - a])
    BY <1>1, <1>3, <1>7, CutSame, Zenon
  <2>2. Cut(hop[a], hop'[a]) /\ Cut(hop[a + 1], hop'[a + 1]) /\ Cut(hop[7 - a], hop'[7 - a])
    BY <1>4, <1>5, <1>6, <1>7, Zenon
  <2>3. QED
    BY <2>1, <2>2, <1>3, Zenon
<1>9. QED
  BY <1>4, <1>5, <1>6, <1>7, <1>8, Zenon DEF a

\* A write to a hop.
LEMMA Writing ==
    ASSUME TypeOK, NEW h \in Hops, NEW b \in Seq(Int), hop' \in Written(h, b)
    PROVE  /\ hop' \in [Hops -> Hop]
           /\ \A k \in Hops \ {h, 7 - h} : hop'[k] = hop[k]
           /\ hop[h].reader = "gone" =>
                 /\ hop'[h] = hop[h] /\ Cut(hop[7 - h], hop'[7 - h])
                 /\ hop'[7 - h].end = "reset" /\ hop'[7 - h].reader = hop[7 - h].reader
           /\ hop[h].reader = "there" =>
                 /\ hop'[7 - h] = hop[7 - h] /\ hop'[h].data = hop[h].data \o b
                 /\ hop'[h].end = hop[h].end /\ hop'[h].reader = hop[h].reader
<1>1. hop \in [Hops -> Hop] /\ 7 - h \in Hops /\ 7 - h # h /\ hop[h] \in Hop /\ hop[7 - h] \in Hop
  BY DEF TypeOK, Hops
<1>2. CASE hop[h].reader = "gone"
  <2>1. PICK x \in Reset(hop[7 - h]) : hop' = [hop EXCEPT ![7 - h] = x]
    BY <1>2, Zenon DEF Written
  <2>2. x \in Hop /\ Cut(hop[7 - h], x) /\ x.end = "reset" /\ x.reader = hop[7 - h].reader
    BY <1>1, <2>1, ResetCuts, Zenon
  <2>3. QED
    BY <1>1, <1>2, <2>1, <2>2, Zenon
<1>3. CASE hop[h].reader = "there"
  <2> DEFINE x == [hop[h] EXCEPT !.data = hop[h].data \o b]
  <2>1. hop' = [hop EXCEPT ![h] = x]
    BY <1>1, <1>3, Zenon DEF Written
  <2>2. x \in Hop /\ x.data = hop[h].data \o b /\ x.end = hop[h].end /\ x.reader = hop[h].reader
    <3> DEFINE y == hop[h].data \o b
               r == hop[h]
    <3>1. y \in Seq(Byte)
      BY <1>1 DEF Hop, Byte
    <3> HIDE DEF y, r
    <3>2. LET q == [r EXCEPT !.data = y]
          IN  r \in Hop => q \in Hop /\ q.data = y /\ q.end = r.end /\ q.reader = r.reader
      BY <3>1 DEF Hop
    <3>3. QED
      BY <1>1, <3>2, Zenon DEF y, r
  <2> HIDE DEF x
  <2>3. QED
    BY <1>1, <1>3, <2>1, <2>2, Zenon
<1>4. QED
  BY <1>1, <1>2, <1>3, Zenon DEF Hop

-----------------------------------------------------------------------------
(* The state of a lane. *)

LEMMA Parts ==
    ASSUME TypeOK, NEW p \in Peers
    PROVE  /\ hop[Out(p)] \in Hop /\ hop[Out(p) + 1] \in Hop /\ hop[Out(p) + 2] \in Hop
           /\ hop[Out(p)].data \in Seq(Int) /\ hop[Out(p) + 1].data \in Seq(Int)
           /\ hop[Out(p) + 2].data \in Seq(Int)
           /\ copy[Out(p)].buf \in Seq(Int) /\ copy[Out(p) + 1].buf \in Seq(Int)
           /\ got[Other(p)] \in Seq(Int) /\ sent[p] \in Nat
<1>1. /\ Out(p) \in Hops /\ Out(p) + 1 \in Hops /\ Out(p) + 2 \in Hops
      /\ Out(p) \in Copies /\ Out(p) + 1 \in Copies
  BY DEF Out, Hops, Copies
<1>2. \A h \in Hops : hop[h] \in Hop /\ hop[h].data \in Seq(Int)
  BY DEF TypeOK, Hop, Byte
<1>3. \A c \in Copies : copy[c].buf \in Seq(Int)
  BY DEF TypeOK, Copy, Byte
<1>4. got[Other(p)] \in Seq(Int)
  BY Around DEF TypeOK, Byte
<1>5. sent[p] \in Nat
  BY SizesAssumption DEF TypeOK
<1>6. QED
  BY <1>1, <1>2, <1>3, <1>4, <1>5, Zenon

LEMMA PartsNext ==
    ASSUME TypeOK', NEW p \in Peers
    PROVE  /\ hop'[Out(p)] \in Hop /\ hop'[Out(p) + 1] \in Hop /\ hop'[Out(p) + 2] \in Hop
           /\ hop'[Out(p)].data \in Seq(Int) /\ hop'[Out(p) + 1].data \in Seq(Int)
           /\ hop'[Out(p) + 2].data \in Seq(Int)
           /\ copy'[Out(p)].buf \in Seq(Int) /\ copy'[Out(p) + 1].buf \in Seq(Int)
           /\ got'[Other(p)] \in Seq(Int) /\ sent'[p] \in Nat
<1>1. /\ Out(p) \in Hops /\ Out(p) + 1 \in Hops /\ Out(p) + 2 \in Hops
      /\ Out(p) \in Copies /\ Out(p) + 1 \in Copies
  BY DEF Out, Hops, Copies
<1>2. \A h \in Hops : hop'[h] \in Hop /\ hop'[h].data \in Seq(Int)
  BY DEF TypeOK, Hop, Byte
<1>3. \A c \in Copies : copy'[c].buf \in Seq(Int)
  BY DEF TypeOK, Copy, Byte
<1>4. got'[Other(p)] \in Seq(Int)
  BY Around DEF TypeOK, Byte
<1>5. sent'[p] \in Nat
  BY SizesAssumption DEF TypeOK
<1>6. QED
  BY <1>1, <1>2, <1>3, <1>4, <1>5, Zenon

LEMMA SkipType ==
    ASSUME TypeOK, Shape, NEW h \in Hops
    PROVE  Skip(h) \in Nat
BY SizesAssumption DEF TypeOK, Shape, Skip

LEMMA SkipTypeNext ==
    ASSUME TypeOK', Shape', NEW h \in Hops
    PROVE  Skip(h)' \in Nat
<1>1. address' \in Nat /\ header' \in Nat
  BY SizesAssumption DEF TypeOK
<1>2. client' = "header" => header' <= address'
  BY Zenon DEF Shape
<1>3. \A i, j \in Nat : i <= j => j + 1 - i \in Nat
  OBVIOUS
<1>4. 0 \in Nat
  OBVIOUS
<1>5. QED
  BY <1>1, <1>2, <1>3, <1>4, Zenon DEF Skip

\* Bytes are cut off at the end of the lane's hops, or dropped where they do not
\* arrive any more.
LEMMA LaneCuts ==
    ASSUME TypeOK, Shape, TypeOK', Shape', NEW p \in Peers, Lane(p),
           Cut(hop[Out(p)], hop'[Out(p)]), Cut(hop[Out(p) + 1], hop'[Out(p) + 1]),
           Cut(hop[Out(p) + 2], hop'[Out(p) + 2]),
           got'[Other(p)] = got[Other(p)], sent[p] <= sent'[p],
           client = "returned" => client' = "returned",
           Depth(p)' >= 1 =>
               /\ copy'[Out(p) + 1].buf = copy[Out(p) + 1].buf
               /\ \/ Skip(Out(p) + 1)' = Skip(Out(p) + 1)
                  \/ hop'[Out(p) + 1].data = <<>> /\ Depth(p)' = 1,
           Depth(p)' >= 2 => copy'[Out(p)].buf = copy[Out(p)].buf,
           Depth(p)' >= 3 => sent'[p] = sent[p]
    PROVE  Lane(p)'
<1> DEFINE a == Out(p)
<1>1. a \in {1, 4} /\ a + 1 \in Hops
  BY Around, Places, Zenon
<1>2. Skip(a + 1) \in Nat /\ Skip(a + 1)' \in Nat
  BY <1>1, SkipType, SkipTypeNext, Zenon
<1>3. Depth(p) \in 0..3 /\ Depth(p)' \in 0..3
  BY DepthRange, DepthRangeNext, Zenon
<1>4. /\ Depth(p)' <= Depth(p)
      /\ Depth(p)' >= 1 => hop'[a + 2] = hop[a + 2]
      /\ Depth(p)' >= 2 => hop'[a + 1] = hop[a + 1]
      /\ Depth(p)' >= 3 => hop'[a] = hop[a]
  BY DEF Depth, Flows, Cut
<1>5. LaneOf(got[Other(p)], hop[a + 2].data, copy[a + 1].buf, hop[a + 1].data,
             Skip(a + 1), copy[a].buf, hop[a].data, sent[p], Depth(p))
  BY Zenon DEF Lane
<1>6. /\ Len(hop'[a + 2].data) <= Len(hop[a + 2].data)
      /\ \A i \in 1..Len(hop'[a + 2].data) : hop'[a + 2].data[i] = hop[a + 2].data[i]
      /\ Len(hop'[a + 1].data) <= Len(hop[a + 1].data)
      /\ \A i \in 1..Len(hop'[a + 1].data) : hop'[a + 1].data[i] = hop[a + 1].data[i]
      /\ Len(hop'[a].data) <= Len(hop[a].data)
      /\ \A i \in 1..Len(hop'[a].data) : hop'[a].data[i] = hop[a].data[i]
  BY Zenon DEF Cut
<1>7. /\ Depth(p)' >= 1 =>
            /\ hop'[a + 2].data = hop[a + 2].data /\ copy'[a + 1].buf = copy[a + 1].buf
            /\ Skip(a + 1)' = Skip(a + 1) \/ (hop'[a + 1].data = <<>> /\ Depth(p)' = 1)
      /\ Depth(p)' >= 2 => hop'[a + 1].data = hop[a + 1].data /\ copy'[a].buf = copy[a].buf
      /\ Depth(p)' >= 3 => hop'[a].data = hop[a].data /\ sent'[p] = sent[p]
  BY <1>4, Zenon
<1>8. /\ hop[a].data \in Seq(Int) /\ hop[a + 1].data \in Seq(Int)
      /\ hop[a + 2].data \in Seq(Int)
      /\ copy[a].buf \in Seq(Int) /\ copy[a + 1].buf \in Seq(Int)
      /\ got[Other(p)] \in Seq(Int) /\ sent[p] \in Nat
  BY Parts, Zenon
<1>9. /\ hop'[a].data \in Seq(Int) /\ hop'[a + 1].data \in Seq(Int)
      /\ hop'[a + 2].data \in Seq(Int)
      /\ copy'[a].buf \in Seq(Int) /\ copy'[a + 1].buf \in Seq(Int)
      /\ sent'[p] \in Nat
  BY PartsNext, Zenon
<1> HIDE DEF a
<1>10. Depth(p)' <= Depth(p)
  BY <1>4, Zenon
<1>11. Trimmed(hop[a + 2].data, copy[a + 1].buf, hop[a + 1].data, Skip(a + 1), copy[a].buf,
               hop[a].data, sent[p], Depth(p),
               hop'[a + 2].data, copy'[a + 1].buf, hop'[a + 1].data, Skip(a + 1)', copy'[a].buf,
               hop'[a].data, sent'[p], Depth(p)')
  BY <1>6, <1>7, <1>10, Zenon DEF Trimmed
<1>12. LaneOf(got[Other(p)], hop'[a + 2].data, copy'[a + 1].buf, hop'[a + 1].data,
             Skip(a + 1)', copy'[a].buf, hop'[a].data, sent'[p], Depth(p)')
  BY <1>2, <1>3, <1>5, <1>8, <1>9, <1>11, LaneCut, ZenonT(60)
<1>13. QED
  BY <1>12, Zenon DEF Lane, a

-----------------------------------------------------------------------------
(* The steps, by what they do to the hops and the copies. *)

SameHops(hs) == hop' \in [Hops -> Hop] /\ \A h \in Hops \ hs : hop'[h] = hop[h]
SameCopies(cs) == copy' \in [Copies -> Copy] /\ \A c \in Copies \ cs : copy'[c] = copy[c]

\* The handler at p returns.
Return(p) ==
    /\ Leaves(p) /\ Connected(p) /\ ~Returned(p)
    /\ \/ p = "user" /\ server' = "returned" /\ UNCHANGED client
       \/ p = "backend" /\ client = "piping" /\ client' = "returned" /\ UNCHANGED server
    /\ \/ copy[Out(p)].state = "done" \/ copy[6 - Out(p)].state = "done"
       \/ p = "user" /\ server = "header" /\ hop[2].end # "open"
    /\ UNCHANGED <<address, header, copy, sent, got, session>>

\* The client returns without a connection.
GiveUp ==
    /\ client \in {"header", "dial"} /\ client' = "returned" /\ header' \in 0..(MaxHeader + 1)
    /\ server = "header" => hop[2].end # "open" /\ UNCHANGED header
    /\ SameHops({5}) /\ Cut(hop[5], hop'[5]) /\ hop'[5].end # "open"
    /\ hop'[5].data = hop[5].data /\ hop'[5].reader = hop[5].reader
    /\ UNCHANGED <<address, server, copy, sent, got, session>>

HeaderSent ==
    /\ server = "header" /\ server' = "piping" /\ hop[2].end = "open"
    /\ hop'[2].data = <<>> \o Header /\ hop'[2].end = "open" /\ hop'[2].reader = "there"
    /\ SameHops({2}) /\ SameCopies({1, 5})
    /\ \A c \in {1, 5} : copy'[c].state = "on" /\ copy'[c].buf = copy[c].buf
    /\ UNCHANGED <<address, client, header, sent, got, session>>

HeaderByte ==
    /\ client = "header" /\ server # "header" /\ hop[2].data # <<>>
    /\ hop'[2].data = Rest(hop[2].data, 1) /\ hop'[2].end = hop[2].end
    /\ hop'[2].reader = hop[2].reader /\ SameHops({2})
    /\ \/ Skip(2) = 1 /\ client' = "dial" /\ UNCHANGED header
       \/ /\ Skip(2) > 1 /\ header' = header + 1 /\ header + 1 <= MaxHeader
          /\ UNCHANGED client
    /\ UNCHANGED <<address, server, copy, sent, got, session>>

Dialled ==
    /\ client = "dial" /\ client' = "piping" /\ SameCopies({2, 4})
    /\ \A c \in {2, 4} : copy'[c].state = "on" /\ copy'[c].buf = copy[c].buf
    /\ UNCHANGED <<address, hop, server, header, sent, got, session>>

Reads(c) ==
    /\ copy[c].state = "on" /\ copy[c].buf = <<>> /\ hop[c].data # <<>> /\ hop[c].reader = "there"
    /\ copy'[c].state = "on" /\ copy'[c].buf = Taken(hop[c].data, BufSize)
    /\ hop'[c].data = Rest(hop[c].data, BufSize) /\ hop'[c].end = hop[c].end
    /\ hop'[c].reader = hop[c].reader /\ SameHops({c}) /\ SameCopies({c})
    /\ UNCHANGED <<address, server, client, header, sent, got, session>>

\* A copy ends, after the last byte or because it may write no more.
Stops(c) ==
    /\ copy[c].state = "on"
    /\ \/ /\ copy[c].buf = <<>> /\ hop[c].data = <<>>
          /\ hop[c].end # "open" \/ hop[c].reader = "gone"
       \/ copy[c].buf # <<>> /\ hop[c + 1].end # "open"
    /\ copy'[c].state = "done" /\ copy'[c].buf = <<>> /\ SameCopies({c})
    /\ UNCHANGED <<address, hop, server, client, header, sent, got, session>>

Passes(c) ==
    /\ copy[c].state = "on" /\ copy[c].buf # <<>>
    /\ hop[c + 1].end = "open" /\ hop[c + 1].reader = "there"
    /\ hop'[c + 1].data = hop[c + 1].data \o copy[c].buf
    /\ hop'[c + 1].end = "open" /\ hop'[c + 1].reader = "there" /\ SameHops({c + 1})
    /\ copy'[c].state = "on" /\ copy'[c].buf = <<>> /\ SameCopies({c})
    /\ UNCHANGED <<address, server, client, header, sent, got, session>>

\* The other side answers a write with a reset.
Bounces(c) ==
    /\ copy[c].state = "on" /\ copy[c].buf # <<>>
    /\ hop[c + 1].end = "open" /\ hop[c + 1].reader = "gone"
    /\ Cut(hop[6 - c], hop'[6 - c]) /\ hop'[6 - c].end = "reset"
    /\ hop'[6 - c].reader = hop[6 - c].reader /\ SameHops({6 - c})
    /\ copy'[c].state \in {"on", "done"} /\ copy'[c].buf = <<>> /\ SameCopies({c})
    /\ UNCHANGED <<address, server, client, header, sent, got, session>>

Sends(p, n) ==
    /\ Connected(p) /\ hop[Out(p)].end = "open" /\ hop[Out(p)].reader = "there"
    /\ hop'[Out(p)].data = hop[Out(p)].data \o [i \in 1..n |-> sent[p] + i]
    /\ hop'[Out(p)].end = "open" /\ hop'[Out(p)].reader = "there" /\ SameHops({Out(p)})
    /\ sent' \in [Peers -> 0..MaxBytes] /\ sent'[p] = sent[p] + n /\ sent'[Other(p)] = sent[Other(p)]
    /\ UNCHANGED <<address, server, client, header, copy, got, session>>

SendBounces(p, n) ==
    /\ Connected(p) /\ hop[Out(p)].end = "open" /\ hop[Out(p)].reader = "gone"
    /\ Cut(hop[In(p)], hop'[In(p)]) /\ hop'[In(p)].end = "reset"
    /\ hop'[In(p)].reader = hop[In(p)].reader /\ SameHops({In(p)})
    /\ sent' \in [Peers -> 0..MaxBytes] /\ sent'[p] = sent[p] + n /\ sent'[Other(p)] = sent[Other(p)]
    /\ UNCHANGED <<address, server, client, header, copy, got, session>>

Receives(p) ==
    /\ hop[In(p)].data # <<>> /\ got' \in [Peers -> Seq(Int)]
    /\ got'[p] = Append(got[p], Head(hop[In(p)].data)) /\ got'[Other(p)] = got[Other(p)]
    /\ hop'[In(p)].data = Tail(hop[In(p)].data) /\ hop'[In(p)].end = hop[In(p)].end
    /\ hop'[In(p)].reader = hop[In(p)].reader /\ SameHops({In(p)})
    /\ UNCHANGED <<address, server, client, header, copy, sent, session>>

ShutsDown(p) ==
    /\ Connected(p) /\ hop[Out(p)].end = "open" /\ hop'[Out(p)].end = "fin"
    /\ hop'[Out(p)].data = hop[Out(p)].data /\ hop'[Out(p)].reader = hop[Out(p)].reader
    /\ SameHops({Out(p)})
    /\ UNCHANGED <<address, server, client, header, copy, sent, got, session>>

Closes(p) ==
    /\ Connected(p) /\ SameHops({Out(p), In(p)})
    /\ Cut(hop[Out(p)], hop'[Out(p)]) /\ hop'[Out(p)].end # "open"
    /\ hop'[Out(p)].reader = hop[Out(p)].reader
    /\ hop[Out(p)].end # "open" => hop'[Out(p)] = hop[Out(p)]
    /\ hop[In(p)].data = <<>> => hop'[Out(p)].data = hop[Out(p)].data
    /\ hop'[In(p)].data = <<>> /\ hop'[In(p)].reader = "gone" /\ hop'[In(p)].end = hop[In(p)].end
    /\ UNCHANGED <<address, server, client, header, copy, sent, got, session>>

Loses ==
    /\ session = "alive" /\ session' = "lost" /\ SameHops({2, 5})
    /\ \A h \in {2, 5} : /\ Cut(hop[h], hop'[h]) /\ hop'[h].end = "reset"
                         /\ hop'[h].reader = hop[h].reader
    /\ UNCHANGED <<address, server, client, header, copy, sent, got>>

Step ==
    \/ \E p \in Peers : Return(p) \/ Receives(p) \/ ShutsDown(p) \/ Closes(p)
    \/ \E p \in Peers, n \in 1..MaxBytes : Sends(p, n) \/ SendBounces(p, n)
    \/ \E c \in Copies : Reads(c) \/ Stops(c) \/ Passes(c) \/ Bounces(c)
    \/ GiveUp \/ HeaderSent \/ HeaderByte \/ Dialled \/ Loses

LEMMA FirstByte ==
    ASSUME TypeOK, Shape, client = "header", hop[2].data # <<>>
    PROVE  /\ server # "header" /\ Skip(2) \in Nat \ {0}
           /\ (\E i \in DOMAIN Taken(hop[2].data, HeaderRead) :
                   Taken(hop[2].data, HeaderRead)[i] = Newline) <=> (Skip(2) = 1)
<1> DEFINE d == hop[2].data
           b == Taken(d, 1)
<1>1. server # "header" /\ d \in Seq(Int)
  BY DEF Shape, TypeOK, Hops, Hop, Byte
<1>2. Skip(2) \in Nat \ {0}
  BY <1>1, SizesAssumption DEF TypeOK, Shape, Skip
<1>3. d[1] = IF 1 = Skip(2) THEN Newline ELSE Char
  <2>1. 1 \in DOMAIN d
    BY <1>1
  <2>2. QED
    BY <1>1, <1>2, <2>1 DEF Shape
<1>4. b \in Seq(Int) /\ Len(b) = 1 /\ b[1] = d[1]
  BY <1>1, OneByte, Zenon
<1>5. (\E i \in DOMAIN b : b[i] = Newline) <=> d[1] = Newline
  <2>1. DOMAIN b = {1}
    BY <1>4
  <2>2. QED
    BY <1>4, <2>1, Zenon
<1>6. d[1] = Newline <=> Skip(2) = 1
  BY <1>3 DEF Newline, Char
<1>7. QED
  BY <1>1, <1>2, <1>5, <1>6, Zenon DEF HeaderRead

LEMMA StartedCopies ==
    ASSUME TypeOK, NEW cs \in SUBSET Copies, copy' = Started(cs)
    PROVE  /\ SameCopies(cs)
           /\ \A c \in cs : copy'[c].state = "on" /\ copy'[c].buf = copy[c].buf
<1>1. copy \in [Copies -> Copy] /\ \A c \in Copies : copy[c] \in Copy
  BY Zenon DEF TypeOK
<1>2. \A c \in Copies : copy'[c] = IF c \in cs THEN [copy[c] EXCEPT !.state = "on"] ELSE copy[c]
  BY Zenon DEF Started
<1>3. ASSUME NEW c \in Copies
      PROVE  /\ [copy[c] EXCEPT !.state = "on"] \in Copy
             /\ [copy[c] EXCEPT !.state = "on"].state = "on"
             /\ [copy[c] EXCEPT !.state = "on"].buf = copy[c].buf
  BY <1>1, Zenon DEF Copy
<1>4. copy' \in [Copies -> Copy]
  BY <1>1, <1>3, Zenon DEF Started
<1>5. QED
  BY <1>2, <1>3, <1>4, Zenon DEF SameCopies

LEMMA OneCopy ==
    ASSUME TypeOK, NEW c \in Copies, NEW x \in Copy, copy' = [copy EXCEPT ![c] = x]
    PROVE  SameCopies({c}) /\ copy'[c] = x
BY Zenon DEF TypeOK, SameCopies

LEMMA OneHop ==
    ASSUME TypeOK, NEW h \in Hops, NEW x \in Hop, hop' = [hop EXCEPT ![h] = x]
    PROVE  SameHops({h}) /\ hop'[h] = x
BY Zenon DEF TypeOK, SameHops

LEMMA HeaderBytes ==
    ASSUME TypeOK
    PROVE  /\ Header \in Seq(Int) /\ Len(Header) = address + 1
           /\ \A i \in 1..(address + 1) : Header[i] = IF i = address + 1 THEN Newline ELSE Char
<1>1. address \in Nat
  BY SizesAssumption, Zenon DEF TypeOK
<1> DEFINE l == [i \in 1..address |-> Char]
<1>2. l \in Seq(Int) /\ Len(l) = address /\ \A i \in 1..address : l[i] = Char
  BY <1>1 DEF Char
<1> HIDE DEF l
<1>3. /\ Append(l, Newline) \in Seq(Int) /\ Len(Append(l, Newline)) = address + 1
      /\ \A i \in 1..(address + 1) : Append(l, Newline)[i] = IF i = address + 1 THEN Newline ELSE Char
  BY <1>1, <1>2 DEF Newline
<1>4. QED
  BY <1>3, Zenon DEF Header, l

LEMMA HandlerSteps ==
    ASSUME TypeOK, Shape, WriteHeader \/ ReadHeader \/ Dial \/ ServerDone \/ ClientDone
    PROVE  Step
<1>1. /\ Out("user") = 1 /\ In("user") = 6 /\ Out("backend") = 4 /\ In("backend") = 3
      /\ "user" \in Peers /\ "backend" \in Peers /\ "user" # "backend"
  BY DEF Out, In, Peers
<1>2. ServerReturns => Leaves("user") /\ server' = "returned"
  BY <1>1 DEF ServerReturns, Leaves
<1>3. ClientReturns(TRUE) => Leaves("backend") /\ client' = "returned"
  BY <1>1 DEF ClientReturns, Leaves
<1>4. ASSUME ClientReturns(FALSE)
      PROVE  /\ client' = "returned" /\ SameHops({5}) /\ Cut(hop[5], hop'[5])
             /\ hop'[5].end # "open" /\ hop'[5].data = hop[5].data /\ hop'[5].reader = hop[5].reader
  <2>1. hop' = StreamClosed(hop, 5) /\ client' = "returned"
    BY <1>4, Zenon DEF ClientReturns
  <2>2. hop \in [Hops -> Hop] /\ 5 \in Hops
    BY DEF TypeOK, Hops
  <2>3. QED
    BY <2>1, <2>2, StreamClosedCuts, Zenon DEF SameHops
<1>5. CASE WriteHeader
  <2>1. CASE /\ hop[2].end = "open" /\ hop' \in Written(2, Header)
             /\ server' = "piping" /\ copy' = Started({1, 5})
    <3>1. SameCopies({1, 5}) /\ \A c \in {1, 5} : copy'[c].state = "on" /\ copy'[c].buf = copy[c].buf
      BY <2>1, StartedCopies, Zenon DEF Copies
    <3>2. 2 \in Hops /\ Header \in Seq(Int) /\ hop[2].reader = "there"
      BY HeaderBytes DEF Hops, Shape
    <3>3. /\ hop' \in [Hops -> Hop] /\ \A k \in Hops \ {2, 7 - 2} : hop'[k] = hop[k]
          /\ hop'[7 - 2] = hop[7 - 2] /\ hop'[2].data = hop[2].data \o Header
          /\ hop'[2].end = hop[2].end /\ hop'[2].reader = hop[2].reader
      BY <2>1, <3>2, Writing, Zenon
    <3>4. SameHops({2})
      BY <3>3, Zenon DEF SameHops
    <3>5. hop[2].data = <<>>
      BY <1>5, Zenon DEF WriteHeader, Shape
    <3>6. HeaderSent
      BY <1>5, <2>1, <3>1, <3>2, <3>3, <3>4, <3>5, Zenon DEF HeaderSent, WriteHeader
    <3>7. QED
      BY <3>6, Zenon DEF Step
  <2>2. CASE hop[2].end # "open" /\ ServerReturns /\ UNCHANGED copy
    <3>1. Return("user")
      BY <1>1, <1>2, <1>5, <2>2, Zenon DEF Return, WriteHeader, Connected, Returned
    <3>2. QED
      BY <1>1, <3>1, Zenon DEF Step
  <2>3. QED
    BY <1>5, <2>1, <2>2, Zenon DEF WriteHeader
<1>6. CASE ReadHeader
  <2> DEFINE d == hop[2].data
             x == [hop[2] EXCEPT !.data = Rest(d, HeaderRead)]
             newline == \E i \in DOMAIN Taken(d, HeaderRead) : Taken(d, HeaderRead)[i] = Newline
  <2>1. client = "header" /\ UNCHANGED <<address, server, copy, sent, got, session>>
    BY <1>6, Zenon DEF ReadHeader
  <2>2. ASSUME d # <<>>, hop' = [hop EXCEPT ![2].data = Rest(d, HeaderRead)]
        PROVE  /\ hop'[2].data = Rest(d, 1) /\ hop'[2].end = hop[2].end
               /\ hop'[2].reader = hop[2].reader /\ SameHops({2})
    <3>1. hop[2] \in Hop /\ 2 \in Hops /\ d \in Seq(Int)
      BY DEF TypeOK, Hops, Hop, Byte
    <3>2. Rest(d, 1) \in Seq(Int)
      BY <3>1, TakenRest
    <3>3. x \in Hop /\ x.data = Rest(d, 1) /\ x.end = hop[2].end /\ x.reader = hop[2].reader
      BY <3>1, <3>2, Zenon DEF Hop, HeaderRead, Byte
    <3>4. hop' = [hop EXCEPT ![2] = x]
      BY <2>2, Zenon
    <3> HIDE DEF x
    <3>5. QED
      BY <3>1, <3>3, <3>4, OneHop, Zenon
  <2>3. CASE /\ d # <<>> /\ newline
             /\ hop' = [hop EXCEPT ![2].data = Rest(d, HeaderRead)]
             /\ client' = "dial" /\ UNCHANGED header
    <3>1. server # "header" /\ Skip(2) = 1
      BY <2>1, <2>3, FirstByte, Zenon
    <3>2. HeaderByte
      BY <2>1, <2>2, <2>3, <3>1, Zenon DEF HeaderByte
    <3>3. QED
      BY <3>2, Zenon DEF Step
  <2>4. CASE /\ d # <<>> /\ ~newline /\ ~TooLong
             /\ hop' = [hop EXCEPT ![2].data = Rest(d, HeaderRead)]
             /\ header' = header + 1 /\ UNCHANGED client
    <3>1. server # "header" /\ Skip(2) > 1
      BY <2>1, <2>4, FirstByte
    <3>2. header + 1 <= MaxHeader
      BY <2>4, SizesAssumption DEF TooLong, TypeOK
    <3>3. HeaderByte
      BY <2>1, <2>2, <2>4, <3>1, <3>2, Zenon DEF HeaderByte
    <3>4. QED
      BY <3>3, Zenon DEF Step
  <2>5. CASE d # <<>> /\ header' = header + 1 /\ ClientReturns(FALSE)
    <3>1. header' \in 0..(MaxHeader + 1) /\ server # "header"
      BY <2>1, <2>5, SizesAssumption DEF TypeOK, Shape
    <3>2. GiveUp
      BY <1>4, <2>1, <2>5, <3>1, Zenon DEF GiveUp
    <3>3. QED
      BY <3>2, Zenon DEF Step
  <2>6. CASE hop[2].end # "open" /\ ClientReturns(FALSE) /\ UNCHANGED header
    <3>1. GiveUp
      BY <1>4, <2>1, <2>6, Zenon DEF GiveUp, TypeOK
    <3>2. QED
      BY <3>1, Zenon DEF Step
  <2>7. QED
    BY <1>6, <2>3, <2>4, <2>5, <2>6, Zenon DEF ReadHeader
<1>7. CASE Dial
  <2>1. CASE client' = "piping" /\ copy' = Started({2, 4}) /\ UNCHANGED hop
    <3>1. SameCopies({2, 4}) /\ \A c \in {2, 4} : copy'[c].state = "on" /\ copy'[c].buf = copy[c].buf
      BY <2>1, StartedCopies, Zenon DEF Copies
    <3>2. Dialled
      BY <1>7, <2>1, <3>1, Zenon DEF Dialled, Dial
    <3>3. QED
      BY <3>2, Zenon DEF Step
  <2>2. CASE ClientReturns(FALSE) /\ UNCHANGED copy
    <3>1. GiveUp
      BY <1>4, <1>7, <2>2, Zenon DEF GiveUp, TypeOK, Dial, Shape
    <3>2. QED
      BY <3>1, Zenon DEF Step
  <2>3. QED
    BY <1>7, <2>1, <2>2, Zenon DEF Dial
<1>8. CASE ServerDone
  <2>1. copy[1].state = "done" \/ copy[5].state = "done"
    BY <1>8, Zenon DEF ServerDone, FirstEnd
  <2>2. Return("user")
    BY <1>1, <1>2, <1>8, <2>1 DEF Return, ServerDone, Connected, Returned
  <2>3. QED
    BY <1>1, <2>2, Zenon DEF Step
<1>9. CASE ClientDone
  <2>1. copy[2].state = "done" \/ copy[4].state = "done"
    BY <1>9, Zenon DEF ClientDone, FirstEnd
  <2>2. Return("backend")
    BY <1>1, <1>3, <1>9, <2>1 DEF Return, ClientDone, Connected, Returned, Shape
  <2>3. QED
    BY <1>1, <2>2, Zenon DEF Step
<1>10. QED
  BY <1>5, <1>6, <1>7, <1>8, <1>9, Zenon

LEMMA CopySteps ==
    ASSUME TypeOK, Shape, NEW c \in Copies, CopyReads(c) \/ CopyWrites(c)
    PROVE  Step
<1>1. /\ c \in Hops /\ c + 1 \in Hops /\ 7 - (c + 1) = 6 - c /\ 6 - c \in Hops /\ 6 - c # c + 1
      /\ hop[c] \in Hop /\ hop[c].data \in Seq(Int) /\ copy[c] \in Copy /\ copy[c].buf \in Seq(Int)
  <2>1. c \in Hops /\ c + 1 \in Hops /\ 7 - (c + 1) = 6 - c /\ 6 - c \in Hops /\ 6 - c # c + 1
    BY DEF Copies, Hops
  <2>2. hop[c] \in Hop /\ copy[c] \in Copy
    BY <2>1, Zenon DEF TypeOK
  <2>3. hop[c].data \in Seq(Int) /\ copy[c].buf \in Seq(Int)
    BY <2>2, Zenon DEF Hop, Copy, Byte
  <2>4. QED
    BY <2>1, <2>2, <2>3, Zenon
<1>2. ASSUME Ended(c)
      PROVE  copy'[c].state = "done" /\ copy'[c].buf = <<>> /\ SameCopies({c})
  <2> DEFINE y == [state |-> "done", buf |-> <<>>]
  <2>1. y \in Copy /\ y.state = "done" /\ y.buf = <<>>
    BY Empty, Zenon DEF Copy
  <2>2. copy' = [copy EXCEPT ![c] = y]
    BY <1>2, Zenon DEF Ended
  <2> HIDE DEF y
  <2>3. QED
    BY <2>1, <2>2, OneCopy, Zenon
<1>3. CASE CopyReads(c)
  <2> DEFINE d == hop[c].data
             x == [hop[c] EXCEPT !.data = Rest(d, BufSize)]
             y == [copy[c] EXCEPT !.buf = Taken(d, BufSize)]
  <2>1. CASE /\ d # <<>> /\ hop[c].reader = "there"
             /\ copy' = [copy EXCEPT ![c].buf = Taken(d, BufSize)]
             /\ hop' = [hop EXCEPT ![c].data = Rest(d, BufSize)]
    <3>1. Rest(d, BufSize) \in Seq(Int) /\ Taken(d, BufSize) \in Seq(Int)
      BY <1>1, TakenRest, SizesAssumption, Zenon
    <3>2. /\ x \in Hop /\ x.data = Rest(d, BufSize) /\ x.end = hop[c].end /\ x.reader = hop[c].reader
          /\ y \in Copy /\ y.buf = Taken(d, BufSize) /\ y.state = copy[c].state
      BY <1>1, <3>1, Zenon DEF Hop, Copy, Byte
    <3>3. hop' = [hop EXCEPT ![c] = x] /\ copy' = [copy EXCEPT ![c] = y]
      BY <2>1, Zenon
    <3> HIDE DEF x, y
    <3>4. SameHops({c}) /\ hop'[c] = x /\ SameCopies({c}) /\ copy'[c] = y
      BY <1>1, <3>2, <3>3, OneHop, OneCopy, Zenon
    <3>5. Reads(c)
      BY <1>3, <2>1, <3>2, <3>4, Zenon DEF CopyReads, Reads
    <3>6. QED
      BY <3>5, Zenon DEF Step
  <2>2. CASE /\ d = <<>> /\ (hop[c].end # "open" \/ hop[c].reader = "gone")
             /\ Ended(c) /\ UNCHANGED hop
    <3>1. Stops(c)
      BY <1>2, <1>3, <2>2, Zenon DEF CopyReads, Stops
    <3>2. QED
      BY <3>1, Zenon DEF Step
  <2>3. QED
    BY <1>3, <2>1, <2>2, Zenon DEF CopyReads
<1>4. CASE CopyWrites(c)
  <2>1. CASE hop[c + 1].end # "open" /\ Ended(c) /\ UNCHANGED hop
    <3>1. Stops(c)
      BY <1>2, <1>4, <2>1, Zenon DEF CopyWrites, Stops
    <3>2. QED
      BY <3>1, Zenon DEF Step
  <2>2. CASE /\ hop[c + 1].end = "open" /\ hop' \in Written(c + 1, copy[c].buf)
             /\ \/ copy' = [copy EXCEPT ![c].buf = <<>>]
                \/ hop[c + 1].reader = "gone" /\ Ended(c)
    <3> DEFINE y == [copy[c] EXCEPT !.buf = <<>>]
    <3>1. ASSUME copy' = [copy EXCEPT ![c].buf = <<>>]
          PROVE  copy'[c].state = copy[c].state /\ copy'[c].buf = <<>> /\ SameCopies({c})
      <4>1. y \in Copy /\ y.buf = <<>> /\ y.state = copy[c].state
        BY <1>1, Empty, Zenon DEF Copy
      <4>2. copy' = [copy EXCEPT ![c] = y]
        BY <3>1, Zenon
      <4> HIDE DEF y
      <4>3. QED
        BY <4>1, <4>2, OneCopy, Zenon
    <3>2. /\ hop' \in [Hops -> Hop]
          /\ \A k \in Hops \ {c + 1, 6 - c} : hop'[k] = hop[k]
          /\ hop[c + 1].reader = "gone" =>
                /\ hop'[c + 1] = hop[c + 1] /\ Cut(hop[6 - c], hop'[6 - c])
                /\ hop'[6 - c].end = "reset" /\ hop'[6 - c].reader = hop[6 - c].reader
          /\ hop[c + 1].reader = "there" =>
                /\ hop'[6 - c] = hop[6 - c] /\ hop'[c + 1].data = hop[c + 1].data \o copy[c].buf
                /\ hop'[c + 1].end = hop[c + 1].end /\ hop'[c + 1].reader = hop[c + 1].reader
      <4> DEFINE h == c + 1
      <4>1. 7 - h = 6 - c /\ h \in Hops
        BY <1>1
      <4> HIDE DEF h
      <4>2. /\ hop' \in [Hops -> Hop]
            /\ \A k \in Hops \ {h, 7 - h} : hop'[k] = hop[k]
            /\ hop[h].reader = "gone" =>
                  /\ hop'[h] = hop[h] /\ Cut(hop[7 - h], hop'[7 - h])
                  /\ hop'[7 - h].end = "reset" /\ hop'[7 - h].reader = hop[7 - h].reader
            /\ hop[h].reader = "there" =>
                  /\ hop'[7 - h] = hop[7 - h] /\ hop'[h].data = hop[h].data \o copy[c].buf
                  /\ hop'[h].end = hop[h].end /\ hop'[h].reader = hop[h].reader
        BY <1>1, <2>2, <4>1, Writing, Zenon DEF h
      <4>3. QED
        BY <4>1, <4>2, Zenon DEF h
    <3>3. hop[c + 1].reader \in {"there", "gone"}
      BY <1>1, Zenon DEF TypeOK, Hop
    <3>4. CASE hop[c + 1].reader = "there"
      <4>1. SameHops({c + 1})
        BY <3>2, <3>4, Zenon DEF SameHops
      <4>2. Passes(c)
        BY <1>4, <2>2, <3>1, <3>2, <3>4, <4>1, Zenon DEF CopyWrites, Passes
      <4>3. QED
        BY <4>2, Zenon DEF Step
    <3>5. CASE hop[c + 1].reader = "gone"
      <4>1. SameHops({6 - c})
        BY <3>2, <3>5, Zenon DEF SameHops
      <4>2. copy[c].state = "on" /\ copy[c].buf # <<>>
            /\ UNCHANGED <<address, server, client, header, sent, got, session>>
        BY <1>4, Zenon DEF CopyWrites
      <4>3. copy'[c].state \in {"on", "done"} /\ copy'[c].buf = <<>> /\ SameCopies({c})
        BY <1>2, <2>2, <3>1, <4>2, Zenon
      <4>4. Bounces(c)
        BY <2>2, <3>2, <3>5, <4>1, <4>2, <4>3, Zenon DEF Bounces
      <4>5. QED
        BY <4>4, Zenon DEF Step
    <3>6. QED
      BY <3>3, <3>4, <3>5, Zenon
  <2>3. QED
    BY <1>4, <2>1, <2>2, Zenon DEF CopyWrites
<1>5. QED
  BY <1>3, <1>4, Zenon

LEMMA PeerSteps ==
    ASSUME TypeOK, NEW p \in Peers,
           Receive(p) \/ Shutdown(p) \/ Close(p) \/ \E n \in 1..MaxBytes : Send(p, n)
    PROVE  Step
<1> DEFINE a == Out(p)
<1>1. /\ a \in {1, 4} /\ a \in Hops /\ 7 - a \in Hops /\ In(p) = 7 - a /\ 7 - a # a
      /\ Other(p) \in Peers /\ Other(p) # p /\ Peers = {p, Other(p)}
  BY Around DEF Hops, Peers, Other
<1>2. /\ hop[a] \in Hop /\ hop[7 - a] \in Hop /\ hop[7 - a].data \in Seq(Int)
      /\ got[p] \in Seq(Int) /\ got \in [Peers -> Seq(Int)]
      /\ sent \in [Peers -> 0..MaxBytes] /\ sent[p] \in Nat
  BY <1>1, SizesAssumption DEF TypeOK, Hop, Byte
<1>3. CASE Receive(p)
  <2> DEFINE x == [hop[7 - a] EXCEPT !.data = Tail(hop[7 - a].data)]
             g == Append(got[p], Head(hop[7 - a].data))
  <2>1. /\ hop[7 - a].data # <<>> /\ got' = [got EXCEPT ![p] = g]
        /\ hop' = [hop EXCEPT ![7 - a] = x]
        /\ UNCHANGED <<address, server, client, header, copy, sent, session>>
    BY <1>1, <1>3, Zenon DEF Receive
  <2>2. Tail(hop[7 - a].data) \in Seq(Int) /\ g \in Seq(Int)
    BY <1>2, <2>1
  <2>3. /\ x \in Hop /\ x.data = Tail(hop[7 - a].data) /\ x.end = hop[7 - a].end
        /\ x.reader = hop[7 - a].reader
    BY <1>2, <2>2, Zenon DEF Hop, Byte
  <2> HIDE DEF x
  <2>4. SameHops({7 - a}) /\ hop'[7 - a] = x
    BY <1>1, <2>1, <2>3, OneHop, Zenon
  <2>5. got' \in [Peers -> Seq(Int)] /\ got'[p] = g /\ got'[Other(p)] = got[Other(p)]
    <3> HIDE DEF g
    <3>1. QED
      BY <1>1, <1>2, <2>1, <2>2, Zenon
  <2>6. Receives(p)
    BY <1>1, <2>1, <2>3, <2>4, <2>5, Zenon DEF Receives
  <2>7. QED
    BY <2>6, Zenon DEF Step
<1>4. CASE Shutdown(p)
  <2> DEFINE x == [hop[a] EXCEPT !.end = "fin"]
  <2>1. /\ Connected(p) /\ hop[a].end = "open" /\ hop' = [hop EXCEPT ![a] = x]
        /\ UNCHANGED <<address, server, client, header, copy, sent, got, session>>
    BY <1>4, Zenon DEF Shutdown
  <2>2. x \in Hop /\ x.data = hop[a].data /\ x.end = "fin" /\ x.reader = hop[a].reader
    BY <1>2, Zenon DEF Hop
  <2> HIDE DEF x
  <2>3. SameHops({a}) /\ hop'[a] = x
    BY <1>1, <2>1, <2>2, OneHop, Zenon
  <2>4. ShutsDown(p)
    BY <2>1, <2>2, <2>3, Zenon DEF ShutsDown
  <2>5. QED
    BY <2>4, Zenon DEF Step
<1>5. CASE Close(p)
  <2>1. /\ Connected(p) /\ hop' \in Closed(hop, a) /\ hop \in [Hops -> Hop]
        /\ UNCHANGED <<address, server, client, header, copy, sent, got, session>>
    BY <1>5, Zenon DEF Close, TypeOK
  <2>2. /\ hop' \in [Hops -> Hop]
        /\ \A k \in Hops \ {a, 7 - a} : hop'[k] = hop[k]
        /\ Cut(hop[a], hop'[a]) /\ hop'[a].end # "open" /\ hop'[a].reader = hop[a].reader
        /\ hop[a].end # "open" => hop'[a] = hop[a]
        /\ hop[7 - a].data = <<>> => hop'[a].data = hop[a].data
        /\ hop'[7 - a].data = <<>> /\ hop'[7 - a].reader = "gone"
        /\ hop'[7 - a].end = hop[7 - a].end
    <3> HIDE DEF a
    <3>1. QED
      BY <1>1, <2>1, ClosedCuts
  <2>3. SameHops({a, 7 - a})
    BY <2>2, Zenon DEF SameHops
  <2>4. Closes(p)
    BY <1>1, <2>1, <2>2, <2>3, Zenon DEF Closes
  <2>5. QED
    BY <2>4, Zenon DEF Step
<1>6. CASE \E n \in 1..MaxBytes : Send(p, n)
  <2>1. PICK n \in 1..MaxBytes : Send(p, n)
    BY <1>6, Zenon
  <2> DEFINE w == [i \in 1..n |-> sent[p] + i]
  <2>2. /\ Connected(p) /\ sent[p] + n <= MaxBytes /\ hop[a].end = "open" /\ hop' \in Written(a, w)
        /\ sent' = [sent EXCEPT ![p] = sent[p] + n]
        /\ UNCHANGED <<address, server, client, header, copy, got, session>>
    BY <2>1, Zenon DEF Send
  <2>3. w \in Seq(Int)
    BY <1>2, SizesAssumption
  <2>4. /\ sent' \in [Peers -> 0..MaxBytes] /\ sent'[p] = sent[p] + n
        /\ sent'[Other(p)] = sent[Other(p)]
    BY <1>1, <1>2, <2>2, SizesAssumption
  <2> HIDE DEF w, a
  <2>5. /\ hop' \in [Hops -> Hop]
        /\ \A k \in Hops \ {a, 7 - a} : hop'[k] = hop[k]
        /\ hop[a].reader = "gone" =>
              /\ hop'[a] = hop[a] /\ Cut(hop[7 - a], hop'[7 - a])
              /\ hop'[7 - a].end = "reset" /\ hop'[7 - a].reader = hop[7 - a].reader
        /\ hop[a].reader = "there" =>
              /\ hop'[7 - a] = hop[7 - a] /\ hop'[a].data = hop[a].data \o w
              /\ hop'[a].end = hop[a].end /\ hop'[a].reader = hop[a].reader
    BY <1>1, <2>2, <2>3, Writing, Zenon
  <2>6. CASE hop[a].reader = "there"
    <3>1. SameHops({a})
      BY <2>5, <2>6, Zenon DEF SameHops
    <3>2. Sends(p, n)
      BY <2>2, <2>4, <2>5, <2>6, <3>1, Zenon DEF Sends, a, w
    <3>3. QED
      BY <3>2, Zenon DEF Step
  <2>7. CASE hop[a].reader = "gone"
    <3>1. SameHops({7 - a})
      BY <2>5, <2>7, Zenon DEF SameHops
    <3>2. SendBounces(p, n)
      BY <1>1, <2>2, <2>4, <2>5, <2>7, <3>1, Zenon DEF SendBounces, a
    <3>3. QED
      BY <3>2, Zenon DEF Step
  <2>8. QED
    BY <1>2, <2>6, <2>7, Zenon DEF Hop, a
<1>7. QED
  BY <1>3, <1>4, <1>5, <1>6, Zenon

LEMMA NextStep ==
    ASSUME TypeOK, Shape, Next
    PROVE  Step
<1>1. CASE LoseSession
  <2>1. PICK x \in Reset(hop[2]), y \in Reset(hop[5]) : hop' = [hop EXCEPT ![2] = x, ![5] = y]
    BY <1>1, Zenon DEF LoseSession
  <2>2. hop \in [Hops -> Hop] /\ 2 \in Hops /\ 5 \in Hops /\ hop[2] \in Hop /\ hop[5] \in Hop
    BY DEF TypeOK, Hops
  <2>3. /\ x \in Hop /\ Cut(hop[2], x) /\ x.end = "reset" /\ x.reader = hop[2].reader
        /\ y \in Hop /\ Cut(hop[5], y) /\ y.end = "reset" /\ y.reader = hop[5].reader
    BY <2>1, <2>2, ResetCuts, Zenon
  <2>4. hop'[2] = x /\ hop'[5] = y /\ SameHops({2, 5})
    BY <2>1, <2>2, <2>3 DEF SameHops
  <2>5. Loses
    BY <1>1, <2>3, <2>4, Zenon DEF LoseSession, Loses
  <2>6. QED
    BY <2>5, Zenon DEF Step
<1>2. QED
  BY <1>1, HandlerSteps, CopySteps, PeerSteps, Zenon DEF Next

-----------------------------------------------------------------------------
(* Types, and where the handlers are. *)

LEMMA StepType ==
    ASSUME TypeOK, Shape, Step
    PROVE  TypeOK'
<1>1. ASSUME NEW p \in Peers, Return(p)
      PROVE  TypeOK'
  <2>1. hop' \in [Hops -> Hop]
    BY <1>1, Leaving, Zenon DEF Return
  <2>2. QED
    BY <1>1, <2>1, Zenon DEF Return, TypeOK
<1>2. ASSUME NEW p \in Peers, Receives(p) \/ ShutsDown(p) \/ Closes(p)
      PROVE  TypeOK'
  BY <1>2, Zenon DEF Receives, ShutsDown, Closes, SameHops, TypeOK, Byte
<1>3. ASSUME NEW p \in Peers, NEW n \in 1..MaxBytes, Sends(p, n) \/ SendBounces(p, n)
      PROVE  TypeOK'
  BY <1>3, Zenon DEF Sends, SendBounces, SameHops, TypeOK
<1>4. ASSUME NEW c \in Copies, Reads(c) \/ Stops(c) \/ Passes(c) \/ Bounces(c)
      PROVE  TypeOK'
  BY <1>4, Zenon DEF Reads, Stops, Passes, Bounces, SameHops, SameCopies, TypeOK
<1>5. CASE GiveUp \/ HeaderSent \/ Dialled \/ Loses
  BY <1>5, Zenon DEF GiveUp, HeaderSent, Dialled, Loses, SameHops, SameCopies, TypeOK
<1>6. CASE HeaderByte
  <2>1. header' \in 0..(MaxHeader + 1)
    BY <1>6, SizesAssumption DEF HeaderByte, TypeOK
  <2>2. QED
    BY <1>6, <2>1, Zenon DEF HeaderByte, SameHops, TypeOK
<1>7. QED
  BY <1>1, <1>2, <1>3, <1>4, <1>5, <1>6, Zenon DEF Step

\* A step that leaves the handlers and the stream towards the client alone.
LEMMA ShapeFrame ==
    ASSUME TypeOK, Shape, UNCHANGED <<address, server, client, header>>,
           copy' \in [Copies -> Copy], hop'[2] = hop[2], hop'[5].reader = hop[5].reader,
           \A c \in Copies : copy'[c].state # "on" => copy'[c].buf = <<>>,
           \A c \in Copies : (copy'[c].state = "off") <=> (copy[c].state = "off")
    PROVE  Shape'
<1>1. 1 \in Copies /\ 2 \in Copies /\ 4 \in Copies /\ 5 \in Copies
  BY Zenon DEF Copies
<1>2. Skip(2)' = Skip(2)
  BY Zenon DEF Skip
<1>3. QED
  BY <1>1, <1>2, Zenon DEF Shape

LEMMA ShapeReturn ==
    ASSUME TypeOK, Shape, NEW p \in Peers, Return(p)
    PROVE  Shape'
<1>1. Out(p) \in {1, 4} /\ Leaves(p) /\ UNCHANGED <<address, header, copy, sent, got, session>>
  BY Around, Zenon DEF Return
<1>2. /\ hop'[Out(p) + 1].data = hop[Out(p) + 1].data
      /\ hop'[Out(p) + 1].reader = hop[Out(p) + 1].reader
      /\ hop'[6 - Out(p)] = hop[6 - Out(p)]
      /\ hop'[Out(p) + 1].end # "open"
  BY <1>1, Leaving, Zenon
<1>3. /\ hop'[2].data = hop[2].data /\ hop'[2].reader = hop[2].reader
      /\ hop'[5].reader = hop[5].reader
      /\ hop'[2].end = "open" => hop[2].end = "open" /\ p # "user"
  <2>1. CASE Out(p) = 1
    BY <1>2, <2>1
  <2>2. CASE Out(p) = 4
    BY <1>2, <2>2, Around
  <2>3. QED
    BY <1>1, <2>1, <2>2, Zenon
<1>4. CASE p = "user"
  <2>1. server' = "returned" /\ client' = client
    BY <1>4, Zenon DEF Return
  <2>2. CASE server = "header"
    BY <1>1, <1>3, <1>4, <2>1, <2>2 DEF Shape
  <2>3. CASE server # "header"
    <3>1. Skip(2)' = Skip(2)
      BY <1>1, <2>1, <2>3, Zenon DEF Skip
    <3>2. QED
      BY <1>1, <1>3, <1>4, <2>1, <2>3, <3>1, Zenon DEF Shape
  <2>4. QED
    BY <2>2, <2>3, Zenon
<1>5. CASE p = "backend"
  <2>1. client' = "returned" /\ client = "piping" /\ server' = server
    BY <1>5, Zenon DEF Return
  <2>2. QED
    BY <1>1, <1>3, <2>1, Zenon DEF Shape
<1>6. QED
  BY <1>4, <1>5, Zenon DEF Peers

LEMMA ShapeHandler ==
    ASSUME TypeOK, Shape, TypeOK', GiveUp \/ HeaderSent \/ HeaderByte \/ Dialled \/ Loses
    PROVE  Shape'
<1>1. 1 \in Copies /\ 2 \in Copies /\ 4 \in Copies /\ 5 \in Copies /\ 2 \in Hops /\ 5 \in Hops
  BY DEF Copies, Hops
<1>2. hop[2].data \in Seq(Int) /\ hop'[2].data \in Seq(Int)
  BY <1>1, Zenon DEF TypeOK, Hop, Byte
<1>3. CASE GiveUp
  <2>1. hop'[2] = hop[2]
    BY <1>1, <1>3 DEF GiveUp, SameHops
  <2>2. QED
    BY <1>3, <2>1 DEF GiveUp, Shape
<1>4. CASE HeaderSent
  <2>1. /\ hop'[2].data = <<>> \o Header /\ hop'[2].reader = "there" /\ hop'[5] = hop[5]
        /\ server = "header" /\ server' = "piping" /\ UNCHANGED <<address, client, header>>
    BY <1>1, <1>4 DEF HeaderSent, SameHops
  <2>2. /\ copy'[2] = copy[2] /\ copy'[4] = copy[4]
        /\ copy'[1].state = "on" /\ copy'[5].state = "on"
    BY <1>1, <1>4 DEF HeaderSent, SameCopies
  <2>3. \A c \in Copies : copy'[c].state # "on" => copy'[c].buf = <<>>
    BY <2>2, Zenon DEF Copies, Shape
  <2>4. header = 0 /\ client \in {"header", "returned"}
    BY <2>1, Zenon DEF Shape
  <2>5. client = "header" => Skip(2)' = address + 1
    BY <2>1, <2>4, SizesAssumption DEF Skip, TypeOK
  <2>6. /\ Header \in Seq(Int) /\ Len(Header) = address + 1
        /\ \A i \in 1..(address + 1) : Header[i] = IF i = address + 1 THEN Newline ELSE Char
    BY HeaderBytes, Zenon
  <2>7. hop'[2].data = Header
    BY <2>1, <2>6
  <2>8. client = "header" =>
          /\ \A i \in 1..Len(hop'[2].data) : i <= Skip(2)' =>
                hop'[2].data[i] = IF i = Skip(2)' THEN Newline ELSE Char
          /\ Skip(2)' <= Len(hop'[2].data)
    BY <2>5, <2>6, <2>7, SizesAssumption DEF TypeOK
  <2>9. QED
    BY <2>1, <2>2, <2>3, <2>4, <2>8, Zenon DEF Shape
<1>5. CASE HeaderByte
  <2>1. /\ client = "header" /\ server # "header" /\ hop[2].data # <<>>
        /\ hop'[2].data = Rest(hop[2].data, 1) /\ hop'[2].end = hop[2].end
        /\ hop'[2].reader = hop[2].reader /\ hop'[5] = hop[5]
        /\ UNCHANGED <<address, server, copy>>
    BY <1>1, <1>5 DEF HeaderByte, SameHops
  <2>2. CASE Skip(2) = 1 /\ client' = "dial" /\ UNCHANGED header
    BY <2>1, <2>2, Zenon DEF Shape
  <2>3. CASE /\ Skip(2) > 1 /\ header' = header + 1 /\ header + 1 <= MaxHeader
             /\ UNCHANGED client
    <3>1. /\ Skip(2) = address + 1 - header /\ Skip(2)' = address + 1 - (header + 1)
          /\ address \in Nat /\ header \in Nat
      BY <2>1, <2>3, SizesAssumption DEF Skip, TypeOK
    <3>2. Skip(2)' = Skip(2) - 1 /\ header' <= address /\ Skip(2) \in Int
      BY <2>3, <3>1
    <3>3. /\ 1 + Len(hop'[2].data) = Len(hop[2].data)
          /\ \A i \in 1..Len(hop'[2].data) : hop'[2].data[i] = hop[2].data[1 + i]
      <4> DEFINE d == hop[2].data
      <4>1. d \in Seq(Int) /\ d # <<>> /\ hop'[2].data = Rest(d, 1)
        BY <1>2, <2>1, Zenon
      <4> HIDE DEF d
      <4>2. 1 + Len(Rest(d, 1)) = Len(d) /\ \A i \in 1..Len(Rest(d, 1)) : Rest(d, 1)[i] = d[1 + i]
        BY <4>1, OneByte, Zenon
      <4>3. QED
        BY <4>1, <4>2, Zenon DEF d
    <3>4. \A i \in 1..Len(hop[2].data) : i <= Skip(2) =>
                hop[2].data[i] = IF i = Skip(2) THEN Newline ELSE Char
      BY <2>1, Zenon DEF Shape
    <3> DEFINE l == Len(hop'[2].data)
               k == Skip(2)
    <3>5. l \in Nat
      BY <1>2, Lengths, Zenon
    <3> HIDE DEF l, k
    <3>6. ASSUME NEW i \in 1..l, i <= Skip(2)'
          PROVE  hop'[2].data[i] = IF i = Skip(2)' THEN Newline ELSE Char
      <4>1. 1 + i \in 1..(1 + l) /\ 1 + i <= k /\ (i = Skip(2)' <=> 1 + i = k)
        BY <3>2, <3>5, <3>6 DEF k
      <4>2. hop[2].data[1 + i] = IF 1 + i = k THEN Newline ELSE Char
        BY <3>3, <3>4, <4>1, Zenon DEF l, k
      <4>3. QED
        BY <3>3, <4>1, <4>2, Zenon DEF l
    <3>7. hop'[2].end = "open" => Skip(2)' <= l
      <4>1. hop'[2].end = "open" => k <= 1 + l
        BY <2>1, <3>3, Zenon DEF Shape, l, k
      <4>2. QED
        BY <3>2, <3>5, <4>1 DEF k
    <3>8. QED
      BY <2>1, <2>3, <3>2, <3>6, <3>7, Zenon DEF Shape, l
  <2>4. QED
    BY <1>5, <2>2, <2>3, Zenon DEF HeaderByte
<1>6. CASE Dialled
  <2>1. /\ client = "dial" /\ client' = "piping" /\ UNCHANGED <<address, hop, server, header>>
        /\ copy'[1] = copy[1] /\ copy'[5] = copy[5]
        /\ copy'[2].state = "on" /\ copy'[4].state = "on"
    BY <1>1, <1>6 DEF Dialled, SameCopies
  <2>2. \A c \in Copies : copy'[c].state # "on" => copy'[c].buf = <<>>
    BY <2>1, Zenon DEF Copies, Shape
  <2>3. server # "header"
    BY <2>1, Zenon DEF Shape
  <2>4. QED
    BY <2>1, <2>2, <2>3, Zenon DEF Shape
<1>7. CASE Loses
  <2>1. /\ Cut(hop[2], hop'[2]) /\ hop'[2].end = "reset" /\ hop'[2].reader = hop[2].reader
        /\ hop'[5].reader = hop[5].reader /\ UNCHANGED <<address, server, client, header, copy>>
    BY <1>7, Zenon DEF Loses
  <2>2. Skip(2)' = Skip(2)
    BY <2>1, Zenon DEF Skip
  <2>3. /\ Len(hop'[2].data) <= Len(hop[2].data)
        /\ \A i \in 1..Len(hop'[2].data) : hop'[2].data[i] = hop[2].data[i]
    BY <2>1, Zenon DEF Cut
  <2>4. hop[2].data = <<>> => hop'[2].data = <<>>
    BY <1>2, <2>3
  <2>5. ASSUME client = "header" /\ server # "header"
        PROVE  \A i \in 1..Len(hop'[2].data) : i <= Skip(2) =>
                  hop'[2].data[i] = IF i = Skip(2) THEN Newline ELSE Char
    BY <1>2, <2>3, <2>5 DEF Shape
  <2>6. QED
    BY <2>1, <2>2, <2>4, <2>5, Zenon DEF Shape
<1>8. QED
  BY <1>3, <1>4, <1>5, <1>6, <1>7, Zenon

LEMMA ShapeCopy ==
    ASSUME TypeOK, Shape, TypeOK', NEW c \in Copies, Reads(c) \/ Stops(c) \/ Passes(c) \/ Bounces(c)
    PROVE  Shape'
<1>1. /\ 2 \in Hops /\ 5 \in Hops /\ c \in Hops /\ c + 1 \in Hops /\ 6 - c \in Hops
      /\ hop[2].data \in Seq(Int) /\ copy[c].buf \in Seq(Int) /\ copy[c].state = "on"
      /\ UNCHANGED <<address, server, client, header>>
  <2>1. 2 \in Hops /\ 5 \in Hops /\ c \in Hops /\ c + 1 \in Hops /\ 6 - c \in Hops
    BY DEF Copies, Hops
  <2>2. hop[2].data \in Seq(Int) /\ copy[c].buf \in Seq(Int)
    BY <2>1, Zenon DEF TypeOK, Hop, Copy, Byte
  <2>3. copy[c].state = "on" /\ UNCHANGED <<address, server, client, header>>
    BY Zenon DEF Reads, Stops, Passes, Bounces
  <2>4. QED
    BY <2>1, <2>2, <2>3, Zenon
<1>2. /\ SameCopies({c}) /\ copy'[c].state \in {"on", "done"}
      /\ copy'[c].state = "done" => copy'[c].buf = <<>>
  BY Zenon DEF Reads, Stops, Passes, Bounces
<1>3. /\ copy' \in [Copies -> Copy]
      /\ \A e \in Copies : copy'[e].state # "on" => copy'[e].buf = <<>>
      /\ \A e \in Copies : (copy'[e].state = "off") <=> (copy[e].state = "off")
  BY <1>1, <1>2 DEF SameCopies, Shape
<1>4. Skip(2)' = Skip(2)
  BY <1>1, Zenon DEF Skip
<1>5. /\ c = 1 => server # "header"
      /\ c = 2 => client \notin {"header", "dial"}
  BY <1>1, Zenon DEF Shape
<1>10. hop'[2].data \in Seq(Int)
  BY <1>1, Zenon DEF TypeOK, Hop, Byte
<1>6. CASE Reads(c)
  <2>1. CASE c = 2
    <3>1. hop'[2].reader = hop[2].reader /\ hop'[5] = hop[5] /\ server # "header"
      BY <1>1, <1>6, <2>1 DEF Reads, SameHops, Shape
    <3>2. QED
      BY <1>1, <1>3, <1>5, <2>1, <3>1, Zenon DEF Shape, Copies
  <2>2. CASE c # 2
    <3>1. hop'[2] = hop[2] /\ hop'[5].reader = hop[5].reader
      BY <1>1, <1>6, <2>2, Zenon DEF Reads, SameHops
    <3>2. QED
      BY <1>1, <1>3, <3>1, ShapeFrame, Zenon
  <2>3. QED
    BY <2>1, <2>2, Zenon
<1>7. CASE Stops(c)
  <2>1. hop'[2] = hop[2] /\ hop'[5].reader = hop[5].reader
    BY <1>7, Zenon DEF Stops
  <2>2. QED
    BY <1>1, <1>3, <2>1, ShapeFrame, Zenon
<1>8. CASE Passes(c)
  <2>1. CASE c = 1
    <3>1. /\ hop'[2].data = hop[2].data \o copy[1].buf /\ hop[2].end = "open" /\ hop'[5] = hop[5]
          /\ hop'[2].reader = "there"
      <4>1. c + 1 = 2 /\ 5 # 2
        BY <2>1
      <4>2. QED
        BY <1>1, <1>8, <2>1, <4>1, Zenon DEF Passes, SameHops
    <3>2. ASSUME client = "header"
          PROVE  /\ \A i \in 1..Len(hop'[2].data) : i <= Skip(2) =>
                      hop'[2].data[i] = IF i = Skip(2) THEN Newline ELSE Char
                 /\ Skip(2) <= Len(hop'[2].data)
      <4>1. /\ Skip(2) <= Len(hop[2].data) /\ Skip(2) \in Nat
            /\ \A i \in 1..Len(hop[2].data) : i <= Skip(2) =>
                  hop[2].data[i] = IF i = Skip(2) THEN Newline ELSE Char
        BY <1>1, <1>5, <2>1, <3>1, <3>2, SkipType, Zenon DEF Shape
      <4>2. /\ Len(hop'[2].data) >= Len(hop[2].data)
            /\ \A i \in 1..Len(hop[2].data) : hop'[2].data[i] = hop[2].data[i]
        <5> DEFINE x == hop[2].data
                   y == copy[1].buf
        <5>1. x \in Seq(Int) /\ y \in Seq(Int)
          BY <1>1, <2>1
        <5> HIDE DEF x, y
        <5>2. Len(x \o y) >= Len(x) /\ \A i \in 1..Len(x) : (x \o y)[i] = x[i]
          BY <5>1
        <5>3. QED
          BY <3>1, <5>2, Zenon DEF x, y
      <4> DEFINE l == Len(hop[2].data)
                 m == Len(hop'[2].data)
                 k == Skip(2)
      <4>3. l \in Nat /\ m \in Nat
        BY <1>1, <1>10, Lengths, Zenon
      <4>4. k <= l /\ m >= l /\ k \in Nat
        BY <4>1, <4>2, Zenon
      <4> HIDE DEF l, m, k
      <4>5. k <= m /\ \A i \in 1..m : i <= k => i \in 1..l
        BY <4>3, <4>4
      <4>6. QED
        BY <4>1, <4>2, <4>5, Zenon DEF l, m, k
    <3>3. QED
      BY <1>1, <1>3, <1>4, <1>5, <2>1, <3>1, <3>2, Zenon DEF Shape, Copies
  <2>2. CASE c # 1
    <3>1. hop'[2] = hop[2] /\ hop'[5].reader = hop[5].reader
      <4>1. c + 1 # 2
        BY <2>2 DEF Copies
      <4>2. hop'[2] = hop[2]
        BY <1>1, <1>8, <4>1, Zenon DEF Passes, SameHops
      <4>3. hop'[c + 1].reader = hop[c + 1].reader
        BY <1>8, Zenon DEF Passes
      <4>4. 5 # c + 1 => hop'[5] = hop[5]
        BY <1>1, <1>8, Zenon DEF Passes, SameHops
      <4>5. QED
        BY <4>2, <4>3, <4>4
    <3>2. QED
      BY <1>1, <1>3, <3>1, ShapeFrame, Zenon
  <2>3. QED
    BY <2>1, <2>2, Zenon
<1>9. CASE Bounces(c)
  <2>1. c # 1 /\ c # 4
    BY <1>9 DEF Bounces, Shape
  <2>2. hop'[2] = hop[2] /\ hop'[5] = hop[5]
    BY <1>1, <1>9, <2>1 DEF Bounces, SameHops, Copies
  <2>3. QED
    BY <1>1, <1>3, <2>2, ShapeFrame, Zenon
<1>11. QED
  BY <1>6, <1>7, <1>8, <1>9, Zenon

LEMMA ShapePeer ==
    ASSUME TypeOK, Shape, NEW p \in Peers,
           \/ Receives(p) \/ ShutsDown(p) \/ Closes(p)
           \/ \E n \in 1..MaxBytes : Sends(p, n) \/ SendBounces(p, n)
    PROVE  Shape'
<1>1. UNCHANGED <<address, server, client, header, copy>> /\ SameHops({Out(p), In(p)})
  BY Zenon DEF Receives, ShutsDown, Closes, Sends, SendBounces, SameHops
<1>2. 2 \in Hops /\ 5 \in Hops /\ 2 \notin {Out(p), In(p)} /\ 5 \notin {Out(p), In(p)}
  BY Around DEF Hops
<1>3. hop'[2] = hop[2] /\ hop'[5] = hop[5]
  BY <1>1, <1>2, Zenon DEF SameHops
<1>4. QED
  BY <1>1, <1>3, ShapeFrame, Zenon DEF Shape, TypeOK

LEMMA StepShape ==
    ASSUME TypeOK, Shape, TypeOK', Step
    PROVE  Shape'
BY ShapeReturn, ShapeHandler, ShapeCopy, ShapePeer, Zenon DEF Step

-----------------------------------------------------------------------------
(* Who ends what. *)

\* Nothing of what Causes is about changes at p.
LEMMA CausesFrame ==
    ASSUME NEW p \in Peers, Causes(p), Returned(p)' = Returned(p), Connected(p)' = Connected(p),
           sent'[p] = sent[p], session' = session,
           hop'[Out(p)].end = hop[Out(p)].end, hop'[Out(p)].reader = hop[Out(p)].reader,
           hop'[Out(p) + 1].end = hop[Out(p) + 1].end,
           hop'[In(p)].end = hop[In(p)].end, hop'[In(p)].reader = hop[In(p)].reader
    PROVE  Causes(p)'
BY Zenon DEF Causes

LEMMA CausesReturn ==
    ASSUME TypeOK, Shape, NEW r \in Peers, Return(r), NEW p \in Peers, Causes(p)
    PROVE  Causes(p)'
<1> DEFINE a == Out(r)
<1>1. /\ a \in {1, 4} /\ Leaves(r) /\ UNCHANGED <<copy, sent, session>> /\ In(r) = 7 - a
      /\ Connected(r)' /\ Connected(p)' = Connected(p)
  BY Around, Zenon DEF Return, Connected
<1>2. /\ hop'[a + 1].end # "open"
      /\ hop'[a + 2] = hop[a + 2] /\ hop'[5 - a] = hop[5 - a]
      /\ hop'[6 - a] = hop[6 - a]
      /\ hop'[7 - a].end # "open" /\ hop'[7 - a].reader = hop[7 - a].reader
      /\ hop'[a].end = hop[a].end
  BY <1>1, Leaving, Zenon
<1>3. Returned(r)' /\ (p # r => Returned(p)' = Returned(p))
  BY Zenon DEF Return, Returned, Peers
<1>4. CASE p = r
  BY <1>1, <1>2, <1>3, <1>4, Zenon DEF Causes
<1>5. CASE p # r
  <2>1. Out(p) = 5 - a /\ In(p) = a + 2 /\ 5 - a + 1 = 6 - a
    BY <1>1, <1>5, Around DEF Peers, Other
  <2> HIDE DEF a
  <2>2. QED
    BY <1>1, <1>2, <1>3, <1>5, <2>1, CausesFrame, Zenon
<1>6. QED
  BY <1>4, <1>5, Zenon

LEMMA CausesHandler ==
    ASSUME TypeOK, Shape, TypeOK', GiveUp \/ HeaderSent \/ HeaderByte \/ Dialled \/ Loses,
           NEW p \in Peers, Causes(p)
    PROVE  Causes(p)'
<1>1. /\ Out("user") = 1 /\ In("user") = 6 /\ Out("backend") = 4 /\ In("backend") = 3
      /\ p = "user" \/ p = "backend"
      /\ 1 \in Hops /\ 2 \in Hops /\ 3 \in Hops /\ 4 \in Hops /\ 5 \in Hops /\ 6 \in Hops /\ 2 \in Copies
  BY DEF Out, In, Peers, Hops, Copies
<1>2. CASE GiveUp
  <2>1. /\ hop'[1] = hop[1] /\ hop'[2] = hop[2] /\ hop'[3] = hop[3] /\ hop'[4] = hop[4]
        /\ hop'[6] = hop[6] /\ hop'[5].end # "open" /\ client' = "returned"
        /\ UNCHANGED <<server, copy, sent, session>> /\ copy[2].state = "off"
    BY <1>1, <1>2 DEF GiveUp, SameHops, Shape
  <2>2. CASE p = "user"
    BY <1>1, <2>1, <2>2 DEF Causes, Returned, Connected
  <2>3. CASE p = "backend"
    BY <1>1, <2>1, <2>3 DEF Causes, Returned, Connected
  <2>4. QED
    BY <1>1, <2>2, <2>3, Zenon
<1>3. CASE HeaderSent
  <2>1. /\ hop'[1] = hop[1] /\ hop'[2].end = hop[2].end /\ hop'[3] = hop[3] /\ hop'[4] = hop[4]
        /\ hop'[6] = hop[6] /\ hop'[5] = hop[5] /\ server = "header" /\ server' = "piping"
        /\ UNCHANGED <<client, sent, session>> /\ copy'[2] = copy[2]
    BY <1>1, <1>3 DEF HeaderSent, SameHops, SameCopies
  <2>2. CASE p = "user"
    BY <1>1, <2>1, <2>2 DEF Causes, Returned, Connected
  <2>3. CASE p = "backend"
    BY <1>1, <2>1, <2>3 DEF Causes, Returned, Connected
  <2>4. QED
    BY <1>1, <2>2, <2>3, Zenon
<1>4. CASE HeaderByte
  <2>1. /\ hop'[1] = hop[1] /\ hop'[2].end = hop[2].end /\ hop'[3] = hop[3] /\ hop'[4] = hop[4]
        /\ hop'[6] = hop[6] /\ hop'[5] = hop[5] /\ client # "returned" /\ client' # "returned"
        /\ UNCHANGED <<server, copy, sent, session>>
    BY <1>1, <1>4 DEF HeaderByte, SameHops
  <2>2. CASE p = "user"
    BY <1>1, <2>1, <2>2 DEF Causes, Returned, Connected
  <2>3. CASE p = "backend"
    BY <1>1, <2>1, <2>3 DEF Causes, Returned, Connected
  <2>4. QED
    BY <1>1, <2>2, <2>3, Zenon
<1>5. CASE Dialled
  <2>1. client = "dial" /\ client' = "piping" /\ copy'[2].state = "on"
        /\ UNCHANGED <<hop, server, sent, session>>
    BY <1>5, Zenon DEF Dialled
  <2>2. CASE p = "user"
    BY <1>1, <2>1, <2>2, Zenon DEF Causes, Returned, Connected
  <2>3. CASE p = "backend"
    BY <1>1, <2>1, <2>3, Zenon DEF Causes, Returned, Connected
  <2>4. QED
    BY <1>1, <2>2, <2>3, Zenon
<1>6. CASE Loses
  <2>1. /\ hop'[1] = hop[1] /\ hop'[2].end # "open" /\ hop'[3] = hop[3] /\ hop'[4] = hop[4]
        /\ hop'[6] = hop[6] /\ hop'[5].end # "open" /\ session' = "lost"
        /\ UNCHANGED <<server, client, copy, sent>>
    BY <1>1, <1>6 DEF Loses, SameHops
  <2>2. CASE p = "user"
    BY <1>1, <2>1, <2>2 DEF Causes, Returned, Connected
  <2>3. CASE p = "backend"
    BY <1>1, <2>1, <2>3 DEF Causes, Returned, Connected
  <2>4. QED
    BY <1>1, <2>2, <2>3, Zenon
<1>7. QED
  BY <1>2, <1>3, <1>4, <1>5, <1>6, Zenon

LEMMA CausesCopy ==
    ASSUME TypeOK, Shape, NEW c \in Copies, Reads(c) \/ Stops(c) \/ Passes(c) \/ Bounces(c),
           NEW p \in Peers, Causes(p)
    PROVE  Causes(p)'
<1> DEFINE a == Out(p)
<1>1. /\ a \in {1, 4} /\ In(p) = 7 - a /\ a \in Hops /\ a + 1 \in Hops /\ 7 - a \in Hops
      /\ c \in {1, 2, 4, 5} /\ 2 \in Copies
  BY Around DEF Hops, Copies
<1>2. /\ UNCHANGED <<server, client, sent, session>> /\ copy[c].state = "on" /\ SameCopies({c})
      /\ copy'[c].state # "off"
  BY Zenon DEF Reads, Stops, Passes, Bounces
<1>3. Returned(p)' = Returned(p) /\ Connected(p)' = Connected(p)
  BY <1>1, <1>2, Zenon DEF Returned, Connected, SameCopies
<1>4. CASE Reads(c) \/ Stops(c) \/ Passes(c)
  <2>1. \A h \in Hops : hop'[h].end = hop[h].end /\ hop'[h].reader = hop[h].reader
    BY <1>4, Zenon DEF Reads, Stops, Passes, SameHops
  <2> HIDE DEF a
  <2>2. hop'[a].end = hop[a].end /\ hop'[a].reader = hop[a].reader
        /\ hop'[a + 1].end = hop[a + 1].end
        /\ hop'[7 - a].end = hop[7 - a].end /\ hop'[7 - a].reader = hop[7 - a].reader
    BY <1>1, <2>1, Zenon
  <2>3. QED
    BY <1>1, <1>2, <1>3, <2>2, CausesFrame, Zenon DEF a
<1>5. CASE Bounces(c)
  <2>1. c \in {2, 5}
    BY <1>1, <1>5 DEF Bounces, Shape
  <2>2. /\ hop'[6 - c].end = "reset" /\ hop'[6 - c].reader = hop[6 - c].reader
        /\ \A h \in Hops \ {6 - c} : hop'[h] = hop[h]
    BY <1>5, Zenon DEF Bounces, SameHops
  <2>3. 6 - c \in {1, 4}
    BY <2>1
  <2>4. CASE 6 - c = a
    <3>1. hop'[a].end # "open" /\ hop'[a].reader = hop[a].reader
          /\ hop'[a + 1] = hop[a + 1] /\ hop'[7 - a] = hop[7 - a]
      BY <1>1, <2>2, <2>4
    <3>2. QED
      BY <1>1, <1>2, <1>3, <3>1, Zenon DEF Causes
  <2>5. CASE 6 - c # a
    <3>1. hop'[a] = hop[a] /\ hop'[a + 1] = hop[a + 1] /\ hop'[7 - a] = hop[7 - a]
      BY <1>1, <2>2, <2>3, <2>5
    <3>2. QED
      BY <1>1, <1>2, <1>3, <3>1, CausesFrame, Zenon
  <2>6. QED
    BY <2>4, <2>5, Zenon
<1>6. QED
  BY <1>4, <1>5, Zenon

LEMMA CausesPeer ==
    ASSUME TypeOK, Shape, NEW r \in Peers,
           \/ Receives(r) \/ ShutsDown(r) \/ Closes(r)
           \/ \E n \in 1..MaxBytes : Sends(r, n) \/ SendBounces(r, n),
           NEW p \in Peers, Causes(p)
    PROVE  Causes(p)'
<1> DEFINE a == Out(p)
<1>1. /\ a \in {1, 4} /\ In(p) = 7 - a /\ a \in Hops /\ a + 1 \in Hops /\ 7 - a \in Hops
      /\ a # a + 1 /\ 7 - a # a + 1 /\ 7 - a # a
  BY Around, Places, Zenon
<1>2. UNCHANGED <<server, client, copy, session>> /\ SameHops({Out(r), In(r)})
  BY Zenon DEF Receives, ShutsDown, Closes, Sends, SendBounces, SameHops
<1>3. Returned(p)' = Returned(p) /\ Connected(p)' = Connected(p)
  BY <1>2, Zenon DEF Returned, Connected
<1>4. CASE p # r
  <2>1. p = Other(r) /\ Out(r) = 5 - a /\ In(r) = a + 2
    BY <1>1, <1>4, Around DEF Peers, Other
  <2>2. hop'[a] = hop[a] /\ hop'[a + 1] = hop[a + 1] /\ hop'[7 - a] = hop[7 - a]
    BY <1>1, <1>2, <2>1 DEF SameHops
  <2>3. sent'[p] = sent[p]
    BY <2>1, Zenon DEF Receives, ShutsDown, Closes, Sends, SendBounces
  <2>4. QED
    BY <1>1, <1>2, <1>3, <2>2, <2>3, CausesFrame, Zenon
<1>5. CASE p = r
  <2>1. hop'[a + 1] = hop[a + 1]
    BY <1>1, <1>2, <1>5, Zenon DEF SameHops
  <2>2. CASE Receives(p)
    BY <1>1, <1>2, <1>3, <2>1, <2>2, Zenon DEF Receives, SameHops, Causes
  <2>3. CASE ShutsDown(p)
    BY <1>1, <1>2, <1>3, <2>1, <2>3, Zenon DEF ShutsDown, SameHops, Causes
  <2>4. CASE Closes(p)
    BY <1>1, <1>2, <1>3, <2>1, <2>4, Zenon DEF Closes, SameHops, Causes
  <2>5. ASSUME NEW n \in 1..MaxBytes, Sends(p, n)
        PROVE  Causes(p)'
    BY <1>1, <1>2, <1>3, <2>1, <2>5, Zenon DEF Sends, SameHops, Causes
  <2>6. ASSUME NEW n \in 1..MaxBytes, SendBounces(p, n)
        PROVE  Causes(p)'
    BY <1>1, <1>2, <1>3, <2>1, <2>6, Zenon DEF SendBounces, SameHops, Causes
  <2>7. QED
    BY <1>5, <2>2, <2>3, <2>4, <2>5, <2>6, Zenon
<1>6. QED
  BY <1>4, <1>5, Zenon

LEMMA StepCauses ==
    ASSUME TypeOK, Shape, TypeOK', Step, NEW p \in Peers, Causes(p)
    PROVE  Causes(p)'
BY CausesReturn, CausesHandler, CausesCopy, CausesPeer, Zenon DEF Step

-----------------------------------------------------------------------------
(* The steps of a lane. *)

\* Nothing of the lane changes.
LEMMA LaneFrame ==
    ASSUME NEW p \in Peers, Lane(p),
           hop'[Out(p)].data = hop[Out(p)].data, hop'[Out(p) + 1] = hop[Out(p) + 1],
           hop'[Out(p) + 2] = hop[Out(p) + 2], Flows(Out(p))' = Flows(Out(p)),
           copy'[Out(p)].buf = copy[Out(p)].buf, copy'[Out(p) + 1].buf = copy[Out(p) + 1].buf,
           got'[Other(p)] = got[Other(p)], sent'[p] = sent[p],
           p = "user" => UNCHANGED <<address, client, server, header>>
    PROVE  Lane(p)'
<1>1. Skip(Out(p) + 1)' = Skip(Out(p) + 1)
  BY Around DEF Skip
<1>2. Depth(p)' = Depth(p)
  BY Zenon DEF Depth, Flows
<1>3. QED
  BY <1>1, <1>2, Zenon DEF Lane

LEMMA CutsHold ==
    ASSUME TypeOK, NEW hs \in SUBSET Hops, SameHops(hs), \A h \in hs : Cut(hop[h], hop'[h])
    PROVE  \A h \in Hops : Cut(hop[h], hop'[h])
BY CutSame, Zenon DEF TypeOK, SameHops

LEMMA LaneReturn ==
    ASSUME TypeOK, Shape, TypeOK', Shape', NEW r \in Peers, Return(r), NEW p \in Peers, Lane(p)
    PROVE  Lane(p)'
<1> DEFINE a == Out(p)
<1>1. /\ a \in {1, 4} /\ a \in Hops /\ a + 1 \in Hops /\ a + 2 \in Hops
      /\ Out(r) \in {1, 4} /\ Leaves(r) /\ UNCHANGED <<address, header, copy, sent, got, session>>
      /\ client = "returned" => client' = "returned"
  BY Around, Places, Zenon DEF Return
<1>2. sent[p] <= sent'[p]
  BY <1>1, Parts
<1>3. /\ \A h \in Hops : Cut(hop[h], hop'[h])
      /\ hop'[Out(r) + 1].end # "open" /\ hop'[Out(r) + 1].data = hop[Out(r) + 1].data
      /\ hop'[7 - Out(r)].end # "open"
  BY <1>1, Leaving, Zenon
<1>4. /\ Cut(hop[a], hop'[a]) /\ Cut(hop[a + 1], hop'[a + 1]) /\ Cut(hop[a + 2], hop'[a + 2])
  BY <1>1, <1>3, Zenon
<1>5. CASE p # r
  <2>1. 7 - Out(r) = a + 2
    BY <1>1, <1>5, Around, Zenon DEF Peers, Other
  <2>2. Depth(p)' = 0
    BY <1>3, <2>1, Zenon DEF Depth, Flows
  <2>3. ~(0 >= 1) /\ ~(0 >= 2) /\ ~(0 >= 3)
    OBVIOUS
  <2>4. QED
    BY <1>1, <1>2, <1>4, <2>2, <2>3, LaneCuts, Zenon
<1>6. CASE p = r
  <2>1. Depth(p)' <= 1
    BY <1>3, <1>6 DEF Depth, Flows
  <2>2. Depth(p)' \in 0..3
    BY DepthRangeNext, Zenon
  <2>3. \/ Skip(a + 1)' = Skip(a + 1)
        \/ hop'[a + 1].data = <<>>
    <3>1. CASE p = "backend"
      BY <1>1, <3>1, Around DEF Skip
    <3>2. CASE p = "user" /\ server = "header"
      BY <1>3, <1>6, <3>2 DEF Shape, Out
    <3>3. CASE p = "user" /\ server # "header"
      BY <1>1, <1>6, <3>3, Zenon DEF Return, Skip
    <3>4. QED
      BY <3>1, <3>2, <3>3, Zenon DEF Peers
  <2>4. Depth(p)' >= 1 => Depth(p)' = 1
    BY <2>1, <2>2
  <2>5. ~(Depth(p)' >= 2) /\ ~(Depth(p)' >= 3)
    BY <2>1, <2>2
  <2>6. QED
    BY <1>1, <1>2, <1>4, <2>3, <2>4, <2>5, LaneCuts, Zenon
<1>7. QED
  BY <1>5, <1>6, Zenon

LEMMA SkipOfByte ==
    ASSUME TypeOK, Shape, HeaderByte
    PROVE  Skip(2) \in Nat \ {0} /\ Skip(2)' = Skip(2) - 1
<1>1. /\ client = "header" /\ server # "header" /\ server' # "header" /\ address' = address
      /\ header <= address /\ address \in Nat /\ header \in Nat
  BY SizesAssumption DEF TypeOK, Shape, HeaderByte
<1>2. Skip(2) = address + 1 - header
  BY <1>1, Zenon DEF Skip
<1>3. Skip(2) \in Nat \ {0}
  BY <1>1, <1>2
<1>4. CASE Skip(2) = 1 /\ client' = "dial"
  <2>1. Skip(2)' = 0
    BY <1>4 DEF Skip
  <2>2. QED
    BY <1>3, <1>4, <2>1
<1>5. CASE header' = header + 1 /\ client' = client
  <2>1. Skip(2)' = address + 1 - (header + 1)
    BY <1>1, <1>5, Zenon DEF Skip
  <2>2. QED
    BY <1>1, <1>2, <1>3, <2>1
<1>6. QED
  BY <1>3, <1>4, <1>5, Zenon DEF HeaderByte

LEMMA LaneHandler ==
    ASSUME TypeOK, Shape, TypeOK', Shape', GiveUp \/ HeaderSent \/ HeaderByte \/ Dialled \/ Loses,
           NEW p \in Peers, Lane(p)
    PROVE  Lane(p)'
<1>1. /\ Out("user") = 1 /\ Out("backend") = 4 /\ Other("user") = "backend"
      /\ p = "user" \/ p = "backend"
      /\ 1 \in Hops /\ 2 \in Hops /\ 3 \in Hops /\ 4 \in Hops /\ 5 \in Hops /\ 6 \in Hops
      /\ 1 \in Copies /\ 2 \in Copies /\ 4 \in Copies /\ 5 \in Copies
      /\ 1 + 1 = 2 /\ 1 + 2 = 3 /\ 4 + 1 = 5 /\ 4 + 2 = 6
  BY DEF Out, Other, Peers, Hops, Copies
<1>2. /\ hop[Out(p)].data \in Seq(Int) /\ hop[Out(p) + 1].data \in Seq(Int)
      /\ hop[Out(p) + 2].data \in Seq(Int)
      /\ copy[Out(p)].buf \in Seq(Int) /\ copy[Out(p) + 1].buf \in Seq(Int)
      /\ got[Other(p)] \in Seq(Int) /\ sent[p] \in Nat
  BY Parts, Zenon
<1>3. Depth(p) \in 0..3 /\ Depth(p)' \in 0..3
  BY DepthRange, DepthRangeNext, Zenon
<1>4. UNCHANGED <<got, sent, address>>
  BY Zenon DEF GiveUp, HeaderSent, HeaderByte, Dialled, Loses
<1>5. CASE GiveUp
  <2>1. \A h \in Hops : Cut(hop[h], hop'[h])
    BY <1>1, <1>5, CutsHold, Zenon DEF GiveUp
  <2>2. /\ Cut(hop[Out(p)], hop'[Out(p)]) /\ Cut(hop[Out(p) + 1], hop'[Out(p) + 1])
        /\ Cut(hop[Out(p) + 2], hop'[Out(p) + 2])
    BY <1>1, <2>1
  <2>3. client' = "returned" /\ UNCHANGED copy /\ sent[p] <= sent'[p]
    BY <1>2, <1>4, <1>5, NoLess, Zenon DEF GiveUp
  <2>4. CASE p = "user"
    <3>1. Depth(p)' = 0
      BY <2>3, <2>4, Zenon DEF Depth
    <3>2. ~(Depth(p)' >= 1) /\ ~(Depth(p)' >= 2) /\ ~(Depth(p)' >= 3)
      BY <3>1
    <3>3. QED
      BY <1>4, <2>2, <2>3, <3>2, LaneCuts, Zenon
  <2>5. CASE p = "backend"
    <3>1. Skip(Out(p) + 1)' = Skip(Out(p) + 1)
      BY <1>1, <2>5 DEF Skip
    <3>2. QED
      BY <1>4, <2>2, <2>3, <3>1, LaneCuts, Zenon
  <2>6. QED
    BY <1>1, <2>4, <2>5, Zenon
<1>6. CASE HeaderSent
  <2>1. /\ hop'[1] = hop[1] /\ hop'[3] = hop[3] /\ hop'[4] = hop[4]
        /\ hop'[5] = hop[5] /\ hop'[6] = hop[6]
        /\ \A c \in Copies : copy'[c].buf = copy[c].buf
    BY <1>1, <1>6, Six, Zenon DEF HeaderSent, SameHops, SameCopies
  <2>2. CASE p = "backend"
    <3>1. /\ hop'[Out(p)] = hop[Out(p)] /\ hop'[Out(p) + 1] = hop[Out(p) + 1]
          /\ hop'[Out(p) + 2] = hop[Out(p) + 2] /\ copy'[Out(p)].buf = copy[Out(p)].buf
          /\ copy'[Out(p) + 1].buf = copy[Out(p) + 1].buf /\ p # "user"
      <4>1. Out(p) = 4 /\ Out(p) + 1 = 5 /\ Out(p) + 2 = 6 /\ "backend" # "user"
        BY <1>1, <2>2, Zenon
      <4>2. QED
        BY <1>1, <2>1, <2>2, <4>1, Zenon
    <3>2. Flows(Out(p))' = Flows(Out(p))
      BY <3>1, Zenon DEF Flows
    <3>3. QED
      BY <1>4, <3>1, <3>2, LaneFrame, Zenon
  <2>3. CASE p = "user"
    <3>1. /\ hop[2].data = <<>> /\ copy[1].buf = <<>> /\ Skip(2) = 0 /\ client' = client
          /\ client = "header" /\ hop'[2].data = <<>> \o Header
          /\ header = 0 /\ header' = 0 /\ server' = "piping"
      BY <1>1, <1>6, Zenon DEF HeaderSent, Shape, Skip
    <3>2. Depth(p)' = Depth(p)
      <4>1. hop'[2].end = hop[2].end /\ hop'[2].reader = hop[2].reader
        BY <1>6, Zenon DEF HeaderSent, Shape
      <4>2. Flows(1)' = Flows(1) /\ Flows(2)' = Flows(2) /\ Flows(3)' = Flows(3)
        BY <2>1, <4>1, Zenon DEF Flows
      <4>3. Out(p) = 1 /\ Out(p) + 1 = 2 /\ Out(p) + 2 = 3
        BY <1>1, <2>3, Zenon
      <4>4. QED
        BY <3>1, <4>2, <4>3, Zenon DEF Depth
    <3>3. Header \in Seq(Int) /\ Len(Header) = address + 1
      BY HeaderBytes, Zenon
    <3>4. LaneOf(got["backend"], hop[3].data, copy[2].buf, <<>>, 0, <<>>, hop[1].data,
                 sent[p], Depth(p))
      <4>1. Out(p) = 1 /\ Out(p) + 1 = 2 /\ Out(p) + 2 = 3 /\ Other(p) = "backend"
        BY <1>1, <2>3, Zenon
      <4>2. QED
        BY <3>1, <4>1, Zenon DEF Lane
    <3>5. CASE client = "header"
      <4>1. Skip(2)' = Len(Header)
        <5>1. Skip(2)' = address + 1 - 0 /\ address \in Addresses
          BY <1>4, <3>1, Zenon DEF Skip, TypeOK
        <5>2. \A x \in Addresses : x + 1 - 0 = x + 1
          BY SizesAssumption
        <5>3. QED
          BY <3>3, <5>1, <5>2, Zenon
      <4>2. LaneOf(got["backend"], hop[3].data, copy[2].buf, <<>> \o Header, Len(Header), <<>>,
                   hop[1].data, sent[p], Depth(p))
        <5>1. /\ hop[1].data \in Seq(Int) /\ hop[3].data \in Seq(Int) /\ copy[2].buf \in Seq(Int)
              /\ got["backend"] \in Seq(Int)
          BY <1>1, <1>2, <2>3
        <5>2. QED
          BY <1>2, <1>3, <3>3, <3>4, <5>1, LaneHeader, Zenon
      <4>3. QED
        <5>1. Out(p) = 1 /\ Out(p) + 1 = 2 /\ Out(p) + 2 = 3 /\ Other(p) = "backend"
          BY <1>1, <2>3, Zenon
        <5>2. copy'[1].buf = <<>> /\ copy'[2].buf = copy[2].buf
          BY <1>1, <2>1, <3>1, Zenon
        <5>3. QED
          BY <1>4, <2>1, <3>1, <3>2, <4>1, <4>2, <5>1, <5>2, Zenon DEF Lane
    <3>6. QED
      BY <3>1, <3>5, Zenon
  <2>4. QED
    BY <1>1, <2>2, <2>3, Zenon
<1>7. CASE HeaderByte
  <2>1. /\ hop'[1] = hop[1] /\ hop'[3] = hop[3] /\ hop'[4] = hop[4]
        /\ hop'[5] = hop[5] /\ hop'[6] = hop[6] /\ UNCHANGED <<copy, server>>
    BY <1>1, <1>7, Six, Zenon DEF HeaderByte, SameHops
  <2>2. CASE p = "backend"
    <3>1. /\ hop'[Out(p)] = hop[Out(p)] /\ hop'[Out(p) + 1] = hop[Out(p) + 1]
          /\ hop'[Out(p) + 2] = hop[Out(p) + 2] /\ copy'[Out(p)].buf = copy[Out(p)].buf
          /\ copy'[Out(p) + 1].buf = copy[Out(p) + 1].buf /\ p # "user"
      <4>1. Out(p) = 4 /\ Out(p) + 1 = 5 /\ Out(p) + 2 = 6 /\ "backend" # "user"
        BY <1>1, <2>2, Zenon
      <4>2. QED
        BY <1>1, <2>1, <2>2, <4>1, Zenon
    <3>2. Flows(Out(p))' = Flows(Out(p))
      BY <3>1, Zenon DEF Flows
    <3>3. QED
      BY <1>4, <3>1, <3>2, LaneFrame, Zenon
  <2>3. CASE p = "user"
    <3>1. /\ client = "header" /\ server # "header" /\ hop[2].data # <<>>
          /\ hop'[2].data = Rest(hop[2].data, 1) /\ hop'[2].end = hop[2].end
          /\ hop'[2].reader = hop[2].reader /\ client' # "returned"
      BY <1>7, Zenon DEF HeaderByte
    <3>2. Depth(p)' = Depth(p)
      <4>1. Flows(1)' = Flows(1) /\ Flows(2)' = Flows(2) /\ Flows(3)' = Flows(3)
        BY <2>1, <3>1, Zenon DEF Flows
      <4>2. Out(p) = 1 /\ Out(p) + 1 = 2 /\ Out(p) + 2 = 3
        BY <1>1, <2>3, Zenon
      <4>3. QED
        BY <3>1, <4>1, <4>2, Zenon DEF Depth
    <3>3. Skip(2) \in Nat \ {0} /\ Skip(2)' = Skip(2) - 1
      BY <1>7, SkipOfByte, Zenon
    <3>4. LaneOf(got["backend"], hop[3].data, copy[2].buf, hop[2].data, Skip(2), copy[1].buf,
                 hop[1].data, sent[p], Depth(p))
      BY <1>1, <2>3 DEF Lane
    <3>5. /\ hop[1].data \in Seq(Int) /\ hop[2].data \in Seq(Int) /\ hop[3].data \in Seq(Int)
          /\ copy[1].buf \in Seq(Int) /\ copy[2].buf \in Seq(Int) /\ got["backend"] \in Seq(Int)
      BY <1>1, <1>2, <2>3
    <3>6. LaneOf(got["backend"], hop[3].data, copy[2].buf, Rest(hop[2].data, 1), Skip(2) - 1,
                 copy[1].buf, hop[1].data, sent[p], Depth(p))
      BY <1>2, <1>3, <3>1, <3>3, <3>4, <3>5, LaneHeaderRead, Zenon
    <3>7. QED
      BY <1>1, <1>4, <2>1, <2>3, <3>1, <3>2, <3>3, <3>6 DEF Lane
  <2>4. QED
    BY <1>1, <2>2, <2>3, Zenon
<1>8. CASE Dialled
  <2>1. /\ UNCHANGED hop /\ \A c \in Copies : copy'[c].buf = copy[c].buf
        /\ client = "dial" /\ client' = "piping"
    BY <1>1, <1>8, Zenon DEF Dialled, SameCopies, Copies
  <2>2. Skip(Out(p) + 1)' = Skip(Out(p) + 1) /\ Depth(p)' = Depth(p)
    BY <2>1, Zenon DEF Skip, Depth, Flows
  <2>3. QED
    BY <1>1, <1>4, <2>1, <2>2 DEF Lane
<1>9. CASE Loses
  <2>1. \A h \in Hops : Cut(hop[h], hop'[h])
    BY <1>1, <1>9, CutsHold, Zenon DEF Loses
  <2>2. /\ Cut(hop[Out(p)], hop'[Out(p)]) /\ Cut(hop[Out(p) + 1], hop'[Out(p) + 1])
        /\ Cut(hop[Out(p) + 2], hop'[Out(p) + 2])
    BY <1>1, <2>1
  <2>3. UNCHANGED <<client, copy>> /\ sent[p] <= sent'[p] /\ Skip(Out(p) + 1)' = Skip(Out(p) + 1)
    BY <1>2, <1>4, <1>9 DEF Loses, Skip
  <2>4. QED
    BY <1>4, <2>2, <2>3, LaneCuts, Zenon
<1>10. QED
  BY <1>5, <1>6, <1>7, <1>8, <1>9, Zenon

\* The lane of a copy, and whether it is the first of it.
LEMMA LaneReads ==
    ASSUME TypeOK, Shape, NEW c \in Copies, Reads(c), NEW p \in Peers, Lane(p)
    PROVE  Lane(p)'
<1> DEFINE a == Out(p)
<1>1. /\ a \in {1, 4} /\ a \in Hops /\ a + 1 \in Hops /\ a + 2 \in Hops /\ a \in Copies /\ a + 1 \in Copies
      /\ c \in {a, a + 1, 5 - a, 6 - a} /\ (a = 1 <=> p = "user")
  BY Around, Places, CopyPlaces, Zenon
<1>2. /\ hop[a].data \in Seq(Int) /\ hop[a + 1].data \in Seq(Int) /\ hop[a + 2].data \in Seq(Int)
      /\ copy[a].buf \in Seq(Int) /\ copy[a + 1].buf \in Seq(Int)
      /\ got[Other(p)] \in Seq(Int) /\ sent[p] \in Nat
  BY Parts, Zenon
<1>3. UNCHANGED <<address, server, client, header, sent, got>>
  BY Zenon DEF Reads
<1>4. /\ Skip(a + 1)' = Skip(a + 1) /\ Skip(a + 1) \in Nat
      /\ c = a + 1 => Skip(a + 1) = 0
  <2>1. c = 2 => client # "header"
    BY Zenon DEF Reads, Shape
  <2>2. QED
    BY <1>1, <1>3, <2>1, SkipType, Zenon DEF Skip
<1>5. Depth(p)' = Depth(p) /\ Depth(p) \in 0..3
  <2>1. \A h \in Hops : hop'[h].end = hop[h].end /\ hop'[h].reader = hop[h].reader
    BY Zenon DEF Reads, SameHops
  <2>2. Flows(a)' = Flows(a) /\ Flows(a + 1)' = Flows(a + 1) /\ Flows(a + 2)' = Flows(a + 2)
    BY <1>1, <2>1, Zenon DEF Flows
  <2>3. QED
    BY <1>3, <2>2, DepthRange, Zenon DEF Depth
<1>6. LaneOf(got[Other(p)], hop[a + 2].data, copy[a + 1].buf, hop[a + 1].data,
             Skip(a + 1), copy[a].buf, hop[a].data, sent[p], Depth(p))
  BY Zenon DEF Lane
<1> HIDE DEF a
<1>7. CASE c = a
  <2>1. /\ hop'[a + 1] = hop[a + 1] /\ hop'[a + 2] = hop[a + 2] /\ copy'[a + 1] = copy[a + 1]
        /\ copy[a].buf = <<>> /\ copy'[a].buf = Taken(hop[a].data, BufSize)
        /\ hop'[a].data = Rest(hop[a].data, BufSize)
    BY <1>1, <1>7, Places, Zenon DEF Reads, SameHops, SameCopies, a
  <2>2. LaneOf(got[Other(p)], hop[a + 2].data, copy[a + 1].buf, hop[a + 1].data, Skip(a + 1),
               Taken(hop[a].data, BufSize), Rest(hop[a].data, BufSize), sent[p], Depth(p))
    BY <1>2, <1>4, <1>5, <1>6, <2>1, LaneNearRead, Zenon
  <2>3. QED
    BY <1>3, <1>4, <1>5, <2>1, <2>2, Zenon DEF Lane, a
<1>8. CASE c = a + 1
  <2>1. /\ hop'[a] = hop[a] /\ hop'[a + 2] = hop[a + 2] /\ copy'[a] = copy[a]
        /\ copy[a + 1].buf = <<>> /\ copy'[a + 1].buf = Taken(hop[a + 1].data, BufSize)
        /\ hop'[a + 1].data = Rest(hop[a + 1].data, BufSize) /\ Skip(a + 1) = 0
    BY <1>1, <1>4, <1>8, Places, Zenon DEF Reads, SameHops, SameCopies, a
  <2>2. LaneOf(got[Other(p)], hop[a + 2].data, Taken(hop[a + 1].data, BufSize),
               Rest(hop[a + 1].data, BufSize), 0, copy[a].buf, hop[a].data, sent[p], Depth(p))
    BY <1>2, <1>5, <1>6, <2>1, LaneFarRead, Zenon
  <2>3. QED
    BY <1>3, <1>4, <1>5, <2>1, <2>2, Zenon DEF Lane, a
<1>9. CASE c \notin {a, a + 1}
  <2>1. c \notin {a, a + 1, a + 2}
    BY <1>1, <1>9
  <2>2. /\ hop'[a] = hop[a] /\ hop'[a + 1] = hop[a + 1] /\ hop'[a + 2] = hop[a + 2]
        /\ copy'[a] = copy[a] /\ copy'[a + 1] = copy[a + 1]
    BY <1>1, <2>1, Zenon DEF Reads, SameHops, SameCopies
  <2>3. QED
    BY <1>3, <1>4, <1>5, <1>6, <2>2, Zenon DEF Lane, a
<1>10. QED
  BY <1>7, <1>8, <1>9, Zenon

LEMMA LaneStops ==
    ASSUME TypeOK, Shape, TypeOK', Shape', NEW c \in Copies, Stops(c), NEW p \in Peers, Lane(p)
    PROVE  Lane(p)'
<1> DEFINE a == Out(p)
<1>1. /\ a \in {1, 4} /\ a \in Hops /\ a + 1 \in Hops /\ a + 2 \in Hops /\ a \in Copies /\ a + 1 \in Copies
      /\ c \in {a, a + 1, 5 - a, 6 - a}
  BY Around, Places, CopyPlaces, Zenon
<1>2. UNCHANGED <<address, hop, server, client, header, sent, got>> /\ sent[p] <= sent'[p]
  BY Parts, NoLess, Zenon DEF Stops
<1>3. /\ Cut(hop[a], hop'[a]) /\ Cut(hop[a + 1], hop'[a + 1]) /\ Cut(hop[a + 2], hop'[a + 2])
  BY <1>2, Parts, CutSame, Zenon
<1>4. Skip(a + 1)' = Skip(a + 1) /\ Depth(p)' = Depth(p) /\ Depth(p) \in 0..3
  <2>1. Skip(a + 1)' = Skip(a + 1)
    BY <1>2, Zenon DEF Skip
  <2>2. Depth(p)' = Depth(p)
    BY <1>2, Zenon DEF Depth, Flows
  <2>3. QED
    BY <2>1, <2>2, DepthRange, Zenon
<1>5. /\ Depth(p) >= 1 => hop[a + 2].end = "open"
      /\ Depth(p) >= 2 => hop[a + 1].end = "open"
  BY DEF Depth, Flows
<1>6. Depth(p)' >= 1 => copy'[a + 1].buf = copy[a + 1].buf
  <2>1. CASE c = a + 1
    BY <1>4, <1>5, <2>1, Places, Zenon DEF Stops
  <2>2. CASE c # a + 1
    BY <1>1, <2>2, Zenon DEF Stops, SameCopies
  <2>3. QED
    BY <2>1, <2>2, Zenon
<1>7. Depth(p)' >= 2 => copy'[a].buf = copy[a].buf
  <2>1. CASE c = a
    BY <1>1, <1>4, <1>5, <2>1, Zenon DEF Stops
  <2>2. CASE c # a
    BY <1>1, <2>2, Zenon DEF Stops, SameCopies
  <2>3. QED
    BY <2>1, <2>2, Zenon
<1>8. QED
  BY <1>2, <1>3, <1>4, <1>6, <1>7, LaneCuts, Zenon

LEMMA LanePasses ==
    ASSUME TypeOK, Shape, NEW c \in Copies, Passes(c), NEW p \in Peers, Lane(p), Causes("backend")
    PROVE  Lane(p)'
<1> DEFINE a == Out(p)
<1>1. /\ a \in {1, 4} /\ a \in Hops /\ a + 1 \in Hops /\ a + 2 \in Hops /\ a \in Copies /\ a + 1 \in Copies
      /\ c \in {a, a + 1, 5 - a, 6 - a} /\ (a = 1 <=> p = "user") /\ c + 1 \in Hops
  BY Around, Places, CopyPlaces, Zenon
<1>2. /\ hop[a].data \in Seq(Int) /\ hop[a + 1].data \in Seq(Int) /\ hop[a + 2].data \in Seq(Int)
      /\ copy[a].buf \in Seq(Int) /\ copy[a + 1].buf \in Seq(Int)
      /\ got[Other(p)] \in Seq(Int) /\ sent[p] \in Nat
  BY Parts, Zenon
<1>3. UNCHANGED <<address, server, client, header, sent, got>>
  BY Zenon DEF Passes
<1>4. /\ Skip(a + 1)' = Skip(a + 1) /\ Skip(a + 1) \in Nat
      /\ c = a + 1 => Skip(a + 1) = 0
  <2>1. c = 2 => client # "header"
    BY Zenon DEF Passes, Shape
  <2>2. QED
    BY <1>1, <1>3, <2>1, SkipType, Zenon DEF Skip
<1>5. Depth(p)' = Depth(p) /\ Depth(p) \in 0..3
  <2>1. \A h \in Hops : hop'[h].end = hop[h].end /\ hop'[h].reader = hop[h].reader
    BY Zenon DEF Passes, SameHops
  <2>2. Flows(a)' = Flows(a) /\ Flows(a + 1)' = Flows(a + 1) /\ Flows(a + 2)' = Flows(a + 2)
    BY <1>1, <2>1, Zenon DEF Flows
  <2>3. QED
    BY <1>3, <2>2, DepthRange, Zenon DEF Depth
<1>6. LaneOf(got[Other(p)], hop[a + 2].data, copy[a + 1].buf, hop[a + 1].data,
             Skip(a + 1), copy[a].buf, hop[a].data, sent[p], Depth(p))
  BY Zenon DEF Lane
<1>7. c = a => Depth(p) \in {0, 2, 3}
  BY Zenon DEF Depth, Passes, Flows
<1>8. c = a + 1 => Depth(p) \in 1..3
  <2>1. c = 2 => client # "returned"
    BY DEF Passes, Causes, Connected, Returned, In, Out
  <2>2. QED
    BY <1>1, <2>1 DEF Depth, Passes, Flows
<1> HIDE DEF a
<1>9. CASE c = a
  <2>1. /\ hop'[a] = hop[a] /\ hop'[a + 2] = hop[a + 2] /\ copy'[a + 1] = copy[a + 1]
        /\ copy'[a].buf = <<>> /\ hop'[a + 1].data = hop[a + 1].data \o copy[a].buf
    <3>1. c + 1 = a + 1 /\ a + 1 # a /\ a + 1 # a + 2
      BY <1>1, <1>9
    <3>2. QED
      BY <1>1, <1>9, <3>1, Zenon DEF Passes, SameHops, SameCopies
  <2>2. LaneOf(got[Other(p)], hop[a + 2].data, copy[a + 1].buf, hop[a + 1].data \o copy[a].buf,
               Skip(a + 1), <<>>, hop[a].data, sent[p], Depth(p))
    <3>1. Depth(p) # 1
      BY <1>7, <1>9
    <3>2. QED
      BY <1>2, <1>4, <1>5, <1>6, <3>1, LaneNearWrite, Zenon
  <2>3. QED
    BY <1>3, <1>4, <1>5, <2>1, <2>2, Zenon DEF Lane, a
<1>10. CASE c = a + 1
  <2>1. /\ hop'[a] = hop[a] /\ hop'[a + 1] = hop[a + 1] /\ copy'[a] = copy[a]
        /\ copy'[a + 1].buf = <<>> /\ hop'[a + 2].data = hop[a + 2].data \o copy[a + 1].buf
        /\ Skip(a + 1) = 0
    <3>1. c + 1 = a + 2 /\ a + 2 # a /\ a + 2 # a + 1 /\ a # a + 1
      BY <1>1, <1>10
    <3>2. QED
      BY <1>1, <1>4, <1>10, <3>1, Zenon DEF Passes, SameHops, SameCopies
  <2>2. LaneOf(got[Other(p)], hop[a + 2].data \o copy[a + 1].buf, <<>>, hop[a + 1].data,
               0, copy[a].buf, hop[a].data, sent[p], Depth(p))
    BY <1>2, <1>6, <1>8, <1>10, <2>1, LaneFarWrite, Zenon
  <2>3. QED
    BY <1>3, <1>4, <1>5, <2>1, <2>2, Zenon DEF Lane, a
<1>11. CASE c \notin {a, a + 1}
  <2>1. c + 1 \notin {a, a + 1, a + 2}
    BY <1>1, <1>11
  <2>2. /\ hop'[a] = hop[a] /\ hop'[a + 1] = hop[a + 1] /\ hop'[a + 2] = hop[a + 2]
        /\ copy'[a] = copy[a] /\ copy'[a + 1] = copy[a + 1]
    BY <1>1, <1>11, <2>1, Zenon DEF Passes, SameHops, SameCopies
  <2>3. QED
    BY <1>3, <1>4, <1>5, <1>6, <2>2, Zenon DEF Lane, a
<1>12. QED
  BY <1>9, <1>10, <1>11, Zenon

LEMMA LaneBounces ==
    ASSUME TypeOK, Shape, TypeOK', Shape', NEW c \in Copies, Bounces(c), NEW p \in Peers, Lane(p)
    PROVE  Lane(p)'
<1> DEFINE a == Out(p)
<1>1. /\ a \in {1, 4} /\ a \in Hops /\ a + 1 \in Hops /\ a + 2 \in Hops /\ a \in Copies /\ a + 1 \in Copies
      /\ c \in {a, a + 1, 5 - a, 6 - a} /\ 6 - c \in Hops
  BY Around, Places, CopyPlaces, Zenon
<1>2. UNCHANGED <<address, server, client, header, sent, got>> /\ sent[p] <= sent'[p]
  BY Parts, NoLess, Zenon DEF Bounces
<1>3. \A h \in Hops : Cut(hop[h], hop'[h])
  BY <1>1, CutsHold, Zenon DEF Bounces
<1>4. /\ Cut(hop[a], hop'[a]) /\ Cut(hop[a + 1], hop'[a + 1]) /\ Cut(hop[a + 2], hop'[a + 2])
  BY <1>1, <1>3, Zenon
<1>5. Skip(a + 1)' = Skip(a + 1)
  BY <1>2, Zenon DEF Skip
<1>6. c # a
  BY Across, Zenon DEF Bounces, Shape
<1>7. c = a + 1 => Depth(p)' = 0
  <2>1. SUFFICES ASSUME c = a + 1
                 PROVE  Depth(p)' = 0
    BY Zenon
  <2>2. c + 1 = a + 2
    BY <2>1, Places, Zenon
  <2>3. hop'[a + 2].reader # "there"
    BY <1>4, <2>2, Zenon DEF Bounces, Cut
  <2>4. QED
    BY <2>3, Zenon DEF Depth, Flows
<1>8. Depth(p)' >= 1 => copy'[a + 1].buf = copy[a + 1].buf
  <2>1. ~(0 >= 1)
    OBVIOUS
  <2>2. QED
    BY <1>1, <1>7, <2>1, Zenon DEF Bounces, SameCopies
<1>9. copy'[a].buf = copy[a].buf
  BY <1>1, <1>6, Zenon DEF Bounces, SameCopies
<1>10. QED
  BY <1>2, <1>4, <1>5, <1>8, <1>9, LaneCuts, Zenon

\* Steps of the peer r, on its own lane and on the one towards it.
LEMMA LaneOwn ==
    ASSUME TypeOK, Shape, TypeOK', Shape', NEW p \in Peers, Lane(p),
           \/ Receives(p) \/ ShutsDown(p) \/ Closes(p)
           \/ \E n \in 1..MaxBytes : Sends(p, n) \/ SendBounces(p, n)
    PROVE  Lane(p)'
<1> DEFINE a == Out(p)
<1>1. /\ a \in {1, 4} /\ a \in Hops /\ a + 1 \in Hops /\ a + 2 \in Hops /\ In(p) = 7 - a
      /\ a + 1 \notin {a, 7 - a} /\ a + 2 \notin {a, 7 - a} /\ a # 7 - a
  BY Around, Places, Zenon
<1>2. UNCHANGED <<address, server, client, header, copy>> /\ SameHops({a, 7 - a})
  BY <1>1, Zenon DEF Receives, ShutsDown, Closes, Sends, SendBounces, SameHops
<1>3. hop'[a + 1] = hop[a + 1] /\ hop'[a + 2] = hop[a + 2]
  BY <1>1, <1>2, Zenon DEF SameHops
<1>4. Skip(a + 1)' = Skip(a + 1) /\ Skip(a + 1) \in Nat
  BY <1>1, <1>2, SkipType, Zenon DEF Skip
<1>5. /\ hop[a].data \in Seq(Int) /\ hop[a + 1].data \in Seq(Int) /\ hop[a + 2].data \in Seq(Int)
      /\ copy[a].buf \in Seq(Int) /\ copy[a + 1].buf \in Seq(Int)
      /\ got[Other(p)] \in Seq(Int) /\ sent[p] \in Nat
      /\ hop[a] \in Hop /\ hop[a + 1] \in Hop /\ hop[a + 2] \in Hop
  BY Parts, Zenon
<1>6. Cut(hop[a + 1], hop'[a + 1]) /\ Cut(hop[a + 2], hop'[a + 2])
  BY <1>3, <1>5, CutSame, Zenon
<1>7. CASE Receives(p)
  <2>1. hop'[a] = hop[a]
    BY <1>1, <1>7, Zenon DEF Receives, SameHops
  <2>2. Flows(a)' = Flows(a)
    BY <2>1, Zenon DEF Flows
  <2>3. UNCHANGED <<sent>> /\ got'[Other(p)] = got[Other(p)]
    BY <1>7, Zenon DEF Receives
  <2>4. QED
    BY <1>2, <1>3, <2>1, <2>2, <2>3, LaneFrame, Zenon
<1>8. CASE ShutsDown(p) \/ Closes(p)
  <2>1. Cut(hop[a], hop'[a])
    <3>1. CASE ShutsDown(p)
      <4>1. Len(hop[a].data) <= Len(hop[a].data)
        BY <1>5, Lengths, NoLess, Zenon
      <4>2. QED
        BY <3>1, <4>1, Zenon DEF ShutsDown, Cut
    <3>2. CASE Closes(p)
      BY <3>2, Zenon DEF Closes
    <3>3. QED
      BY <1>8, <3>1, <3>2, Zenon
  <2>2. got' = got /\ sent' = sent /\ sent[p] <= sent'[p]
    BY <1>5, <1>8, NoLess, Zenon DEF ShutsDown, Closes
  <2>3. QED
    BY <1>2, <1>4, <1>6, <2>1, <2>2, LaneCuts, Zenon
<1>9. ASSUME NEW n \in 1..MaxBytes, Sends(p, n)
      PROVE  Lane(p)'
  <2>1. /\ hop'[a].data = hop[a].data \o [i \in 1..n |-> sent[p] + i]
        /\ hop[a].end = "open" /\ hop[a].reader = "there"
        /\ hop'[a].end = "open" /\ hop'[a].reader = "there" /\ got' = got /\ sent'[p] = sent[p] + n
    BY <1>9, Zenon DEF Sends
  <2>2. Depth(p)' = Depth(p) /\ Depth(p) \in {0, 1, 3}
    BY <1>2, <1>3, <2>1, Zenon DEF Depth, Flows
  <2>3. LaneOf(got[Other(p)], hop[a + 2].data, copy[a + 1].buf, hop[a + 1].data,
               Skip(a + 1), copy[a].buf, hop[a].data, sent[p], Depth(p))
    BY Zenon DEF Lane
  <2>4. n \in Nat
    BY SizesAssumption
  <2> HIDE DEF a
  <2>5. LaneOf(got[Other(p)], hop[a + 2].data, copy[a + 1].buf, hop[a + 1].data,
               Skip(a + 1), copy[a].buf, hop[a].data \o [i \in 1..n |-> sent[p] + i],
               sent[p] + n, Depth(p))
    <3>1. Depth(p) \in 0..3 /\ Depth(p) # 2
      BY <2>2
    <3>2. QED
      BY <1>4, <1>5, <2>3, <2>4, <3>1, LaneSend, Zenon
  <2>6. QED
    BY <1>2, <1>3, <1>4, <2>1, <2>2, <2>5, Zenon DEF Lane, a
<1>10. ASSUME NEW n \in 1..MaxBytes, SendBounces(p, n)
       PROVE  Lane(p)'
  <2>1. hop'[a] = hop[a] /\ hop[a].reader = "gone" /\ got' = got /\ sent'[p] = sent[p] + n
    BY <1>1, <1>10, Zenon DEF SendBounces, SameHops
  <2>2. Cut(hop[a], hop'[a]) /\ sent[p] <= sent'[p]
    <3>1. n \in Nat
      BY SizesAssumption
    <3>2. QED
      BY <1>5, <2>1, <3>1, CutSame, NoLess, Zenon
  <2>3. ~(Depth(p)' >= 3)
    <3>1. Depth(p)' = 0 \/ Depth(p)' = 1 \/ Depth(p)' = 2
      BY <2>1, Zenon DEF Depth, Flows
    <3>2. QED
      BY <3>1
  <2>4. QED
    BY <1>2, <1>4, <1>6, <2>1, <2>2, <2>3, LaneCuts, Zenon
<1>11. QED
  BY <1>7, <1>8, <1>9, <1>10, Zenon

LEMMA LaneTowards ==
    ASSUME TypeOK, Shape, TypeOK', Shape', NEW p \in Peers, Lane(p), NEW r \in Peers, r = Other(p),
           \/ Receives(r) \/ ShutsDown(r) \/ Closes(r)
           \/ \E n \in 1..MaxBytes : Sends(r, n) \/ SendBounces(r, n)
    PROVE  Lane(p)'
<1> DEFINE a == Out(p)
<1>1. /\ a \in {1, 4} /\ a \in Hops /\ a + 1 \in Hops /\ a + 2 \in Hops
      /\ In(r) = a + 2 /\ Out(r) = 5 - a /\ Other(r) = p
      /\ a \notin {5 - a, a + 2} /\ a + 1 \notin {5 - a, a + 2} /\ a + 2 # 5 - a
  BY Around, Places, Zenon
<1>2. UNCHANGED <<address, server, client, header, copy>> /\ SameHops({5 - a, a + 2})
  BY <1>1, Zenon DEF Receives, ShutsDown, Closes, Sends, SendBounces, SameHops
<1>3. hop'[a] = hop[a] /\ hop'[a + 1] = hop[a + 1] /\ sent'[p] = sent[p]
  BY <1>1, <1>2, Zenon DEF SameHops, Receives, ShutsDown, Closes, Sends, SendBounces
<1>4. Skip(a + 1)' = Skip(a + 1) /\ Skip(a + 1) \in Nat
  BY <1>1, <1>2, SkipType, Zenon DEF Skip
<1>5. /\ hop[a].data \in Seq(Int) /\ hop[a + 1].data \in Seq(Int) /\ hop[a + 2].data \in Seq(Int)
      /\ copy[a].buf \in Seq(Int) /\ copy[a + 1].buf \in Seq(Int)
      /\ got[Other(p)] \in Seq(Int) /\ sent[p] \in Nat
      /\ hop[a] \in Hop /\ hop[a + 1] \in Hop /\ hop[a + 2] \in Hop
  BY Parts, Zenon
<1>6. Cut(hop[a], hop'[a]) /\ Cut(hop[a + 1], hop'[a + 1]) /\ sent[p] <= sent'[p]
  BY <1>3, <1>5, CutSame, NoLess, Zenon
<1>7. CASE Receives(r)
  <2>1. /\ hop[a + 2].data # <<>> /\ got'[r] = Append(got[r], Head(hop[a + 2].data))
        /\ hop'[a + 2].data = Tail(hop[a + 2].data) /\ hop'[a + 2].end = hop[a + 2].end
        /\ hop'[a + 2].reader = hop[a + 2].reader
    BY <1>1, <1>7, Zenon DEF Receives
  <2>2. Depth(p)' = Depth(p) /\ Depth(p) \in 0..3
    <3>1. Depth(p)' = Depth(p)
      BY <1>2, <1>3, <2>1, Zenon DEF Depth, Flows
    <3>2. QED
      BY <3>1, DepthRange, Zenon
  <2>3. LaneOf(got[r], hop[a + 2].data, copy[a + 1].buf, hop[a + 1].data,
               Skip(a + 1), copy[a].buf, hop[a].data, sent[p], Depth(p))
    BY Zenon DEF Lane
  <2> HIDE DEF a
  <2>4. LaneOf(Append(got[r], Head(hop[a + 2].data)), Tail(hop[a + 2].data), copy[a + 1].buf,
               hop[a + 1].data, Skip(a + 1), copy[a].buf, hop[a].data, sent[p], Depth(p))
    BY <1>4, <1>5, <2>1, <2>2, <2>3, LaneReceive, Zenon
  <2>5. QED
    BY <1>2, <1>3, <1>4, <2>1, <2>2, <2>4, Zenon DEF Lane, a
<1>8. CASE ~Receives(r)
  <2>1. got' = got
    BY <1>8, Zenon DEF ShutsDown, Closes, Sends, SendBounces
  <2>2. Cut(hop[a + 2], hop'[a + 2])
    <3>1. CASE ShutsDown(r) \/ \E n \in 1..MaxBytes : Sends(r, n)
      <4>1. hop'[a + 2] = hop[a + 2]
        BY <1>1, <3>1, Zenon DEF ShutsDown, Sends, SameHops
      <4>2. QED
        BY <1>5, <4>1, CutSame, Zenon
    <3>2. CASE Closes(r)
      <4>1. hop'[a + 2].data = <<>> /\ hop'[a + 2].reader = "gone" /\ hop'[a + 2].end = hop[a + 2].end
        BY <1>1, <3>2, Zenon DEF Closes
      <4>2. Len(<<>>) = 0 /\ (\A i \in 1..0 : FALSE) /\ "gone" # "there"
        OBVIOUS
      <4>3. 0 <= Len(hop[a + 2].data)
        <5>1. Len(hop[a + 2].data) \in Nat
          BY <1>5, Lengths, Zenon
        <5>2. QED
          BY <5>1
      <4>4. QED
        BY <4>1, <4>2, <4>3, Zenon DEF Cut
    <3>3. CASE \E n \in 1..MaxBytes : SendBounces(r, n)
      BY <1>1, <3>3, Zenon DEF SendBounces
    <3>4. QED
      BY <1>8, <3>1, <3>2, <3>3, Zenon
  <2>3. QED
    BY <1>2, <1>3, <1>4, <1>6, <2>1, <2>2, LaneCuts, Zenon
<1>9. QED
  BY <1>7, <1>8, Zenon

LEMMA StepLane ==
    ASSUME TypeOK, Shape, TypeOK', Shape', Causes("backend"), Step, NEW p \in Peers, Lane(p)
    PROVE  Lane(p)'
<1>1. \A r \in Peers : r = p \/ r = Other(p)
  BY DEF Peers, Other
<1>2. ASSUME NEW r \in Peers,
             \/ Receives(r) \/ ShutsDown(r) \/ Closes(r)
             \/ \E n \in 1..MaxBytes : Sends(r, n) \/ SendBounces(r, n)
      PROVE  Lane(p)'
  BY <1>1, <1>2, LaneOwn, LaneTowards, Zenon
<1>3. ASSUME NEW c \in Copies, Reads(c) \/ Stops(c) \/ Passes(c) \/ Bounces(c)
      PROVE  Lane(p)'
  BY <1>3, LaneReads, LaneStops, LanePasses, LaneBounces, Zenon
<1>4. QED
  BY <1>2, <1>3, LaneReturn, LaneHandler, Zenon DEF Step

LEMMA FlowNext ==
    ASSUME Flow, [Next]_vars
    PROVE  Flow'
<1>1. CASE Next
  <2>1. TypeOK /\ Shape /\ Step /\ "backend" \in Peers
    BY <1>1, NextStep, Zenon DEF Flow, Peers
  <2>2. TypeOK' /\ Shape'
    BY <2>1, StepType, StepShape, Zenon
  <2>3. ASSUME NEW p \in Peers
        PROVE  Lane(p)' /\ Causes(p)'
    <3>1. Lane(p) /\ Causes(p) /\ Causes("backend")
      BY <2>1, Zenon DEF Flow
    <3>2. QED
      BY <2>1, <2>2, <3>1, StepLane, StepCauses, Zenon
  <2>4. QED
    BY <2>2, <2>3, Zenon DEF Flow
<1>2. CASE UNCHANGED vars
  <2>1. TypeOK' /\ Shape'
    BY <1>2, Zenon DEF Flow, TypeOK, Shape, Skip, vars
  <2>2. ASSUME NEW p \in Peers
        PROVE  Lane(p)' /\ Causes(p)'
    <3>1. /\ hop' = hop /\ copy' = copy /\ sent' = sent /\ got' = got /\ session' = session
          /\ client' = client /\ Skip(Out(p) + 1)' = Skip(Out(p) + 1)
          /\ \A q \in Peers : Returned(q)' = Returned(q) /\ Connected(q)' = Connected(q)
      BY <1>2, Zenon DEF vars, Skip, Returned, Connected
    <3>2. Depth(p)' = Depth(p)
      BY <3>1, Zenon DEF Depth, Flows
    <3>3. QED
      BY <3>1, <3>2, Zenon DEF Flow, Lane, Causes
  <2>3. QED
    BY <2>1, <2>2, Zenon DEF Flow
<1>3. QED
  BY <1>1, <1>2, Zenon

LEMMA FlowInit ==
    ASSUME Init
    PROVE  Flow
<1>1. /\ \A h \in Hops : hop[h].data = <<>> /\ hop[h].end = "open" /\ hop[h].reader = "there"
      /\ \A c \in Copies : copy[c].state = "off" /\ copy[c].buf = <<>>
      /\ \A p \in Peers : sent[p] = 0 /\ got[p] = <<>>
  BY Zenon DEF Init
<1>2. TypeOK
  <2>1. [data |-> <<>>, end |-> "open", reader |-> "there"] \in Hop
    BY Empty, Zenon DEF Hop
  <2>2. [state |-> "off", buf |-> <<>>] \in Copy
    BY Empty, Zenon DEF Copy
  <2>3. 0 \in 0..MaxBytes /\ 0 \in 0..(MaxHeader + 1)
    BY SizesAssumption
  <2>4. <<>> \in Seq(Byte)
    BY Empty
  <2>5. QED
    BY <2>1, <2>2, <2>3, <2>4, Zenon DEF Init, TypeOK
<1>3. Shape
  BY <1>1, SizesAssumption DEF Init, Shape, Hops, Copies
<1>4. ASSUME NEW p \in Peers
      PROVE  Lane(p) /\ Causes(p)
  <2>1. /\ Out(p) \in Hops /\ Out(p) + 1 \in Hops /\ Out(p) + 2 \in Hops /\ In(p) \in Hops
        /\ Out(p) \in Copies /\ Out(p) + 1 \in Copies /\ Other(p) \in Peers
    BY Around, Places, Zenon
  <2>2. Causes(p)
    BY <1>1, <2>1, Zenon DEF Init, Causes, Returned
  <2>3. Skip(Out(p) + 1) = 0 /\ Depth(p) = 3
    BY <1>1, <2>1, Zenon DEF Init, Skip, Depth, Flows
  <2>4. Len(<<>>) = 0 /\ \A k \in Nat, m \in Int : Continues(<<>>, k, m)
    BY ContinuesEmpty, Zenon
  <2>5. LaneOf(<<>>, <<>>, <<>>, <<>>, 0, <<>>, <<>>, 0, 3)
    BY <2>4 DEF LaneOf
  <2>6. QED
    BY <1>1, <2>1, <2>2, <2>3, <2>5, Zenon DEF Lane
<1>5. QED
  BY <1>2, <1>3, <1>4, Zenon DEF Flow

LEMMA FlowAlways == Spec => []Flow
BY FlowInit, FlowNext, PTL DEF Spec

\* The types of TunnelPipe: no handler leaves its states, the client reads at most one
\* byte more than the longest address, and a peer sends only bytes (client.go:85-99).
THEOREM Typing == Spec => []TypeOK
BY FlowAlways, PTL DEF Flow

LEMMA FlowOrdered ==
    ASSUME Flow
    PROVE  Ordered
<1>1. ASSUME NEW p \in Peers
      PROVE  /\ Len(got[p]) <= sent[Other(p)]
             /\ \A i \in DOMAIN got[p] : got[p][i] = i
  <2>1. Other(p) \in Peers /\ Other(Other(p)) = p /\ TypeOK
    BY Around, Zenon DEF Flow
  <2> DEFINE d == hop[Out(Other(p)) + 2].data
  <2>2. /\ got[p] \in Seq(Int) /\ d \in Seq(Int) /\ sent[Other(p)] \in Nat
    BY <2>1, Parts, Zenon
  <2>3. Lane(Other(p))
    BY <2>1, Zenon DEF Flow
  <2>4. Continues(got[p], 0, 0) /\ Len(got[p]) + Len(d) <= sent[Other(p)]
    BY <2>1, <2>3, Zenon DEF Lane, LaneOf
  <2>5. Len(got[p]) \in Nat /\ Len(d) \in Nat /\ DOMAIN got[p] = 1..Len(got[p])
    BY <2>2, Lengths, Zenon
  <2> HIDE DEF d
  <2>6. Len(got[p]) <= sent[Other(p)]
    BY <2>2, <2>4, <2>5
  <2>7. ASSUME NEW i \in DOMAIN got[p]
        PROVE  got[p][i] = i
    <3>1. i \in Nat /\ i > 0
      BY <2>5
    <3>2. got[p][i] = 0 + (i - 0)
      BY <2>4, <3>1, Zenon DEF Continues
    <3>3. QED
      BY <3>1, <3>2
  <2>8. QED
    BY <2>6, <2>7, Zenon
<1>2. QED
  BY <1>1, Zenon DEF Ordered

\* In both directions the bytes received are the first bytes sent, in order and none
\* twice, whatever the sizes of reads, writes, windows and addresses and whoever
\* closes what when: the header is taken off exactly (client.go:85-99, conn.go:45-61).
THEOREM InOrder == Spec => []Ordered
BY FlowAlways, FlowOrdered, PTL

-----------------------------------------------------------------------------
(* What is lost. *)

LEMMA Amounts ==
    ASSUME TypeOK, Shape, NEW p \in Peers
    PROVE  /\ sent[p] \in Nat /\ Got(p) \in Nat /\ Far(p) \in Nat /\ FarHeld(p) \in Nat
           /\ Middle(p) \in Nat /\ Ahead(p) \in Nat /\ NearHeld(p) \in Nat /\ Near(p) \in Nat
           /\ Lost(p) \in Int
<1>1. Ahead(p) \in Nat
  <2>1. Out(p) + 1 \in Hops
    BY Around, Places, Zenon
  <2>2. QED
    BY <2>1, SkipType, Zenon DEF Ahead
<1>2. /\ sent[p] \in Nat /\ Got(p) \in Nat /\ Far(p) \in Nat /\ FarHeld(p) \in Nat
      /\ Middle(p) \in Nat /\ NearHeld(p) \in Nat /\ Near(p) \in Nat
  BY Parts, Lengths, Zenon DEF Got, Far, FarHeld, Middle, NearHeld, Near
<1>3. Lost(p) \in Int
  BY <1>1, <1>2 DEF Lost
<1>4. QED
  BY <1>1, <1>2, <1>3, Zenon

LEMMA AmountsNext ==
    ASSUME TypeOK', Shape', NEW p \in Peers
    PROVE  /\ sent'[p] \in Nat /\ Got(p)' \in Nat /\ Far(p)' \in Nat /\ FarHeld(p)' \in Nat
           /\ Middle(p)' \in Nat /\ Ahead(p)' \in Nat /\ NearHeld(p)' \in Nat /\ Near(p)' \in Nat
           /\ Lost(p)' \in Int
<1>1. Ahead(p)' \in Nat
  <2>1. Out(p) + 1 \in Hops
    BY Around, Places, Zenon
  <2>2. QED
    BY <2>1, SkipTypeNext, Zenon DEF Ahead
<1>2. /\ sent'[p] \in Nat /\ Got(p)' \in Nat /\ Far(p)' \in Nat /\ FarHeld(p)' \in Nat
      /\ Middle(p)' \in Nat /\ NearHeld(p)' \in Nat /\ Near(p)' \in Nat
  BY PartsNext, Lengths, Zenon DEF Got, Far, FarHeld, Middle, NearHeld, Near
<1>3. Lost(p)' \in Int
  BY <1>1, <1>2 DEF Lost
<1>4. QED
  BY <1>1, <1>2, <1>3, Zenon

\* The lane gets shorter, or its peer sends into the void.
LEMMA LostMore ==
    ASSUME TypeOK, Shape, TypeOK', Shape', NEW p \in Peers, Got(p)' = Got(p),
           sent[p] <= sent'[p], Ahead(p) <= Ahead(p)', Far(p)' <= Far(p), FarHeld(p)' <= FarHeld(p),
           Middle(p)' <= Middle(p), NearHeld(p)' <= NearHeld(p), Near(p)' <= Near(p)
    PROVE  /\ Lost(p)' >= Lost(p)
           /\ Far(p)' < Far(p) \/ FarHeld(p)' < FarHeld(p) => Lost(p)' > Lost(p)
<1>1. /\ sent[p] \in Nat /\ Got(p) \in Nat /\ Far(p) \in Nat /\ FarHeld(p) \in Nat
      /\ Middle(p) \in Nat /\ Ahead(p) \in Nat /\ NearHeld(p) \in Nat /\ Near(p) \in Nat
  BY Amounts, Zenon
<1>2. /\ sent'[p] \in Nat /\ Got(p)' \in Nat /\ Far(p)' \in Nat /\ FarHeld(p)' \in Nat
      /\ Middle(p)' \in Nat /\ Ahead(p)' \in Nat /\ NearHeld(p)' \in Nat /\ Near(p)' \in Nat
  BY AmountsNext, Zenon
<1>3. QED
  BY <1>1, <1>2 DEF Lost

LEMMA LostSame ==
    ASSUME NEW p \in Peers, got'[Other(p)] = got[Other(p)],
           sent[p] = sent'[p], Skip(Out(p) + 1)' = Skip(Out(p) + 1),
           hop'[Out(p)].data = hop[Out(p)].data, hop'[Out(p) + 1].data = hop[Out(p) + 1].data,
           hop'[Out(p) + 2].data = hop[Out(p) + 2].data,
           copy'[Out(p)].buf = copy[Out(p)].buf, copy'[Out(p) + 1].buf = copy[Out(p) + 1].buf
    PROVE  Lost(p)' = Lost(p)
BY Zenon DEF Lost, Got, Far, FarHeld, Middle, NearHeld, Near, Ahead

LEMMA LostReturn ==
    ASSUME TypeOK, Shape, TypeOK', Shape', NEW r \in Peers, Return(r), NEW p \in Peers
    PROVE  /\ Lost(p)' >= Lost(p)
           /\ p = r /\ hop[Out(p)].data = <<>> /\ (p = "user" => server # "header") =>
                 Lost(p)' = Lost(p)
           /\ p # r /\ hop'[Out(p) + 2].end # "reset" => Lost(p)' = Lost(p)
<1> DEFINE a == Out(p)
<1>1. /\ a \in {1, 4} /\ a \in Hops /\ a + 1 \in Hops /\ a + 2 \in Hops
      /\ Out(r) \in {1, 4} /\ Leaves(r) /\ UNCHANGED <<address, header, copy, sent, got, session>>
      /\ (a = 1 <=> p = "user")
  BY Around, Places, Zenon DEF Return
<1>2. /\ \A h \in Hops : Cut(hop[h], hop'[h])
      /\ hop'[Out(r) + 1].data = hop[Out(r) + 1].data
      /\ hop'[Out(r) + 2] = hop[Out(r) + 2] /\ hop'[5 - Out(r)] = hop[5 - Out(r)]
      /\ hop'[6 - Out(r)] = hop[6 - Out(r)]
      /\ hop'[7 - Out(r)].end # "reset" => hop'[7 - Out(r)].data = hop[7 - Out(r)].data
      /\ hop'[Out(r)].data = <<>>
  BY <1>1, Leaving, Zenon
<1>3. Near(p)' <= Near(p) /\ Middle(p)' <= Middle(p) /\ Far(p)' <= Far(p)
  BY <1>1, <1>2, Zenon DEF Cut, Near, Middle, Far
<1>4. /\ p = r /\ (p = "user" => server # "header") => Skip(a + 1)' = Skip(a + 1)
      /\ p # r => Skip(a + 1)' = Skip(a + 1)
      /\ Skip(a + 1)' = Skip(a + 1) \/ Skip(a + 1) = 0
  <2>1. CASE p = "backend"
    <3>1. a + 1 # 2
      BY <1>1, <2>1
    <3>2. QED
      BY <3>1, Zenon DEF Skip
  <2>2. CASE p = "user" /\ r = "user"
    <3>1. server' = "returned" /\ client' = client
      BY <2>2, Zenon DEF Return
    <3>2. QED
      BY <1>1, <2>2, <3>1, Zenon DEF Skip
  <2>3. CASE p = "user" /\ r = "backend"
    <3>1. client = "piping" /\ client' = "returned"
      BY <2>3, Zenon DEF Return
    <3>2. QED
      BY <1>1, <2>3, <3>1, Zenon DEF Skip
  <2>4. QED
    BY <2>1, <2>2, <2>3, Zenon DEF Peers
<1>5. sent[p] \in Nat /\ Ahead(p) \in Nat /\ Ahead(p)' \in Nat /\ FarHeld(p) \in Nat /\ NearHeld(p) \in Nat
  BY Amounts, AmountsNext, Zenon
<1>6. /\ Got(p)' = Got(p) /\ FarHeld(p)' = FarHeld(p) /\ NearHeld(p)' = NearHeld(p)
      /\ sent'[p] = sent[p] /\ (Ahead(p)' = Ahead(p) \/ Ahead(p) = 0)
  BY <1>1, <1>4, Zenon DEF Got, FarHeld, NearHeld, Ahead
<1>7. Lost(p)' >= Lost(p)
  <2>1. /\ sent[p] <= sent'[p] /\ Ahead(p) <= Ahead(p)'
        /\ FarHeld(p)' <= FarHeld(p) /\ NearHeld(p)' <= NearHeld(p)
    BY <1>5, <1>6
  <2>2. QED
    BY <1>3, <1>6, <2>1, LostMore, Zenon
<1>8. ASSUME p = r, hop[a].data = <<>>, p = "user" => server # "header"
      PROVE  Lost(p)' = Lost(p)
  BY <1>1, <1>2, <1>4, <1>8, LostSame, Zenon
<1>9. ASSUME p # r, hop'[a + 2].end # "reset"
      PROVE  Lost(p)' = Lost(p)
  <2>1. Out(r) = 5 - a
    BY <1>1, <1>9, Around DEF Peers, Other
  <2>2. 7 - Out(r) = a + 2 /\ 5 - Out(r) = a /\ 6 - Out(r) = a + 1
    BY <1>1, <2>1
  <2>3. hop'[a + 2].data = hop[a + 2].data /\ hop'[a] = hop[a] /\ hop'[a + 1] = hop[a + 1]
    BY <1>2, <1>9, <2>2, Zenon
  <2>4. QED
    BY <1>1, <1>4, <1>9, <2>3, LostSame, Zenon
<1>10. QED
  BY <1>7, <1>8, <1>9, Zenon

LEMMA LostHandler ==
    ASSUME TypeOK, Shape, TypeOK', Shape', NEW p \in Peers
    PROVE  /\ HeaderSent \/ HeaderByte \/ Dialled => Lost(p)' = Lost(p)
           /\ GiveUp /\ p = "backend" => Lost(p)' = Lost(p)
           /\ Loses => Lost(p)' >= Lost(p)
<1>1. /\ Out("user") = 1 /\ Out("backend") = 4 /\ Out(p) + 1 \in {2, 5} /\ Out(p) + 2 \in {3, 6}
      /\ p = "user" \/ p = "backend"
      /\ Out(p) \in Hops /\ Out(p) + 1 \in Hops /\ Out(p) + 2 \in Hops
      /\ Out(p) \in Copies /\ Out(p) + 1 \in Copies /\ 1 + 1 = 2 /\ 4 + 1 = 5
  BY DEF Out, Other, Peers, Hops, Copies
<1>2. /\ sent[p] \in Nat /\ Got(p) \in Nat /\ Far(p) \in Nat /\ FarHeld(p) \in Nat
      /\ Middle(p) \in Nat /\ Ahead(p) \in Nat /\ NearHeld(p) \in Nat /\ Near(p) \in Nat
  BY Amounts, Zenon
<1>3. /\ Middle(p)' \in Nat /\ Ahead(p)' \in Nat
  BY AmountsNext, Zenon
<1>4. ASSUME HeaderSent \/ HeaderByte, p = "backend"
      PROVE  Lost(p)' = Lost(p)
  <2>1. Skip(5)' = Skip(5)
    BY DEF Skip
  <2>2. Out(p) # 2 /\ Out(p) + 1 # 2 /\ Out(p) + 2 # 2
    BY <1>1, <1>4
  <2>3. /\ hop'[Out(p)] = hop[Out(p)] /\ hop'[Out(p) + 1] = hop[Out(p) + 1]
        /\ hop'[Out(p) + 2] = hop[Out(p) + 2] /\ sent' = sent /\ got' = got
    BY <1>1, <1>4, <2>2, Zenon DEF HeaderSent, HeaderByte, SameHops
  <2>4. copy'[Out(p)].buf = copy[Out(p)].buf /\ copy'[Out(p) + 1].buf = copy[Out(p) + 1].buf
    BY <1>1, <1>4, Zenon DEF HeaderSent, HeaderByte, SameCopies
  <2>5. QED
    BY <1>1, <1>4, <2>1, <2>3, <2>4, LostSame, Zenon
<1>5. ASSUME HeaderSent \/ HeaderByte, p = "user", Middle(p)' + Ahead(p) = Middle(p) + Ahead(p)'
      PROVE  Lost(p)' = Lost(p)
  <2>1. Out(p) # 2 /\ Out(p) + 2 # 2
    BY <1>1, <1>5
  <2>2. /\ hop'[Out(p)] = hop[Out(p)] /\ hop'[Out(p) + 2] = hop[Out(p) + 2]
        /\ sent' = sent /\ got' = got
    BY <1>1, <1>5, <2>1, Zenon DEF HeaderSent, HeaderByte, SameHops
  <2>3. copy'[Out(p)].buf = copy[Out(p)].buf /\ copy'[Out(p) + 1].buf = copy[Out(p) + 1].buf
    BY <1>1, <1>5, Zenon DEF HeaderSent, HeaderByte, SameCopies
  <2>4. /\ sent'[p] = sent[p] /\ Got(p)' = Got(p) /\ Far(p)' = Far(p) /\ FarHeld(p)' = FarHeld(p)
        /\ NearHeld(p)' = NearHeld(p) /\ Near(p)' = Near(p)
    BY <2>2, <2>3, Zenon DEF Got, Far, FarHeld, NearHeld, Near
  <2>5. QED
    BY <1>2, <1>3, <1>5, <2>4 DEF Lost
<1>6. ASSUME HeaderSent, p = "user"
      PROVE  Middle(p)' + Ahead(p) = Middle(p) + Ahead(p)'
  <2>1. /\ hop[2].data = <<>> /\ Skip(2) = 0 /\ hop'[2].data = <<>> \o Header
        /\ client' = "header" /\ server' # "header" /\ header' = 0 /\ address' = address
    BY <1>6 DEF HeaderSent, Shape, Skip
  <2>2. Header \in Seq(Int) /\ Len(Header) = address + 1 /\ address \in Nat
    BY HeaderBytes, SizesAssumption, Zenon DEF TypeOK
  <2>3. <<>> \o Header = Header /\ Len(<<>>) = 0 /\ address + 1 - 0 = address + 1
    BY <2>2
  <2>4. Skip(2)' = address + 1
    BY <2>1, <2>3, Zenon DEF Skip
  <2>5. Middle(p)' = address + 1 /\ Middle(p) = 0 /\ Ahead(p) = 0 /\ Ahead(p)' = address + 1
    BY <1>1, <1>6, <2>1, <2>2, <2>3, <2>4, Zenon DEF Middle, Ahead
  <2>6. QED
    BY <2>2, <2>5
<1>7. ASSUME HeaderByte, p = "user"
      PROVE  Middle(p)' + Ahead(p) = Middle(p) + Ahead(p)'
  <2>1. hop[2].data # <<>> /\ hop'[2].data = Rest(hop[2].data, 1) /\ hop[2].data \in Seq(Int)
    <3>1. hop[2].data \in Seq(Int)
      BY <1>1, <1>7, Parts, Zenon
    <3>2. QED
      BY <1>7, <3>1, Zenon DEF HeaderByte
  <2>2. Len(hop'[2].data) = Len(hop[2].data) - 1
    <3> DEFINE k == Len(Taken(hop[2].data, 1))
    <3>1. 1 \in Nat \ {0}
      OBVIOUS
    <3>2. /\ k + Len(hop'[2].data) = Len(hop[2].data) /\ k <= 1 /\ k > 0
      BY <2>1, <3>1, TakenRest, Zenon
    <3>3. k \in Nat /\ Len(hop'[2].data) \in Nat /\ Len(hop[2].data) \in Nat
      BY <2>1, <3>1, TakenRest, Lengths, Zenon
    <3> HIDE DEF k
    <3>4. QED
      BY <3>2, <3>3
  <2>3. Middle(p)' = Middle(p) - 1 /\ Ahead(p)' = Ahead(p) - 1
    BY <1>1, <1>7, <2>2, SkipOfByte, Zenon DEF Middle, Ahead
  <2>4. QED
    BY <1>2, <2>3
<1>8. ASSUME Dialled
      PROVE  Lost(p)' = Lost(p)
  <2>1. UNCHANGED <<address, hop, got, sent>> /\ \A c \in Copies : copy'[c].buf = copy[c].buf
    BY <1>1, <1>8, Zenon DEF Dialled, SameCopies, Copies
  <2>2. Skip(Out(p) + 1)' = Skip(Out(p) + 1)
    BY <1>8, Zenon DEF Dialled, Skip
  <2>3. QED
    BY <1>1, <2>1, <2>2, LostSame, Zenon
<1>9. ASSUME GiveUp, p = "backend"
      PROVE  Lost(p)' = Lost(p)
  <2>1. /\ hop'[4].data = hop[4].data /\ hop'[5].data = hop[5].data /\ hop'[6].data = hop[6].data
        /\ UNCHANGED <<got, sent, copy>> /\ Skip(5)' = Skip(5)
    BY <1>9 DEF GiveUp, SameHops, Hops, Skip
  <2>2. Out(p) = 4 /\ 4 + 1 = 5 /\ 4 + 2 = 6
    BY <1>1, <1>9
  <2>3. QED
    BY <2>1, <2>2, LostSame, Zenon
<1>10. ASSUME Loses
       PROVE  Lost(p)' >= Lost(p)
  <2>1. \A h \in Hops : Cut(hop[h], hop'[h])
    <3>1. {2, 5} \in SUBSET Hops
      BY DEF Hops
    <3>2. QED
      BY <1>10, <3>1, CutsHold, Zenon DEF Loses
  <2>2. Near(p)' <= Near(p) /\ Middle(p)' <= Middle(p) /\ Far(p)' <= Far(p)
    BY <1>1, <2>1, Zenon DEF Cut, Near, Middle, Far
  <2>3. /\ Got(p)' = Got(p) /\ FarHeld(p)' = FarHeld(p) /\ NearHeld(p)' = NearHeld(p)
        /\ sent'[p] = sent[p] /\ Ahead(p)' = Ahead(p)
    BY <1>10, Zenon DEF Loses, Skip, Got, FarHeld, NearHeld, Ahead
  <2>4. /\ sent[p] <= sent'[p] /\ Ahead(p) <= Ahead(p)'
        /\ FarHeld(p)' <= FarHeld(p) /\ NearHeld(p)' <= NearHeld(p)
    BY <1>2, <2>3
  <2>5. QED
    BY <2>2, <2>3, <2>4, LostMore, Zenon
<1>11. QED
  BY <1>1, <1>4, <1>5, <1>6, <1>7, <1>8, <1>9, <1>10, Zenon

LEMMA LostCopy ==
    ASSUME TypeOK, Shape, TypeOK', Shape', NEW c \in Copies, NEW p \in Peers
    PROVE  /\ Reads(c) \/ Passes(c) => Lost(p)' = Lost(p)
           /\ Stops(c) \/ Bounces(c) => Lost(p)' >= Lost(p)
           /\ Stops(c) /\ (copy[c].buf = <<>> \/ c \notin {Out(p), Out(p) + 1}) => Lost(p)' = Lost(p)
           /\ Bounces(c) /\ c = Out(p) + 1 => Lost(p)' > Lost(p)
<1> DEFINE a == Out(p)
<1>1. /\ a \in {1, 4} /\ a \in Hops /\ a + 1 \in Hops /\ a + 2 \in Hops /\ a \in Copies /\ a + 1 \in Copies
      /\ c \in {a, a + 1, 5 - a, 6 - a} /\ c \in Hops /\ c + 1 \in Hops /\ 6 - c \in Hops
      /\ a + 1 # a /\ a + 2 # a /\ a + 2 # a + 1 /\ (a + 1) + 1 = a + 2 /\ c # a + 2
  BY Around, Places, CopyPlaces, Zenon
<1>2. /\ hop[a].data \in Seq(Int) /\ hop[a + 1].data \in Seq(Int) /\ hop[a + 2].data \in Seq(Int)
      /\ copy[a].buf \in Seq(Int) /\ copy[a + 1].buf \in Seq(Int)
  BY Parts, Zenon
<1>3. /\ sent[p] \in Nat /\ Got(p) \in Nat /\ Far(p) \in Nat /\ FarHeld(p) \in Nat
      /\ Middle(p) \in Nat /\ Ahead(p) \in Nat /\ NearHeld(p) \in Nat /\ Near(p) \in Nat
  BY Amounts, Zenon
<1>4. /\ Far(p)' \in Nat /\ FarHeld(p)' \in Nat /\ Middle(p)' \in Nat
      /\ NearHeld(p)' \in Nat /\ Near(p)' \in Nat
  BY AmountsNext, Zenon
<1>5. Reads(c) \/ Passes(c) \/ Stops(c) \/ Bounces(c) =>
        /\ sent' = sent /\ sent'[p] = sent[p] /\ got' = got /\ Got(p)' = Got(p)
        /\ Skip(a + 1)' = Skip(a + 1) /\ Ahead(p)' = Ahead(p)
  BY Zenon DEF Reads, Passes, Stops, Bounces, Skip, Got, Ahead
<1>6. Len(<<>>) = 0
  OBVIOUS
<1>7. ASSUME Reads(c)
      PROVE  Lost(p)' = Lost(p)
  <2>1. BufSize \in Nat \ {0}
    BY SizesAssumption
  <2>2. CASE c = a
    <3>1. /\ hop'[a + 1] = hop[a + 1] /\ hop'[a + 2] = hop[a + 2] /\ copy'[a + 1] = copy[a + 1]
          /\ copy[a].buf = <<>> /\ copy'[a].buf = Taken(hop[a].data, BufSize)
          /\ hop'[a].data = Rest(hop[a].data, BufSize)
      BY <1>1, <1>7, <2>2, Zenon DEF Reads, SameHops, SameCopies
    <3>2. NearHeld(p)' + Near(p)' = Near(p)
      <4>1. Len(Taken(hop[a].data, BufSize)) + Len(Rest(hop[a].data, BufSize)) = Len(hop[a].data)
        BY <1>2, <2>1, TakenRest, Zenon
      <4>2. QED
        BY <3>1, <4>1, Zenon DEF NearHeld, Near
    <3>3. NearHeld(p) = 0 /\ Far(p)' = Far(p) /\ FarHeld(p)' = FarHeld(p) /\ Middle(p)' = Middle(p)
      BY <1>6, <3>1, Zenon DEF NearHeld, Middle, FarHeld, Far
    <3>4. QED
      BY <1>3, <1>4, <1>5, <1>7, <3>2, <3>3 DEF Lost
  <2>3. CASE c = a + 1
    <3>1. /\ hop'[a] = hop[a] /\ hop'[a + 2] = hop[a + 2] /\ copy'[a] = copy[a]
          /\ copy[a + 1].buf = <<>> /\ copy'[a + 1].buf = Taken(hop[a + 1].data, BufSize)
          /\ hop'[a + 1].data = Rest(hop[a + 1].data, BufSize)
      BY <1>1, <1>7, <2>3, Zenon DEF Reads, SameHops, SameCopies
    <3>2. FarHeld(p)' + Middle(p)' = Middle(p)
      <4>1. Len(Taken(hop[a + 1].data, BufSize)) + Len(Rest(hop[a + 1].data, BufSize))
               = Len(hop[a + 1].data)
        BY <1>2, <2>1, TakenRest, Zenon
      <4>2. QED
        BY <3>1, <4>1, Zenon DEF FarHeld, Middle
    <3>3. FarHeld(p) = 0 /\ Far(p)' = Far(p) /\ NearHeld(p)' = NearHeld(p) /\ Near(p)' = Near(p)
      BY <1>6, <3>1, Zenon DEF Near, NearHeld, FarHeld, Far
    <3>4. QED
      BY <1>3, <1>4, <1>5, <1>7, <3>2, <3>3 DEF Lost
  <2>4. CASE c \notin {a, a + 1}
    <3>1. /\ hop'[a] = hop[a] /\ hop'[a + 1] = hop[a + 1] /\ hop'[a + 2] = hop[a + 2]
          /\ copy'[a] = copy[a] /\ copy'[a + 1] = copy[a + 1]
      BY <1>1, <1>7, <2>4, Zenon DEF Reads, SameHops, SameCopies
    <3>2. QED
      BY <1>5, <1>7, <3>1, LostSame, Zenon
  <2>5. QED
    BY <2>2, <2>3, <2>4, Zenon
<1>8. ASSUME Passes(c)
      PROVE  Lost(p)' = Lost(p)
  <2>1. CASE c = a
    <3>1. /\ hop'[a] = hop[a] /\ hop'[a + 2] = hop[a + 2] /\ copy'[a + 1] = copy[a + 1]
          /\ copy'[a].buf = <<>> /\ hop'[a + 1].data = hop[a + 1].data \o copy[a].buf
      BY <1>1, <1>8, <2>1, Zenon DEF Passes, SameHops, SameCopies
    <3>2. Middle(p)' = Middle(p) + NearHeld(p)
      <4>1. Len(hop[a + 1].data \o copy[a].buf) = Len(hop[a + 1].data) + Len(copy[a].buf)
        BY <1>2, Joined, Zenon
      <4>2. QED
        BY <3>1, <4>1, Zenon DEF Middle, NearHeld
    <3>3. NearHeld(p)' = 0 /\ Far(p)' = Far(p) /\ FarHeld(p)' = FarHeld(p) /\ Near(p)' = Near(p)
      BY <1>6, <3>1, Zenon DEF Near, NearHeld, FarHeld, Far
    <3>4. QED
      BY <1>3, <1>4, <1>5, <1>8, <3>2, <3>3 DEF Lost
  <2>2. CASE c = a + 1
    <3>1. /\ hop'[a] = hop[a] /\ hop'[a + 1] = hop[a + 1] /\ copy'[a] = copy[a]
          /\ copy'[a + 1].buf = <<>> /\ hop'[a + 2].data = hop[a + 2].data \o copy[a + 1].buf
      BY <1>1, <1>8, <2>2, Zenon DEF Passes, SameHops, SameCopies
    <3>2. Far(p)' = Far(p) + FarHeld(p)
      <4>1. Len(hop[a + 2].data \o copy[a + 1].buf) = Len(hop[a + 2].data) + Len(copy[a + 1].buf)
        BY <1>2, Joined, Zenon
      <4>2. QED
        BY <3>1, <4>1, Zenon DEF Far, FarHeld
    <3>3. FarHeld(p)' = 0 /\ Middle(p)' = Middle(p) /\ NearHeld(p)' = NearHeld(p) /\ Near(p)' = Near(p)
      BY <1>6, <3>1, Zenon DEF Near, NearHeld, Middle, FarHeld
    <3>4. QED
      BY <1>3, <1>4, <1>5, <1>8, <3>2, <3>3 DEF Lost
  <2>3. CASE c \notin {a, a + 1}
    <3>1. c + 1 \notin {a, a + 1, a + 2}
      BY <1>1, <2>3
    <3>2. /\ hop'[a] = hop[a] /\ hop'[a + 1] = hop[a + 1] /\ hop'[a + 2] = hop[a + 2]
          /\ copy'[a] = copy[a] /\ copy'[a + 1] = copy[a + 1]
      BY <1>1, <1>8, <2>3, <3>1, Zenon DEF Passes, SameHops, SameCopies
    <3>3. QED
      BY <1>5, <1>8, <3>2, LostSame, Zenon
  <2>4. QED
    BY <2>1, <2>2, <2>3, Zenon
<1>9. \A s \in Seq(Int) : s # <<>> => Len(s) > 0
  OBVIOUS
<1>10. ASSUME copy'[c].buf = <<>>, \A e \in Copies \ {c} : copy'[e] = copy[e]
       PROVE  /\ NearHeld(p)' <= NearHeld(p) /\ FarHeld(p)' <= FarHeld(p)
              /\ c = a + 1 /\ copy[c].buf # <<>> => FarHeld(p)' < FarHeld(p)
  <2>1. NearHeld(p)' = NearHeld(p) \/ NearHeld(p)' = 0
    BY <1>1, <1>6, <1>10, Zenon DEF NearHeld
  <2>2. FarHeld(p)' = FarHeld(p) \/ FarHeld(p)' = 0
    BY <1>1, <1>6, <1>10, Zenon DEF FarHeld
  <2>3. c = a + 1 /\ copy[c].buf # <<>> => FarHeld(p)' = 0 /\ FarHeld(p) > 0
    BY <1>2, <1>6, <1>9, <1>10, Zenon DEF FarHeld
  <2>4. QED
    BY <1>3, <2>1, <2>2, <2>3
<1>11. sent[p] <= sent[p] /\ Ahead(p) <= Ahead(p) /\ Near(p) <= Near(p) /\ Middle(p) <= Middle(p) /\ Far(p) <= Far(p)
  BY <1>3
<1>12. ASSUME Stops(c)
       PROVE  /\ Lost(p)' >= Lost(p)
              /\ copy[c].buf = <<>> \/ c \notin {a, a + 1} => Lost(p)' = Lost(p)
  <2>1. hop' = hop /\ copy'[c].buf = <<>> /\ \A e \in Copies \ {c} : copy'[e] = copy[e]
    BY <1>12, Zenon DEF Stops, SameCopies
  <2>2. copy[c].buf = <<>> \/ c \notin {a, a + 1} =>
              copy'[a].buf = copy[a].buf /\ copy'[a + 1].buf = copy[a + 1].buf
    BY <1>1, <2>1, Zenon
  <2>3. Near(p)' = Near(p) /\ Middle(p)' = Middle(p) /\ Far(p)' = Far(p)
    BY <2>1, Zenon DEF Near, Middle, Far
  <2>4. Lost(p)' >= Lost(p)
    BY <1>5, <1>10, <1>11, <1>12, <2>1, <2>3, LostMore, Zenon
  <2>5. QED
    BY <1>5, <1>12, <2>1, <2>2, <2>4, LostSame, Zenon
<1>13. ASSUME Bounces(c)
       PROVE  Lost(p)' >= Lost(p) /\ (c = a + 1 => Lost(p)' > Lost(p))
  <2>1. \A h \in Hops : Cut(hop[h], hop'[h])
    BY <1>1, <1>13, CutsHold, Zenon DEF Bounces
  <2>2. Near(p)' <= Near(p) /\ Middle(p)' <= Middle(p) /\ Far(p)' <= Far(p)
    BY <1>1, <2>1, Zenon DEF Cut, Near, Middle, Far
  <2>3. /\ copy'[c].buf = <<>> /\ copy[c].buf # <<>> /\ \A e \in Copies \ {c} : copy'[e] = copy[e]
    BY <1>13, Zenon DEF Bounces, SameCopies
  <2>4. QED
    BY <1>5, <1>10, <1>11, <1>13, <2>2, <2>3, LostMore, Zenon
<1>14. QED
  BY <1>7, <1>8, <1>12, <1>13, Zenon

LEMMA LostPeer ==
    ASSUME TypeOK, Shape, TypeOK', Shape', NEW p \in Peers, NEW r \in Peers
    PROVE  /\ Receives(r) \/ ShutsDown(r) => Lost(p)' = Lost(p)
           /\ \A n \in 1..MaxBytes : Sends(r, n) => Lost(p)' = Lost(p)
           /\ Closes(r) => /\ Lost(p)' >= Lost(p)
                           /\ p = r /\ hop[In(p)].data = <<>> => Lost(p)' = Lost(p)
                           /\ p # r /\ hop[In(r)].data # <<>> => Lost(p)' > Lost(p)
           /\ \A n \in 1..MaxBytes : SendBounces(r, n) => Lost(p)' >= Lost(p)
<1> DEFINE a == Out(p)
<1>1. /\ a \in {1, 4} /\ a \in Hops /\ a + 1 \in Hops /\ a + 2 \in Hops /\ In(p) = 7 - a
      /\ p # r => Out(r) = 5 - a /\ In(r) = a + 2 /\ r = Other(p)
      /\ a # a + 2 /\ a # 7 - a /\ a + 1 \notin {a, a + 2, 7 - a, 5 - a} /\ a # 5 - a
      /\ a + 2 \notin {a, 7 - a, 5 - a} /\ Other(r) \in Peers /\ (p # r => p = Other(r))
  BY Around DEF Hops, Peers, Other
<1>2. /\ hop[a].data \in Seq(Int) /\ hop[a + 1].data \in Seq(Int) /\ hop[a + 2].data \in Seq(Int)
      /\ copy[a].buf \in Seq(Int) /\ copy[a + 1].buf \in Seq(Int) /\ got[Other(p)] \in Seq(Int)
  BY Parts, Zenon
<1>3. /\ sent[p] \in Nat /\ Got(p) \in Nat /\ Far(p) \in Nat /\ FarHeld(p) \in Nat
      /\ Middle(p) \in Nat /\ Ahead(p) \in Nat /\ NearHeld(p) \in Nat /\ Near(p) \in Nat
  BY Amounts, Zenon
<1>4. sent'[p] \in Nat /\ Got(p)' \in Nat /\ Far(p)' \in Nat /\ Near(p)' \in Nat
  BY AmountsNext, Zenon
<1>5. /\ UNCHANGED <<address, server, client, header>> =>
            Skip(a + 1)' = Skip(a + 1) /\ Ahead(p)' = Ahead(p)
      /\ UNCHANGED copy => NearHeld(p)' = NearHeld(p) /\ FarHeld(p)' = FarHeld(p)
      /\ UNCHANGED got => Got(p)' = Got(p)
  BY Zenon DEF Skip, Ahead, NearHeld, FarHeld, Got
<1>6. \A s \in Seq(Int) : s # <<>> =>
         Len(s) > 0 /\ Len(Tail(s)) = Len(s) - 1 /\ \A t \in Seq(Int) : Len(Append(t, Head(s))) = Len(t) + 1
  OBVIOUS
<1>7. Len(<<>>) = 0
  OBVIOUS
<1>8. ASSUME Receives(r)
      PROVE  Lost(p)' = Lost(p)
  <2>1. UNCHANGED <<sent, copy>> /\ Skip(a + 1)' = Skip(a + 1) /\ Ahead(p)' = Ahead(p)
        /\ SameHops({In(r)}) /\ NearHeld(p)' = NearHeld(p) /\ FarHeld(p)' = FarHeld(p)
    BY <1>5, <1>8, Zenon DEF Receives
  <2>2. CASE p = r
    <3>1. hop'[a] = hop[a] /\ hop'[a + 1] = hop[a + 1] /\ hop'[a + 2] = hop[a + 2]
      BY <1>1, <2>1, <2>2, Zenon DEF SameHops
    <3>2. got'[Other(p)] = got[Other(p)]
      BY <1>8, <2>2, Zenon DEF Receives
    <3>3. QED
      BY <2>1, <3>1, <3>2, LostSame, Zenon
  <2>3. CASE p # r
    <3>1. Near(p)' = Near(p) /\ Middle(p)' = Middle(p)
      BY <1>1, <2>1, <2>3, Zenon DEF SameHops, Near, Middle
    <3>2. /\ hop[a + 2].data # <<>> /\ hop'[a + 2].data = Tail(hop[a + 2].data)
          /\ got'[Other(p)] = Append(got[Other(p)], Head(hop[a + 2].data))
      BY <1>1, <1>8, <2>3, Zenon DEF Receives
    <3>3. Far(p)' = Far(p) - 1 /\ Got(p)' = Got(p) + 1
      <4>1. /\ Len(Tail(hop[a + 2].data)) = Len(hop[a + 2].data) - 1
            /\ Len(Append(got[Other(p)], Head(hop[a + 2].data))) = Len(got[Other(p)]) + 1
        BY <1>2, <1>6, <3>2, Zenon
      <4>2. QED
        BY <3>2, <4>1, Zenon DEF Far, Got
    <3>4. QED
      BY <1>3, <2>1, <3>1, <3>3 DEF Lost
  <2>4. QED
    BY <2>2, <2>3, Zenon
<1>9. ASSUME ShutsDown(r)
      PROVE  Lost(p)' = Lost(p)
  <2>1. \A h \in Hops : hop'[h].data = hop[h].data
    BY <1>9, Zenon DEF ShutsDown, SameHops
  <2>2. UNCHANGED <<sent, copy, got>> /\ Skip(a + 1)' = Skip(a + 1)
    BY <1>5, <1>9, Zenon DEF ShutsDown
  <2>3. QED
    BY <1>1, <2>1, <2>2, LostSame, Zenon
<1>10. ASSUME NEW n \in 1..MaxBytes, Sends(r, n)
       PROVE  Lost(p)' = Lost(p)
  <2>1. /\ UNCHANGED <<copy, got>> /\ Skip(a + 1)' = Skip(a + 1) /\ SameHops({Out(r)})
        /\ Ahead(p)' = Ahead(p) /\ NearHeld(p)' = NearHeld(p) /\ FarHeld(p)' = FarHeld(p)
        /\ Got(p)' = Got(p)
    BY <1>5, <1>10, Zenon DEF Sends
  <2>2. CASE p = r
    <3> DEFINE w == [i \in 1..n |-> sent[p] + i]
    <3>1. Middle(p)' = Middle(p) /\ Far(p)' = Far(p)
      BY <1>1, <2>1, <2>2, Zenon DEF SameHops, Middle, Far
    <3>2. hop'[a].data = hop[a].data \o w /\ sent'[p] = sent[p] + n
      BY <1>10, <2>2, Zenon DEF Sends
    <3>3. w \in Seq(Int) /\ Len(w) = n /\ n \in Nat
      BY <1>3, SizesAssumption
    <3> HIDE DEF w
    <3>4. Near(p)' = Near(p) + n
      <4>1. Len(hop[a].data \o w) = Len(hop[a].data) + Len(w)
        BY <1>2, <3>3, Joined, Zenon
      <4>2. QED
        BY <3>2, <3>3, <4>1, Zenon DEF Near
    <3>5. n \in Nat
      BY <3>3, Zenon
    <3>6. QED
      BY <1>3, <2>1, <3>1, <3>2, <3>4, <3>5 DEF Lost
  <2>3. CASE p # r
    <3>1. hop'[a] = hop[a] /\ hop'[a + 1] = hop[a + 1] /\ hop'[a + 2] = hop[a + 2]
      BY <1>1, <2>1, <2>3, Zenon DEF SameHops
    <3>2. sent'[p] = sent[p]
      BY <1>1, <1>10, <2>3, Zenon DEF Sends
    <3>3. QED
      BY <2>1, <3>1, <3>2, LostSame, Zenon
  <2>4. QED
    BY <2>2, <2>3, Zenon
<1>11. /\ sent[p] <= sent[p] /\ Ahead(p) <= Ahead(p) /\ Near(p) <= Near(p) /\ Middle(p) <= Middle(p)
       /\ Far(p) <= Far(p) /\ NearHeld(p) <= NearHeld(p) /\ FarHeld(p) <= FarHeld(p)
  BY <1>3
<1>12. ASSUME Closes(r)
       PROVE  /\ Lost(p)' >= Lost(p)
              /\ p = r /\ hop[In(p)].data = <<>> => Lost(p)' = Lost(p)
              /\ p # r /\ hop[In(r)].data # <<>> => Lost(p)' > Lost(p)
  <2>1. /\ UNCHANGED <<sent, copy, got>> /\ Skip(a + 1)' = Skip(a + 1) /\ SameHops({Out(r), In(r)})
        /\ Ahead(p)' = Ahead(p) /\ NearHeld(p)' = NearHeld(p) /\ FarHeld(p)' = FarHeld(p)
        /\ Got(p)' = Got(p)
    BY <1>5, <1>12, Zenon DEF Closes
  <2>2. CASE p = r
    <3>1. hop'[a + 1] = hop[a + 1] /\ hop'[a + 2] = hop[a + 2]
      BY <1>1, <2>1, <2>2, Zenon DEF SameHops
    <3>2. /\ Near(p)' <= Near(p) /\ Middle(p)' = Middle(p) /\ Far(p)' = Far(p)
          /\ hop[In(p)].data = <<>> => hop'[a].data = hop[a].data
      BY <1>12, <2>2, <3>1, Zenon DEF Closes, Cut, Near, Middle, Far
    <3>3. Lost(p)' >= Lost(p)
      BY <1>11, <2>1, <3>2, LostMore, Zenon
    <3>4. QED
      BY <2>1, <2>2, <3>1, <3>2, <3>3, LostSame, Zenon
  <2>3. CASE p # r
    <3>1. Near(p)' = Near(p) /\ Middle(p)' = Middle(p)
      BY <1>1, <2>1, <2>3, Zenon DEF SameHops, Near, Middle
    <3>2. Far(p)' = 0 /\ (hop[In(r)].data # <<>> => Far(p) > 0)
      BY <1>1, <1>2, <1>6, <1>7, <1>12, <2>3, Zenon DEF Closes, Far
    <3>3. Far(p)' <= Far(p) /\ (hop[In(r)].data # <<>> => Far(p)' < Far(p))
      BY <1>3, <3>2
    <3>4. QED
      BY <1>11, <2>1, <2>3, <3>1, <3>3, LostMore, Zenon
  <2>4. QED
    BY <2>2, <2>3, Zenon
<1>13. ASSUME NEW n \in 1..MaxBytes, SendBounces(r, n)
       PROVE  Lost(p)' >= Lost(p)
  <2>1. /\ UNCHANGED <<copy, got>> /\ SameHops({In(r)})
        /\ Ahead(p)' = Ahead(p) /\ NearHeld(p)' = NearHeld(p) /\ FarHeld(p)' = FarHeld(p)
        /\ Got(p)' = Got(p)
    BY <1>5, <1>13, Zenon DEF SendBounces
  <2>2. Near(p)' = Near(p) /\ Middle(p)' = Middle(p)
    <3>1. In(r) # a /\ In(r) # a + 1
      BY <1>1
    <3>2. QED
      BY <1>1, <2>1, <3>1, Zenon DEF SameHops, Near, Middle
  <2>3. Far(p)' <= Far(p)
    <3>1. CASE p # r
      BY <1>1, <1>13, <3>1, Zenon DEF SendBounces, Cut, Far
    <3>2. CASE p = r
      BY <1>1, <1>11, <2>1, <3>2, Zenon DEF SameHops, Far
    <3>3. QED
      BY <3>1, <3>2, Zenon
  <2>4. sent[p] <= sent'[p]
    <3>1. sent'[p] = sent[p] \/ sent'[p] = sent[p] + n
      BY <1>1, <1>13, Zenon DEF SendBounces
    <3>2. n \in Nat
      BY SizesAssumption
    <3>3. QED
      BY <1>3, <3>1, <3>2
  <2>5. QED
    BY <1>11, <2>1, <2>2, <2>3, <2>4, LostMore, Zenon
<1>14. QED
  BY <1>8, <1>9, <1>10, <1>12, <1>13, Zenon

-----------------------------------------------------------------------------
(* What a step leaves as it is. *)

\* An end stays, with what is under way; a return, a connection and the end of a copy do.
LEMMA EndsStay ==
    ASSUME TypeOK, Shape, Step, NEW h \in Hops
    PROVE  /\ hop[h].end # "open" => hop'[h].end # "open"
           /\ hop[h].end = "reset" => hop'[h].end = "reset"
           /\ hop[h].data = <<>> /\ hop[h].end # "open" => hop'[h].data = <<>>
           /\ hop[h].data = <<>> /\ (\A r \in Peers, n \in 1..MaxBytes : ~Sends(r, n)) /\ h \in {1, 4} =>
                 hop'[h].data = <<>>
<1> DEFINE Stays == /\ hop[h].end # "open" => hop'[h].end # "open"
                    /\ hop[h].end = "reset" => hop'[h].end = "reset"
                    /\ hop[h].data = <<>> => hop'[h].data = <<>>
<1>1. hop[h] \in Hop /\ hop'[h] \in Hop /\ hop[h].data \in Seq(Int) /\ hop'[h].data \in Seq(Int)
  <2>1. TypeOK'
    BY StepType, Zenon
  <2>2. hop[h] \in Hop /\ hop'[h] \in Hop
    BY <2>1, Zenon DEF TypeOK
  <2>3. QED
    BY <2>2, Zenon DEF Hop, Byte
<1>2. Cut(hop[h], hop'[h]) => Stays
  <2>1. \A s, t \in Seq(Int) : Len(t) <= Len(s) /\ s = <<>> => t = <<>>
    OBVIOUS
  <2>2. QED
    BY <1>1, <2>1, Zenon DEF Cut
<1>3. hop'[h] = hop[h] => Stays
  OBVIOUS
<1>4. ASSUME NEW r \in Peers, Return(r)
      PROVE  Stays
  BY <1>2, <1>4, Leaving, Zenon DEF Return
<1>5. ASSUME GiveUp \/ Dialled \/ Loses
      PROVE  Stays
  <2>1. CASE GiveUp
    BY <1>2, <1>3, <2>1, Zenon DEF GiveUp, SameHops
  <2>2. CASE Dialled
    BY <1>3, <2>2, Zenon DEF Dialled
  <2>3. CASE Loses
    BY <1>2, <1>3, <2>3, Zenon DEF Loses, SameHops
  <2>4. QED
    BY <1>5, <2>1, <2>2, <2>3, Zenon
<1>6. ASSUME HeaderSent \/ HeaderByte
      PROVE  /\ hop[h].end # "open" => Stays
             /\ h \in {1, 4} => Stays
             /\ hop[h].end = "reset" => hop'[h].end = "reset"
  <2>1. CASE h = 2 /\ HeaderSent
    BY <2>1 DEF HeaderSent
  <2>2. CASE h = 2 /\ HeaderByte
    BY <1>1, <2>2 DEF HeaderByte
  <2>3. CASE h # 2
    BY <1>3, <1>6, <2>3, Zenon DEF HeaderSent, HeaderByte, SameHops
  <2>4. QED
    BY <1>6, <2>1, <2>2, <2>3, Zenon
<1>7. ASSUME NEW c \in Copies, Reads(c)
      PROVE  Stays
  <2>1. CASE h = c
    BY <1>7, <2>1, Zenon DEF Reads
  <2>2. CASE h # c
    BY <1>3, <1>7, <2>2, Zenon DEF Reads, SameHops
  <2>3. QED
    BY <2>1, <2>2, Zenon
<1>8. ASSUME NEW c \in Copies, Stops(c)
      PROVE  Stays
  BY <1>3, <1>8, Zenon DEF Stops
<1>9. ASSUME NEW c \in Copies, Passes(c)
      PROVE  /\ hop[h].end # "open" => Stays
             /\ h \in {1, 4} => Stays
             /\ hop[h].end = "reset" => hop'[h].end = "reset"
  <2>1. CASE h = c + 1
    <3>1. h \notin {1, 4}
      BY <2>1 DEF Copies
    <3>2. QED
      BY <1>9, <2>1, <3>1, Zenon DEF Passes
  <2>2. CASE h # c + 1
    BY <1>3, <1>9, <2>2, Zenon DEF Passes, SameHops
  <2>3. QED
    BY <2>1, <2>2, Zenon
<1>10. ASSUME NEW c \in Copies, Bounces(c)
       PROVE  Stays
  BY <1>2, <1>3, <1>10, Zenon DEF Bounces, SameHops
<1>11. ASSUME NEW r \in Peers, Receives(r)
       PROVE  Stays
  <2>1. CASE h = In(r)
    BY <1>11, <2>1, Zenon DEF Receives
  <2>2. CASE h # In(r)
    BY <1>3, <1>11, <2>2, Zenon DEF Receives, SameHops
  <2>3. QED
    BY <2>1, <2>2, Zenon
<1>12. ASSUME NEW r \in Peers, ShutsDown(r)
       PROVE  Stays
  <2>1. CASE h = Out(r)
    BY <1>12, <2>1, Zenon DEF ShutsDown
  <2>2. CASE h # Out(r)
    BY <1>3, <1>12, <2>2, Zenon DEF ShutsDown, SameHops
  <2>3. QED
    BY <2>1, <2>2, Zenon
<1>13. ASSUME NEW r \in Peers, Closes(r)
       PROVE  Stays
  <2>1. CASE h = Out(r)
    BY <1>2, <1>13, <2>1, Zenon DEF Closes
  <2>2. CASE h = In(r)
    BY <1>13, <2>2, Zenon DEF Closes
  <2>3. CASE h # Out(r) /\ h # In(r)
    BY <1>3, <1>13, <2>3, Zenon DEF Closes, SameHops
  <2>4. QED
    BY <2>1, <2>2, <2>3, Zenon
<1>14. ASSUME NEW r \in Peers, NEW n \in 1..MaxBytes, Sends(r, n)
       PROVE  /\ hop[h].end # "open" => Stays
              /\ hop[h].end = "reset" => hop'[h].end = "reset"
  <2>1. CASE h = Out(r)
    BY <1>14, <2>1, Zenon DEF Sends
  <2>2. CASE h # Out(r)
    BY <1>3, <1>14, <2>2, Zenon DEF Sends, SameHops
  <2>3. QED
    BY <2>1, <2>2, Zenon
<1>15. ASSUME NEW r \in Peers, NEW n \in 1..MaxBytes, SendBounces(r, n)
       PROVE  Stays
  BY <1>2, <1>3, <1>15, Zenon DEF SendBounces, SameHops
<1> HIDE DEF Stays
<1>16. \/ Stays
       \/ /\ hop[h].end # "open" => Stays
          /\ h \in {1, 4} => Stays \/ \E r \in Peers, n \in 1..MaxBytes : Sends(r, n)
          /\ hop[h].end = "reset" => hop'[h].end = "reset"
  BY <1>4, <1>5, <1>6, <1>7, <1>8, <1>9, <1>10, <1>11, <1>12, <1>13, <1>14, <1>15, Zenon DEF Step
<1>17. QED
  BY <1>16, Zenon DEF Stays

\* A return and the end of a copy are for good, and so is a lost session.  A handler that
\* has returned makes no connection, and copies end in their own steps.
LEMMA Persists ==
    ASSUME TypeOK, Shape, Step, NEW p \in Peers
    PROVE  /\ Returned(p) => Returned(p)'
           /\ Returned(p) => (Connected(p)' <=> Connected(p))
           /\ Returned(p)' => Returned(p) \/ Return(p) \/ (GiveUp /\ p = "backend")
           /\ session' = "alive" => session = "alive"
           /\ \A c \in Copies : copy[c].state = "done" => copy'[c].state = "done"
           /\ \A c \in Copies : copy'[c].state = "done" =>
                 copy[c].state = "done" \/ Stops(c) \/ Bounces(c)
           /\ \A c \in Copies : copy'[c].buf = copy[c].buf \/ copy'[c].buf = <<>> \/ Reads(c)
           /\ GiveUp => copy[2].state = "off" /\ copy'[2].state = "off"
           /\ client = "returned" => (copy'[2].state = "off" <=> copy[2].state = "off")
<1> DEFINE Handlers == /\ Returned(p) => Returned(p)'
                       /\ Returned(p)' => Returned(p) \/ Return(p) \/ (GiveUp /\ p = "backend")
           Links == /\ Returned(p) => (Connected(p)' <=> Connected(p))
                    /\ client = "returned" => (copy'[2].state = "off" <=> copy[2].state = "off")
           Copying == /\ \A c \in Copies : copy[c].state = "done" => copy'[c].state = "done"
                      /\ \A c \in Copies : copy'[c].state = "done" =>
                            copy[c].state = "done" \/ Stops(c) \/ Bounces(c)
                      /\ \A c \in Copies :
                            copy'[c].buf = copy[c].buf \/ copy'[c].buf = <<>> \/ Reads(c)
           Session == session' = "alive" => session = "alive"
<1>1. UNCHANGED <<server, client>> => Handlers
  BY Zenon DEF Returned
<1>2. UNCHANGED copy => Links /\ Copying
  BY Zenon DEF Connected
<1>3. UNCHANGED session => Session
  OBVIOUS
<1>4. copy[2].state # "off" /\ copy'[2].state # "off" => Links
  BY Zenon DEF Connected
<1>5. ASSUME NEW r \in Peers, Return(r)
      PROVE  Handlers
  BY <1>5, Zenon DEF Return, Returned, Peers
<1>6. GiveUp => Handlers
  BY Zenon DEF GiveUp, Returned, Peers
<1>7. GiveUp => copy[2].state = "off" /\ copy'[2].state = "off"
  BY Zenon DEF GiveUp, Shape
<1>8. HeaderSent => Handlers /\ Copying
  <2>1. HeaderSent => Handlers
    BY Zenon DEF HeaderSent, Returned
  <2>2. ASSUME HeaderSent, NEW c \in Copies
        PROVE  /\ copy[c].state = "done" => copy'[c].state = "done"
               /\ copy'[c].state = "done" => copy[c].state = "done"
               /\ copy'[c].buf = copy[c].buf
    <3>1. CASE c \in {1, 5}
      BY <2>2, <3>1, Zenon DEF HeaderSent, Shape
    <3>2. CASE c \notin {1, 5}
      BY <2>2, <3>2, Zenon DEF HeaderSent, SameCopies
    <3>3. QED
      BY <3>1, <3>2, Zenon
  <2>3. QED
    BY <2>1, <2>2, Zenon
<1>9. HeaderSent => Links
  BY Six, Zenon DEF HeaderSent, SameCopies, Connected
<1>10. HeaderByte => Handlers
  BY Zenon DEF HeaderByte, Returned
<1>11. Dialled => Handlers /\ Links /\ Copying
  <2>1. Dialled => Handlers
    BY Zenon DEF Dialled, Returned
  <2>2. Dialled => Links
    BY Zenon DEF Dialled, Returned, Connected, Peers
  <2>3. ASSUME Dialled, NEW c \in Copies
        PROVE  /\ copy[c].state = "done" => copy'[c].state = "done"
               /\ copy'[c].state = "done" => copy[c].state = "done"
               /\ copy'[c].buf = copy[c].buf
    <3>1. CASE c \in {2, 4}
      BY <2>3, <3>1, Zenon DEF Dialled, Shape
    <3>2. CASE c \notin {2, 4}
      BY <2>3, <3>2, Zenon DEF Dialled, SameCopies
    <3>3. QED
      BY <3>1, <3>2, Zenon
  <2>4. QED
    BY <2>1, <2>2, <2>3, Zenon
<1>12. ASSUME NEW c \in Copies, Reads(c) \/ Stops(c) \/ Passes(c) \/ Bounces(c)
       PROVE  Handlers /\ Links /\ Copying /\ Session
  <2>1. /\ UNCHANGED <<server, client, session>> /\ SameCopies({c})
        /\ copy[c].state = "on" /\ copy'[c].state \in {"on", "done"}
    BY <1>12, Zenon DEF Reads, Stops, Passes, Bounces
  <2>2. copy'[c].state = "done" => Stops(c) \/ Bounces(c)
    BY <1>12, Zenon DEF Reads, Passes
  <2>3. copy'[c].buf = <<>> \/ Reads(c)
    BY <1>12, Zenon DEF Stops, Passes, Bounces
  <2>4. Copying
    BY <2>1, <2>2, <2>3, Zenon DEF SameCopies
  <2>5. Links
    <3>1. CASE c = 2
      BY <1>4, <2>1, <3>1, Zenon
    <3>2. CASE c # 2
      BY <2>1, <3>2, Six, Zenon DEF SameCopies, Connected
    <3>3. QED
      BY <3>1, <3>2, Zenon
  <2>6. QED
    BY <1>1, <1>3, <2>1, <2>4, <2>5, Zenon
<1>13. ASSUME NEW r \in Peers,
              \/ Receives(r) \/ ShutsDown(r) \/ Closes(r)
              \/ \E n \in 1..MaxBytes : Sends(r, n) \/ SendBounces(r, n)
       PROVE  UNCHANGED <<server, client, copy, session>>
  BY <1>13, Zenon DEF Receives, ShutsDown, Closes, Sends, SendBounces
<1>14. ASSUME NEW r \in Peers, Return(r)
       PROVE  UNCHANGED <<copy, session>>
  BY <1>14, Zenon DEF Return
<1>15. GiveUp \/ HeaderByte => UNCHANGED <<copy, session>>
  BY Zenon DEF GiveUp, HeaderByte
<1>16. HeaderSent \/ Dialled => UNCHANGED session
  BY Zenon DEF HeaderSent, Dialled
<1>17. Loses => UNCHANGED <<server, client, copy>> /\ Session
  BY Zenon DEF Loses
<1> HIDE DEF Handlers, Links, Copying, Session
<1>18. Handlers /\ Links /\ Copying /\ Session
  BY <1>1, <1>2, <1>3, <1>5, <1>6, <1>8, <1>9, <1>10, <1>11, <1>12, <1>13, <1>14, <1>15, <1>16,
     <1>17, Zenon DEF Step
<1>19. QED
  BY <1>7, <1>18, Zenon DEF Handlers, Links, Copying, Session

\* Bytes come into the first hop of p's lane only from p.
LEMMA StaysDry ==
    ASSUME TypeOK, Shape, Step, NEW p \in Peers, hop[Out(p)].data = <<>>,
           hop[Out(p)].end # "open" \/ ~Connected(p)
    PROVE  hop'[Out(p)].data = <<>>
<1>1. Out(p) \in Hops /\ Out(p) \in {1, 4}
  BY DEF Peers, Out, Hops
<1>2. CASE \A r \in Peers, n \in 1..MaxBytes : ~Sends(r, n)
  BY <1>1, <1>2, EndsStay, Zenon
<1>3. CASE \E r \in Peers, n \in 1..MaxBytes : Sends(r, n)
  <2>1. PICK r \in Peers, n \in 1..MaxBytes : Sends(r, n)
    BY <1>3, Zenon
  <2>2. r # p
    BY <2>1, Zenon DEF Sends
  <2>3. Out(r) # Out(p)
    BY <2>2 DEF Out, Peers
  <2>4. QED
    BY <1>1, <2>1, <2>3, Zenon DEF Sends, SameHops
<1>4. QED
  BY <1>2, <1>3, Zenon

\* Nothing is unlost.
LEMMA LostGrows ==
    ASSUME TypeOK, Shape, TypeOK', Shape', Step, NEW p \in Peers, ~(GiveUp /\ p = "user")
    PROVE  Lost(p)' >= Lost(p)
<1>1. Lost(p) \in Int /\ Lost(p)' \in Int
  BY Amounts, AmountsNext, Zenon
<1>2. Lost(p)' = Lost(p) => Lost(p)' >= Lost(p)
  BY <1>1
<1>3. GiveUp => p = "backend"
  BY Zenon DEF Peers
<1>4. ASSUME NEW r \in Peers, NEW n \in 1..MaxBytes, SendBounces(r, n)
      PROVE  Lost(p)' >= Lost(p)
  BY <1>4, LostPeer, Zenon
<1>5. QED
  BY <1>2, <1>3, <1>4, LostReturn, LostHandler, LostCopy, LostPeer, Zenon DEF Step

LEMMA StepBounded ==
    ASSUME TypeOK, Shape, TypeOK', Shape', Step, NEW p \in Peers, Bounded(p)
    PROVE  Bounded(p)'
<1> SUFFICES ASSUME p = "user" /\ client' = "returned" => copy'[2].state # "off"
             PROVE  Lost(p)' >= 0
  BY Zenon DEF Bounded
<1>1. p = "user" => (client = "returned" => client' = "returned" /\ copy[2].state # "off")
  <2>1. "backend" \in Peers
    BY DEF Peers
  <2>2. Returned("backend") => Returned("backend")'
    BY <2>1, Persists, Zenon
  <2>3. client = "returned" => client' = "returned"
    BY <2>2 DEF Returned
  <2>4. client = "returned" => (copy'[2].state = "off" <=> copy[2].state = "off")
    BY Persists, Zenon
  <2>5. QED
    BY <2>3, <2>4, Zenon
<1>2. Lost(p) >= 0
  BY <1>1, Zenon DEF Bounded
<1>3. ~(GiveUp /\ p = "user")
  <2>1. GiveUp => client' = "returned" /\ copy'[2].state = "off"
    BY Persists, Zenon DEF GiveUp
  <2>2. QED
    BY <2>1, Zenon
<1>4. Lost(p)' >= Lost(p) /\ Lost(p) \in Int /\ Lost(p)' \in Int
  BY <1>3, LostGrows, Amounts, AmountsNext, Zenon
<1>5. QED
  BY <1>2, <1>4

-----------------------------------------------------------------------------
(* Why a handler returns. *)

\* A copy from the peer ends with the peer's bytes.
LEMMA OwnCopyEnds ==
    ASSUME TypeOK, Shape, Step, NEW p \in Peers, Causes(p), Reasons(p),
           copy'[Out(p)].state = "done", session = "alive", ~Returned(p)
    PROVE  hop'[Out(p)].end # "open" /\ hop'[Out(p)].data = <<>>
<1>1. Out(p) \in Copies /\ Out(p) \in Hops /\ Out(p) + 1 \in Hops
  BY Places, Zenon
<1>2. hop[Out(p) + 1].reader = "there" /\ "there" # "gone"
  BY Across, Zenon DEF Shape
<1>3. ~Bounces(Out(p))
  BY <1>2, Zenon DEF Bounces
<1>4. CASE copy[Out(p)].state = "done"
  BY <1>1, <1>4, EndsStay, Zenon DEF Reasons
<1>5. CASE Stops(Out(p))
  <2>1. hop[Out(p) + 1].end = "open"
    BY Zenon DEF Causes
  <2>2. hop[Out(p)].reader # "gone"
    BY Zenon DEF Causes
  <2>3. hop[Out(p)].data = <<>> /\ hop[Out(p)].end # "open"
    BY <1>5, <2>1, <2>2, Zenon DEF Stops
  <2>4. QED
    BY <1>1, <2>3, EndsStay, Zenon
<1>6. QED
  BY <1>1, <1>3, <1>4, <1>5, Persists, Zenon

\* A copy to the peer ends with the bytes from the other side, or because it was
\* refused, and then some of them are lost.
LEMMA OtherCopyEnds ==
    ASSUME TypeOK, Shape, TypeOK', Shape', Step, NEW p \in Peers, Causes(p), Causes(Other(p)),
           Reasons(p), Bounded(Other(p)),
           copy'[6 - Out(p)].state = "done", session = "alive", ~Returned(p)
    PROVE  \/ Returned(Other(p))' /\ hop'[6 - Out(p)].data = <<>>
           \/ Lost(Other(p))' > 0 /\ hop'[Out(p)].end # "open"
<1> DEFINE q == Other(p)
           a == Out(p)
<1>1. q \in Peers /\ 6 - a \in Copies /\ 6 - a \in Hops /\ a \in Hops /\ Out(q) + 1 = 6 - a
      /\ (6 - a) + 1 = In(p) /\ 6 - (6 - a) = a
  BY Around, Places, Across, Zenon
<1> HIDE DEF q, a
<1>2. Returned(q) => Returned(q)'
  BY <1>1, Persists, Zenon
<1>3. Returned(q) => hop[6 - a].end # "open"
  BY <1>1, Zenon DEF Causes, q
<1>4. Lost(q) \in Int /\ Lost(q)' \in Int
  BY <1>1, Amounts, AmountsNext, Zenon
<1>5. CASE copy[6 - a].state = "done"
  <2>1. \/ Returned(q) /\ hop[6 - a].data = <<>>
        \/ Lost(q) > 0 /\ hop[a].end # "open"
    BY <1>5, Zenon DEF Reasons, q, a
  <2>2. CASE Returned(q) /\ hop[6 - a].data = <<>>
    BY <1>1, <1>2, <1>3, <2>2, EndsStay, Zenon DEF q, a
  <2>3. CASE Lost(q) > 0 /\ hop[a].end # "open"
    <3>1. ~(GiveUp /\ q = "user")
      <4>1. GiveUp => copy[2].state = "off" /\ "off" # "done"
        BY Persists, Zenon
      <4>2. q = "user" => 6 - a = 2
        BY DEF q, a, Other, Out, Peers
      <4>3. QED
        BY <1>5, <4>1, <4>2, Zenon
    <3>2. Lost(q)' >= Lost(q)
      BY <1>1, <3>1, LostGrows, Zenon
    <3>3. Lost(q)' > 0
      BY <1>4, <2>3, <3>2
    <3>4. hop'[a].end # "open"
      BY <1>1, <2>3, EndsStay, Zenon
    <3>5. QED
      BY <3>3, <3>4, Zenon DEF q, a
  <2>4. QED
    BY <2>1, <2>2, <2>3, Zenon
<1>6. CASE Stops(6 - a)
  <2>1. hop[6 - a].reader = "there" /\ "there" # "gone"
    BY Across, Zenon DEF Shape, a
  <2>2. hop[In(p)].end = "open"
    BY Zenon DEF Causes
  <2>3. hop[6 - a].data = <<>> /\ hop[6 - a].end # "open"
    BY <1>1, <1>6, <2>1, <2>2, Zenon DEF Stops
  <2>4. Returned(q)
    BY <1>1, <2>3, Zenon DEF Causes, q
  <2>5. QED
    BY <1>1, <1>2, <2>3, <2>4, EndsStay, Zenon DEF q, a
<1>7. CASE Bounces(6 - a)
  <2>1. hop'[a].end = "reset" /\ "reset" # "open"
    BY <1>1, <1>7, Zenon DEF Bounces
  <2>2. Lost(q)' > Lost(q)
    BY <1>1, <1>7, LostCopy, Zenon
  <2>3. Lost(q) >= 0
    <3>1. q = "user" => client # "returned"
      BY DEF Returned, q, Other, Peers
    <3>2. QED
      BY <3>1, Zenon DEF Bounded, q
  <2>4. Lost(q)' > 0
    BY <1>4, <2>2, <2>3
  <2>5. QED
    BY <2>1, <2>4, Zenon DEF q, a
<1>8. QED
  BY <1>1, <1>5, <1>6, <1>7, Persists, Zenon DEF a

\* A handler returns after one of its copies.
LEMMA WhyReturn ==
    ASSUME TypeOK, Shape, NEW p \in Peers, Return(p), Causes(p), Reasons(p), session = "alive"
    PROVE  /\ ~Returned(p)
           /\ \/ /\ copy[Out(p)].state = "done"
                 /\ hop[Out(p)].end # "open" /\ hop[Out(p)].data = <<>>
              \/ /\ copy[6 - Out(p)].state = "done"
                 /\ \/ Returned(Other(p)) /\ hop[6 - Out(p)].data = <<>>
                    \/ Lost(Other(p)) > 0 /\ hop[Out(p)].end # "open"
<1>1. ~Returned(p)
  BY Zenon DEF Return
<1>2. ~(p = "user" /\ server = "header" /\ hop[2].end # "open")
  <2>1. p = "user" => Out(p) + 1 = 2
    BY DEF Out
  <2>2. QED
    BY <1>1, <2>1, Zenon DEF Causes
<1>3. copy[Out(p)].state = "done" \/ copy[6 - Out(p)].state = "done"
  BY <1>2, Zenon DEF Return
<1>4. QED
  BY <1>1, <1>3, Zenon DEF Reasons

LEMMA StepReasons ==
    ASSUME TypeOK, Shape, TypeOK', Shape', Step, NEW p \in Peers, Causes(p), Causes(Other(p)),
           Reasons(p), Bounded(Other(p))
    PROVE  Reasons(p)'
<1>1. /\ Returned(p) => Returned(p)'
      /\ Returned(p) => (Connected(p)' <=> Connected(p))
      /\ Returned(p)' => Returned(p) \/ Return(p) \/ (GiveUp /\ p = "backend")
      /\ session' = "alive" => session = "alive"
  BY Persists, Zenon
<1>2. Other(p) \in Peers /\ Out(p) \in Hops
  BY Around, Places, Zenon
<1>3. ASSUME copy'[Out(p)].state = "done", session' = "alive", ~Returned(p)'
      PROVE  hop'[Out(p)].end # "open" /\ hop'[Out(p)].data = <<>>
  BY <1>1, <1>3, OwnCopyEnds, Zenon
<1>4. ASSUME copy'[6 - Out(p)].state = "done", session' = "alive", ~Returned(p)'
      PROVE  \/ Returned(Other(p))' /\ hop'[6 - Out(p)].data = <<>>
             \/ Lost(Other(p))' > 0 /\ hop'[Out(p)].end # "open"
  BY <1>1, <1>4, OtherCopyEnds, Zenon
<1>5. ASSUME Returned(p)', Connected(p)', session' = "alive", hop'[Out(p)].end = "open"
      PROVE  Returned(Other(p))'
  <2>1. hop[Out(p)].end = "open"
    BY <1>2, <1>5, EndsStay, Zenon
  <2>2. Returned(Other(p)) => Returned(Other(p))'
    BY <1>2, Persists, Zenon
  <2>3. CASE Returned(p)
    BY <1>1, <1>5, <2>1, <2>2, <2>3, Zenon DEF Reasons
  <2>4. CASE Return(p)
    BY <1>1, <1>5, <2>1, <2>2, <2>4, WhyReturn, Zenon
  <2>5. CASE GiveUp /\ p = "backend"
    <3>1. ~Connected(p)'
      <4>1. copy'[2].state = "off"
        BY <2>5, Persists, Zenon
      <4>2. QED
        BY <2>5, <4>1 DEF Connected
    <3>2. QED
      BY <1>5, <3>1, Zenon
  <2>6. QED
    BY <1>1, <1>5, <2>3, <2>4, <2>5, Zenon
<1>6. QED
  BY <1>3, <1>4, <1>5, Zenon DEF Reasons

-----------------------------------------------------------------------------
(* What is lost, and who has to answer for it. *)

\* Of nothing nothing is lost.
LEMMA NothingSent ==
    ASSUME TypeOK, Shape, NEW p \in Peers, sent[p] = 0, Ahead(p) = 0, Lost(p) >= 0
    PROVE  Lost(p) <= 0 /\ Near(p) = 0
<1>1. /\ Got(p) \in Nat /\ Far(p) \in Nat /\ FarHeld(p) \in Nat /\ Middle(p) \in Nat
      /\ NearHeld(p) \in Nat /\ Near(p) \in Nat
  BY Amounts, Zenon
<1>2. Lost(p) = 0 - (Got(p) + Far(p) + FarHeld(p) + (Middle(p) - 0) + NearHeld(p) + Near(p))
  BY Zenon DEF Lost
<1>3. QED
  BY <1>1, <1>2

\* The client returns without a connection: its backend has sent nothing.
LEMMA AccountGiveUp ==
    ASSUME TypeOK, Shape, TypeOK', Shape', GiveUp, Causes("backend"), Reasons("user"),
           Bounded("backend")
    PROVE  Account("user")'
<1>1. /\ "user" \in Peers /\ "backend" \in Peers /\ Other("user") = "backend"
      /\ Out("user") = 1 /\ Out("backend") = 4 /\ 6 - Out("user") = 5
  BY DEF Peers, Other, Out
<1>2. /\ copy[2].state = "off" /\ copy[4].state = "off" /\ client # "returned"
      /\ copy[4].buf = <<>>
  BY Six, Zenon DEF GiveUp, Shape
<1>3. ~Connected("backend") /\ Connected("user")
  BY <1>2 DEF Connected
<1>4. sent["backend"] = 0 /\ Lost("backend") >= 0
  BY <1>3, Zenon DEF Causes, Bounded
<1>5. Ahead("backend") = 0
  BY <1>1 DEF Ahead, Skip
<1>6. Lost("backend") <= 0 /\ Near("backend") = 0
  BY <1>1, <1>4, <1>5, NothingSent, Zenon
<1>7. Lost("backend")' = Lost("backend")
  BY <1>1, LostHandler, Zenon
<1>8. hop[4].data = <<>>
  <2>1. hop[4].data \in Seq(Int) /\ Len(hop[4].data) = 0
    BY <1>1, <1>6, Parts, Zenon DEF Near
  <2>2. QED
    BY <2>1
<1>9. /\ hop'[4] = hop[4] /\ hop'[1] = hop[1] /\ UNCHANGED <<copy, server, session>>
  BY Six, Zenon DEF GiveUp, SameHops
<1>10. Drained("backend")'
  <2>1. ~Connected("backend")'
    BY <1>3, <1>9, Zenon DEF Connected
  <2>2. hop'[4].data = <<>> /\ copy'[4].buf = <<>>
    BY <1>2, <1>8, <1>9, Zenon
  <2>3. QED
    BY <1>1, <2>1, <2>2, Zenon DEF Drained
<1>11. ASSUME session' = "alive", hop'[Out("user")].end = "open"
       PROVE  ~Returned("user")'
  <2>1. session = "alive" /\ hop[Out("user")].end = "open"
    BY <1>1, <1>9, <1>11, Zenon
  <2>2. ~Returned("backend")
    BY <1>2 DEF Returned
  <2>3. ~Returned("user")
    BY <1>1, <1>3, <2>1, <2>2, Zenon DEF Reasons
  <2>4. QED
    BY <1>9, <2>3 DEF Returned
<1>12. QED
  BY <1>1, <1>6, <1>7, <1>10, <1>11, Zenon DEF Account, Unharmed

\* Whatever p has to answer for stays so.
LEMMA HarmStays ==
    ASSUME TypeOK, Shape, TypeOK', Shape', Step, ~GiveUp, NEW p \in Peers, Unharmed(p)'
    PROVE  Unharmed(p)
<1>1. Out(p) \in Hops /\ In(p) \in Hops
  BY Around, Places, Zenon
<1>2. hop[Out(p)].end = "open" /\ hop[In(p)].end # "reset"
  BY <1>1, EndsStay, Zenon DEF Unharmed
<1>3. session = "alive" /\ (Returned(p) => Connected(p))
  BY Persists, Zenon DEF Unharmed
<1>4. Lost(p)' >= Lost(p) /\ Lost(p) \in Int /\ Lost(p)' \in Int
  BY LostGrows, Amounts, AmountsNext, Zenon
<1>5. Lost(p) <= 0
  <2>1. Lost(p)' <= 0
    BY Zenon DEF Unharmed
  <2>2. QED
    BY <1>4, <2>1
<1>6. QED
  BY <1>2, <1>3, <1>5, Zenon DEF Unharmed

\* The other handler returns only after the bytes of its own peer.
LEMMA OtherReturns ==
    ASSUME TypeOK, Shape, NEW p \in Peers, Return(Other(p)), Unharmed(p),
           Causes(Other(p)), Reasons(Other(p)), Reasons(p)
    PROVE  /\ copy[Out(Other(p))].state = "done" /\ hop[Out(Other(p))].end # "open"
           /\ hop[Out(Other(p))].data = <<>>
<1>1. Other(p) \in Peers /\ Other(Other(p)) = p
  BY Around, Zenon
<1>2. ~Returned(Other(p)) /\ session = "alive" /\ hop[Out(p)].end = "open"
  BY Zenon DEF Return, Unharmed
<1>3. ~Returned(p)
  BY <1>2, Zenon DEF Reasons, Unharmed
<1>4. ~(Lost(p) > 0)
  <2>1. Lost(p) \in Int /\ Lost(p) <= 0
    BY Amounts, Zenon DEF Unharmed
  <2>2. QED
    BY <2>1
<1>5. QED
  BY <1>1, <1>2, <1>3, <1>4, WhyReturn, Zenon

\* The handler at p returns only after the bytes of the other side.
LEMMA OwnReturns ==
    ASSUME TypeOK, Shape, NEW p \in Peers, Return(p), Unharmed(p), Causes(p), Reasons(p)
    PROVE  copy[6 - Out(p)].state = "done" /\ Returned(Other(p)) /\ hop[6 - Out(p)].data = <<>>
<1>1. session = "alive" /\ hop[Out(p)].end = "open"
  BY Zenon DEF Unharmed
<1>2. QED
  BY <1>1, WhyReturn, Zenon

\* No byte towards p gets lost.
LEMMA NothingLost ==
    ASSUME TypeOK, Shape, TypeOK', Shape', Step, ~GiveUp, NEW p \in Peers, Unharmed(p)',
           Causes(p), Causes(Other(p)), Reasons(p), Reasons(Other(p)), Bounded(p), Account(p)
    PROVE  Lost(Other(p))' <= 0
<1> DEFINE q == Other(p)
           a == Out(p)
           b == Out(q)
<1>1. /\ q \in Peers /\ q # p /\ Other(q) = p /\ a \in Copies /\ b \in Copies /\ 6 - a \in Copies
      /\ b + 1 = 6 - a /\ b + 2 = In(p) /\ (6 - a) + 1 = In(p) /\ a + 1 \in {2, 5}
      /\ b + 1 \in {2, 5}
  BY Around, Places, Across, Zenon
<1> HIDE DEF q, a, b
<1>2. Unharmed(p)
  BY HarmStays, Zenon
<1>3. /\ session = "alive" /\ session' = "alive" /\ hop[a].end = "open" /\ hop'[a].end = "open"
      /\ hop'[In(p)].end # "reset" /\ Lost(p)' <= 0
  BY <1>2, Zenon DEF Unharmed, a
<1>4. /\ Lost(q) <= 0 /\ (Returned(q) => Drained(q))
      /\ Returned(p) => copy[6 - a].state = "done"
  BY <1>2, Zenon DEF Account, q, a
<1>5. Lost(q)' = Lost(q) => Lost(q)' <= 0
  BY <1>4, Zenon
<1>6. Lost(p) \in Int /\ Lost(p)' \in Int
  BY Amounts, AmountsNext, Zenon
<1>7. ~(Lost(p)' > Lost(p) /\ Lost(p) >= 0)
  BY <1>3, <1>6
<1>8. ASSUME NEW r \in Peers, Return(r)
      PROVE  Lost(q)' <= 0
  <2>1. CASE r = q
    <3>1. copy[b].state = "done" /\ hop[b].data = <<>>
      BY <1>2, <1>8, <2>1, OtherReturns, Zenon DEF q, b
    <3>2. q = "user" => server # "header"
      <4>1. q = "user" => b = 1
        BY DEF b, Out
      <4>2. "off" # "done"
        OBVIOUS
      <4>3. QED
        BY <3>1, <4>1, <4>2, Zenon DEF Shape
    <3>3. QED
      BY <1>1, <1>5, <1>8, <2>1, <3>1, <3>2, LostReturn, Zenon DEF b
  <2>2. CASE r = p
    <3>1. q # r /\ hop'[Out(q) + 2].end # "reset"
      BY <1>1, <1>3, <2>2, Zenon DEF b
    <3>2. QED
      BY <1>1, <1>5, <1>8, <3>1, LostReturn, Zenon
  <2>3. r = p \/ r = q
    BY DEF q, Other, Peers
  <2>4. QED
    BY <2>1, <2>2, <2>3, Zenon
<1>9. HeaderSent \/ HeaderByte \/ Dialled => Lost(q)' <= 0
  BY <1>1, <1>5, LostHandler, Zenon
<1>10. ~Loses
  BY <1>3 DEF Loses
<1>11. ASSUME NEW c \in Copies, Reads(c) \/ Passes(c)
       PROVE  Lost(q)' <= 0
  BY <1>1, <1>5, <1>11, LostCopy, Zenon
<1>12. ASSUME NEW c \in Copies, Stops(c)
       PROVE  Lost(q)' <= 0
  <2>1. CASE copy[c].buf = <<>> \/ c \notin {Out(q), Out(q) + 1}
    BY <1>1, <1>5, <1>12, <2>1, LostCopy, Zenon
  <2>2. CASE copy[c].buf # <<>> /\ c = b
    <3>1. hop[b + 1].end # "open"
      BY <1>12, <2>2, Zenon DEF Stops
    <3>2. Returned(q)
      BY <1>3, <3>1, Zenon DEF Causes, q, b
    <3>3. QED
      BY <1>4, <2>2, <3>2, Zenon DEF Drained, b
  <2>3. CASE copy[c].buf # <<>> /\ c = b + 1
    <3>1. hop[In(p)].end # "open"
      BY <1>1, <1>12, <2>3, Zenon DEF Stops
    <3>2. Returned(p)
      BY <3>1, Zenon DEF Causes
    <3>3. copy[c].state = "done" /\ copy[c].state = "on" /\ "on" # "done"
      BY <1>1, <1>4, <1>12, <2>3, <3>2, Zenon DEF Stops
    <3>4. QED
      BY <3>3, Zenon
  <2>4. QED
    BY <2>1, <2>2, <2>3, Zenon DEF b
<1>13. ASSUME NEW c \in Copies, Bounces(c)
       PROVE  FALSE
  <2>1. c \in {a, a + 1, b, b + 1}
    BY DEF Copies, a, b, q, Out, Other, Peers
  <2>2. "gone" # "there"
    OBVIOUS
  <2>3. c # a /\ c # b
    BY <1>1, <1>13, <2>2, Zenon DEF Bounces, Shape
  <2>4. c # b + 1
    <3>1. hop[In(p)].reader = "gone" => hop[a].end # "open"
      BY Zenon DEF Causes, a
    <3>2. QED
      BY <1>1, <1>3, <1>13, <3>1, Zenon DEF Bounces
  <2>5. c # a + 1
    <3>1. SUFFICES ASSUME c = a + 1
                   PROVE  FALSE
      BY Zenon
    <3>2. Lost(p)' > Lost(p)
      BY <1>13, <3>1, LostCopy, Zenon DEF a
    <3>3. p = "user" => a + 1 = 2
      BY DEF a, Out
    <3>4. copy[c].state # "off"
      BY <1>13 DEF Bounces
    <3>5. Lost(p) >= 0
      BY <3>1, <3>3, <3>4, Zenon DEF Bounded
    <3>6. QED
      BY <1>7, <3>2, <3>5, Zenon
  <2>6. QED
    BY <2>1, <2>3, <2>4, <2>5, Zenon
<1>14. ASSUME NEW r \in Peers, Receives(r) \/ ShutsDown(r) \/ \E n \in 1..MaxBytes : Sends(r, n)
       PROVE  Lost(q)' <= 0
  BY <1>1, <1>5, <1>14, LostPeer, Zenon
<1>15. ASSUME NEW r \in Peers, Closes(r)
       PROVE  Lost(q)' <= 0
  <2>1. r = q
    <3>1. r # p
      BY <1>3, <1>15, Zenon DEF Closes, a
    <3>2. QED
      BY <3>1 DEF q, Other, Peers
  <2>2. CASE hop[In(q)].data = <<>>
    BY <1>1, <1>5, <1>15, <2>1, <2>2, LostPeer, Zenon
  <2>3. CASE hop[In(q)].data # <<>>
    <3>1. Lost(p)' > Lost(p)
      BY <1>1, <1>15, <2>1, <2>3, LostPeer, Zenon
    <3>2. p = "user" => copy[2].state # "off"
      <4>1. p = "user" => r = "backend"
        BY <2>1 DEF q, Other
      <4>2. QED
        BY <1>15, <4>1 DEF Closes, Connected
    <3>3. Lost(p) >= 0
      BY <3>2, Zenon DEF Bounded
    <3>4. QED
      BY <1>7, <3>1, <3>3, Zenon
  <2>4. QED
    BY <2>2, <2>3, Zenon
<1>16. ASSUME NEW r \in Peers, NEW n \in 1..MaxBytes, SendBounces(r, n)
       PROVE  FALSE
  <2>1. r # p
    BY <1>3, <1>16, Zenon DEF SendBounces
  <2>2. r = q
    BY <2>1 DEF q, Other, Peers
  <2>3. Connected(q) /\ hop[b].end = "open" /\ hop[b].reader = "gone"
    BY <1>16, <2>2, Zenon DEF SendBounces, b
  <2>4. Returned(q)
    BY <2>3, Zenon DEF Causes, q, b
  <2>5. QED
    BY <1>4, <2>3, <2>4, Zenon DEF Drained, b
<1>17. QED
  BY <1>8, <1>9, <1>10, <1>11, <1>12, <1>13, <1>14, <1>15, <1>16, Zenon DEF Step, q

LEMMA StepAccount ==
    ASSUME TypeOK, Shape, TypeOK', Shape', Step, NEW p \in Peers,
           Causes(p), Causes(Other(p)), Reasons(p), Reasons(Other(p)), Bounded(p),
           Bounded(Other(p)), Account(p)
    PROVE  Account(p)'
<1>1. CASE GiveUp /\ p = "user"
  <2>1. Other("user") = "backend"
    BY DEF Other
  <2>2. QED
    BY <1>1, <2>1, AccountGiveUp, Zenon
<1>2. CASE GiveUp /\ p = "backend"
  <2>1. ~(Returned(p)' => Connected(p)')
    <3>1. copy'[2].state = "off" /\ client' = "returned"
      BY <1>2, Persists, Zenon DEF GiveUp
    <3>2. QED
      BY <1>2, <3>1 DEF Returned, Connected
  <2>2. QED
    BY <2>1, Zenon DEF Account, Unharmed
<1>3. CASE ~GiveUp
  <2> DEFINE q == Other(p)
             a == Out(p)
             b == Out(q)
  <2>1. /\ q \in Peers /\ 6 - a \in Copies /\ 6 - a \in Hops /\ b \in Copies /\ b \in Hops
        /\ b + 1 = 6 - a
    BY Around, Places, CopyPlaces, Across, Zenon
  <2> HIDE DEF q, a, b
  <2> SUFFICES ASSUME Unharmed(p)'
               PROVE  /\ Lost(q)' <= 0 /\ (Returned(q)' => Drained(q)')
                      /\ Returned(p)' => copy'[6 - a].state = "done" /\ hop'[6 - a].data = <<>>
    BY Zenon DEF Account, q, a
  <2>2. Unharmed(p)
    BY <1>3, HarmStays, Zenon
  <2>3. session = "alive" /\ hop[a].end = "open" /\ (Returned(p) => Connected(p))
    BY <2>2, Zenon DEF Unharmed, a
  <2>4. /\ Returned(q) => Drained(q)
        /\ Returned(p) => copy[6 - a].state = "done" /\ hop[6 - a].data = <<>>
    BY <2>2, Zenon DEF Account, q, a
  <2>5. Lost(q)' <= 0
    BY <1>3, NothingLost, Zenon DEF q
  <2>6. ASSUME Returned(q)'
        PROVE  Drained(q)'
    <3>1. /\ hop[b].data = <<>> /\ copy[b].buf = <<>>
          /\ hop[b].end # "open" \/ ~Connected(q)
          /\ hop'[b].end # "open" \/ ~Connected(q)'
      <4>1. CASE Returned(q)
        <5>1. /\ hop[b].data = <<>> /\ copy[b].buf = <<>>
              /\ hop[b].end # "open" \/ ~Connected(q)
          BY <2>4, <4>1, Zenon DEF Drained, b
        <5>2. hop[b].end # "open" => hop'[b].end # "open"
          BY <2>1, EndsStay, Zenon
        <5>3. Connected(q)' <=> Connected(q)
          BY <2>1, <4>1, Persists, Zenon
        <5>4. QED
          BY <5>1, <5>2, <5>3, Zenon
      <4>2. CASE Return(q)
        <5>1. copy[b].state = "done" /\ hop[b].end # "open" /\ hop[b].data = <<>>
          BY <2>2, <4>2, OtherReturns, Zenon DEF q, b
        <5>2. "done" # "on"
          OBVIOUS
        <5>3. copy[b].buf = <<>>
          BY <2>1, <5>1, <5>2, Zenon DEF Shape
        <5>4. hop'[b].end # "open"
          BY <2>1, <5>1, EndsStay, Zenon
        <5>5. QED
          BY <5>1, <5>3, <5>4, Zenon
      <4>3. QED
        BY <1>3, <2>1, <2>6, <4>1, <4>2, Persists, Zenon
    <3>2. hop'[b].data = <<>>
      BY <2>1, <3>1, StaysDry, Zenon DEF b
    <3>3. copy'[b].buf = <<>>
      <4>1. ~Reads(b)
        BY <3>1, Zenon DEF Reads
      <4>2. QED
        BY <2>1, <3>1, <4>1, Persists, Zenon
    <3>4. QED
      BY <3>1, <3>2, <3>3, Zenon DEF Drained, b
  <2>7. ASSUME Returned(p)'
        PROVE  copy'[6 - a].state = "done" /\ hop'[6 - a].data = <<>>
    <3>1. copy[6 - a].state = "done" /\ hop[6 - a].data = <<>> /\ Returned(q)
      <4>1. CASE Returned(p)
        BY <2>3, <2>4, <4>1, Zenon DEF Reasons, q, a
      <4>2. CASE Return(p)
        BY <2>2, <4>2, OwnReturns, Zenon DEF q, a
      <4>3. QED
        BY <1>3, <2>7, <4>1, <4>2, Persists, Zenon
    <3>2. hop[6 - a].end # "open"
      BY <2>1, <3>1, Zenon DEF Causes, q, b
    <3>3. QED
      BY <2>1, <3>1, <3>2, Persists, EndsStay, Zenon
  <2>8. QED
    BY <2>5, <2>6, <2>7, Zenon
<1>4. QED
  BY <1>1, <1>2, <1>3, Zenon DEF Peers

-----------------------------------------------------------------------------
(* NoTruncation. *)

LEMMA IInvNext ==
    ASSUME IInv, [Next]_vars
    PROVE  IInv'
<1>1. Flow'
  BY FlowNext, Zenon DEF IInv
<1>2. TypeOK /\ Shape /\ TypeOK' /\ Shape' /\ \A p \in Peers : Causes(p)
  BY <1>1, Zenon DEF IInv, Flow
<1>3. \A p \in Peers : Other(p) \in Peers
  BY Around, Zenon
<1>4. CASE Next
  <2>1. Step
    BY <1>2, <1>4, NextStep, Zenon
  <2>2. ASSUME NEW p \in Peers
        PROVE  Bounded(p)' /\ Reasons(p)' /\ Account(p)'
    <3>1. /\ Reasons(p) /\ Bounded(p) /\ Account(p) /\ Causes(p)
          /\ Reasons(Other(p)) /\ Bounded(Other(p)) /\ Causes(Other(p))
      BY <1>2, <1>3, Zenon DEF IInv
    <3>2. QED
      BY <1>2, <2>1, <3>1, StepBounded, StepReasons, StepAccount, Zenon
  <2>3. QED
    BY <1>1, <2>2, Zenon DEF IInv
<1>5. CASE UNCHANGED vars
  <2>1. UNCHANGED <<address, hop, server, client, header, copy, sent, got, session>>
    BY <1>5, Zenon DEF vars
  <2>2. ASSUME NEW p \in Peers
        PROVE  /\ Lost(p)' = Lost(p) /\ Returned(p)' = Returned(p)
               /\ Connected(p)' = Connected(p) /\ Drained(p)' = Drained(p)
    <3>1. Skip(Out(p) + 1)' = Skip(Out(p) + 1)
      BY <2>1, Zenon DEF Skip
    <3>2. Lost(p)' = Lost(p)
      BY <2>1, <3>1, LostSame, Zenon
    <3>3. Returned(p)' = Returned(p) /\ Connected(p)' = Connected(p)
      BY <2>1, Zenon DEF Returned, Connected
    <3>4. Drained(p)' = Drained(p)
      BY <2>1, <3>3, Zenon DEF Drained
    <3>5. QED
      BY <3>2, <3>3, <3>4, Zenon
  <2>3. ASSUME NEW p \in Peers
        PROVE  Bounded(p)' /\ Reasons(p)' /\ Account(p)'
    <3>1. Reasons(p) /\ Bounded(p) /\ Account(p) /\ Other(p) \in Peers
      BY <1>3, Zenon DEF IInv
    <3>2. Bounded(p)'
      BY <2>1, <2>2, <3>1, Zenon DEF Bounded
    <3>3. Reasons(p)'
      BY <2>1, <2>2, <3>1, Zenon DEF Reasons
    <3>4. Unharmed(p)' = Unharmed(p)
      BY <2>1, <2>2, Zenon DEF Unharmed
    <3>5. Account(p)'
      BY <2>1, <2>2, <3>1, <3>4, Zenon DEF Account
    <3>6. QED
      BY <3>2, <3>3, <3>5, Zenon
  <2>4. QED
    BY <1>1, <2>3, Zenon DEF IInv
<1>6. QED
  BY <1>4, <1>5, Zenon

LEMMA IInvInit ==
    ASSUME Init
    PROVE  IInv
<1>1. Flow
  BY FlowInit, Zenon
<1>2. /\ \A h \in Hops : hop[h].data = <<>> /\ hop[h].end = "open"
      /\ \A c \in Copies : copy[c].state = "off" /\ copy[c].buf = <<>>
      /\ \A p \in Peers : sent[p] = 0 /\ got[p] = <<>>
  BY Zenon DEF Init
<1>3. ASSUME NEW p \in Peers
      PROVE  Lost(p) = 0 /\ ~Returned(p)
  <2>1. /\ Out(p) \in Hops /\ Out(p) + 1 \in Hops /\ Out(p) + 2 \in Hops
        /\ Out(p) \in Copies /\ Out(p) + 1 \in Copies /\ Other(p) \in Peers
    BY Around, Places, Zenon
  <2>2. Len(<<>>) = 0 /\ 0 - (0 + 0 + 0 + (0 - 0) + 0 + 0) = 0
    OBVIOUS
  <2>3. /\ Got(p) = 0 /\ Far(p) = 0 /\ FarHeld(p) = 0 /\ Middle(p) = 0 /\ NearHeld(p) = 0
        /\ Near(p) = 0
    BY <1>2, <2>1, <2>2, Zenon DEF Got, Far, FarHeld, Middle, NearHeld, Near
  <2>4. Ahead(p) = 0 /\ ~Returned(p)
    BY Zenon DEF Ahead, Skip, Init, Returned
  <2>5. QED
    BY <1>2, <2>2, <2>3, <2>4, Zenon DEF Lost
<1>4. ASSUME NEW p \in Peers
      PROVE  Reasons(p) /\ Bounded(p) /\ Account(p)
  <2>1. Other(p) \in Peers /\ Out(p) \in Copies /\ 6 - Out(p) \in Copies
    BY Around, Places, Zenon
  <2>2. 0 >= 0 /\ 0 <= 0 /\ "off" # "done"
    OBVIOUS
  <2>3. Lost(p) >= 0 /\ Lost(Other(p)) <= 0 /\ ~Returned(p) /\ ~Returned(Other(p))
    BY <1>3, <2>1, <2>2, Zenon
  <2>4. copy[Out(p)].state # "done" /\ copy[6 - Out(p)].state # "done"
    BY <1>2, <2>1, <2>2, Zenon
  <2>5. QED
    BY <2>3, <2>4, Zenon DEF Reasons, Bounded, Account
<1>5. QED
  BY <1>1, <1>4, Zenon DEF IInv

LEMMA IInvAlways == Spec => []IInv
BY IInvInit, IInvNext, PTL DEF Spec

\* A peer whose connection the handler has ended, and whose own bytes have arrived, has
\* nothing to answer for: the lane towards it is empty but for what it can still read.
LEMMA WholeAnswer ==
    ASSUME IInv, NEW p \in Peers, hop[In(p)].data = <<>>, hop[In(p)].end = "fin",
           hop[Out(p)].end = "open", Len(got[Other(p)]) = sent[p], session = "alive"
    PROVE  Len(got[p]) >= sent[Other(p)]
<1> DEFINE q == Other(p)
<1>1. /\ q \in Peers /\ Other(q) = p /\ Out(q) + 2 = In(p) /\ Out(q) + 1 = 6 - Out(p)
      /\ 6 - Out(p) \in Copies
  BY Around, Places, Across, Zenon
<1> HIDE DEF q
<1>2. TypeOK /\ Shape /\ Causes(p) /\ Reasons(p) /\ Account(p)
  BY Zenon DEF IInv, Flow
<1>3. "fin" # "open" /\ "fin" # "reset" /\ "done" # "on" /\ Len(<<>>) = 0
  OBVIOUS
<1>4. Returned(p) /\ Connected(p)
  BY <1>2, <1>3, Zenon DEF Causes
<1>5. Returned(q)
  BY <1>2, <1>4, Zenon DEF Reasons, q
<1>6. Ahead(p) = 0 /\ Ahead(q) = 0
  <2>1. client = "returned" => Ahead(p) = 0 /\ Ahead(q) = 0
    BY DEF Ahead, Skip
  <2>2. client = "returned"
    BY <1>4, <1>5 DEF Returned, q, Other, Peers
  <2>3. QED
    BY <2>1, <2>2, Zenon
<1>7. Lost(p) <= 0
  <2>1. /\ sent[p] \in Nat /\ Got(p) \in Nat /\ Far(p) \in Nat /\ FarHeld(p) \in Nat
        /\ Middle(p) \in Nat /\ NearHeld(p) \in Nat /\ Near(p) \in Nat
    BY <1>2, Amounts, Zenon
  <2>2. Lost(p) = sent[p] - (sent[p] + Far(p) + FarHeld(p) + (Middle(p) - 0) + NearHeld(p) + Near(p))
    BY <1>6, Zenon DEF Lost, Got
  <2>3. QED
    BY <2>1, <2>2
<1>8. Unharmed(p)
  BY <1>3, <1>4, <1>7, Zenon DEF Unharmed
<1>9. /\ Lost(q) <= 0 /\ Drained(q)
      /\ copy[6 - Out(p)].state = "done" /\ hop[6 - Out(p)].data = <<>>
  BY <1>2, <1>4, <1>5, <1>8, Zenon DEF Account, q
<1>10. Far(q) = 0 /\ FarHeld(q) = 0 /\ Middle(q) = 0 /\ NearHeld(q) = 0 /\ Near(q) = 0
  <2>1. copy[6 - Out(p)].buf = <<>>
    BY <1>1, <1>2, <1>3, <1>9, Zenon DEF Shape
  <2>2. hop[Out(q)].data = <<>> /\ copy[Out(q)].buf = <<>>
    BY <1>9, Zenon DEF Drained
  <2>3. QED
    BY <1>1, <1>3, <1>9, <2>1, <2>2, Zenon DEF Far, FarHeld, Middle, NearHeld, Near
<1>11. Lost(q) = sent[q] - (Len(got[p]) + 0 + 0 + (0 - 0) + 0 + 0)
  BY <1>1, <1>6, <1>10, Zenon DEF Lost, Got
<1>12. sent[q] \in Nat /\ Len(got[p]) \in Nat
  BY <1>1, <1>2, Amounts, Zenon DEF Got
<1>13. \A x, y \in Nat : x - (y + 0 + 0 + (0 - 0) + 0 + 0) <= 0 => y >= x
  OBVIOUS
<1>14. QED
  BY <1>9, <1>11, <1>12, <1>13, Zenon DEF q

\* A peer that reads an end of file has everything the other one sent, if it has not
\* closed its own direction, if its own bytes have all arrived and if the session
\* lasted, for addresses, windows, buffers and numbers of bytes of any size: the copy
\* that ends first, and closes both directions (server.go:156, client.go:122), is then
\* the one that had nothing left to copy.
THEOREM WholeStreams == Spec => []NoTruncation
<1>1. ASSUME IInv
      PROVE  NoTruncation
  <2>1. ASSUME NEW p \in Peers, hop[In(p)].data = <<>>, hop[In(p)].end = "fin",
               hop[Out(p)].end = "open", Len(got[Other(p)]) = sent[p], session = "alive"
        PROVE  Len(got[p]) = sent[Other(p)]
    <3>1. Len(got[p]) >= sent[Other(p)]
      BY <1>1, <2>1, WholeAnswer, Zenon
    <3>2. Len(got[p]) <= sent[Other(p)]
      BY <1>1, FlowOrdered, Zenon DEF IInv, Ordered
    <3>3. Len(got[p]) \in Nat /\ sent[Other(p)] \in Nat
      <4>1. Other(p) \in Peers /\ Other(Other(p)) = p /\ TypeOK /\ Shape
        BY <1>1, Around, Zenon DEF IInv, Flow
      <4>2. QED
        BY <4>1, Amounts, Zenon DEF Got
    <3>4. QED
      BY <3>1, <3>2, <3>3
  <2>2. QED
    BY <2>1, Zenon DEF NoTruncation
<1>2. QED
  BY <1>1, IInvAlways, PTL

=============================================================================
