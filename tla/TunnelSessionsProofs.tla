------------------------ MODULE TunnelSessionsProofs -------------------------
(***************************************************************************)
(* The server's list of sessions and its round robin, for any number of    *)
(* clients, sessions, connections and restarts and for any lists of        *)
(* targets.                                                                *)
(*                                                                         *)
(* That the list is right is inductive as it stands.  That no target gets  *)
(* two connections more than another is not: a state in which the target   *)
(* whose turn it is already has one more than the others satisfies it, and *)
(* the next does not.  What is preserved is that the targets, in the order *)
(* in which their turns come, have had no fewer connections the later they *)
(* come, and at most one more (InTurn).                                    *)
(***************************************************************************)
EXTENDS TunnelSessions, SequenceTheorems, TLAPS

\* Position i of a list has its turn before position j, if the turn is at t, 
\* counted from 0.
Before(t, i, j) == (i > t /\ (j <= t \/ i < j)) \/ (j <= t /\ i < j)

InTurn ==
    targets # <<>> => 
        \A i, j \in 1..Len(targets) :
            Before(Turn(targets), i, j) => hits[i] <= hits[j] /\ hits[j] <= hits[i] + 1

\* One turn per connection that is not new, and one hit per turn.
Counted ==
    /\ \A k \in Conns : conns[k].pc = "new" => rrIndex < k
    /\ \A i \in 1..Len(targets) : hits[i] <= rrIndex

IInv == TypeOK /\ Registered /\ Counted /\ InTurn

-----------------------------------------------------------------------------
(* Division and sequences. *)

LEMMA DivMod ==
  ASSUME NEW L \in Nat \ {0}, NEW r \in Nat
  PROVE  /\ r \div L \in Nat /\ r % L \in 0..(L - 1)
         /\ r = L * (r \div L) + (r % L)
  OBVIOUS

LEMMA QuotientUnique ==
  ASSUME NEW L \in Nat \ {0}, NEW a \in Int, NEW b \in Int,
         NEW m \in 0..(L - 1), NEW n \in 0..(L - 1), L * a + m = L * b + n
  PROVE  a = b
  <1>1. CASE a < b
    <2>1. a + 1 <= b
      BY <1>1
    <2>2. L * (a + 1) <= L * b
      BY <2>1
    <2> QED
      BY <2>2
  <1>2. CASE b < a
    <2>1. b + 1 <= a
      BY <1>2
    <2>2. L * (b + 1) <= L * a
      BY <2>1
    <2> QED
      BY <2>2
  <1> QED
    BY <1>1, <1>2

\* The turn goes to the next position, and from the last one to the first.
LEMMA NextRemainder ==
  ASSUME NEW L \in Nat \ {0}, NEW r \in Nat
  PROVE  (r + 1) % L = IF r % L = L - 1 THEN 0 ELSE (r % L) + 1
  <1> DEFINE q == r \div L
             p == (r + 1) \div L
             m == r % L
             n == (r + 1) % L
  <1>1. /\ q \in Nat /\ p \in Nat /\ m \in 0..(L - 1) /\ n \in 0..(L - 1)
        /\ r = L * q + m /\ (r + 1) = L * p + n
    <2>1. \A x \in Nat : /\ x \div L \in Nat /\ x % L \in 0..(L - 1)
                         /\ x = L * (x \div L) + (x % L)
      BY DivMod
    <2>2. r + 1 \in Nat
      OBVIOUS
    <2> QED
      BY <2>1, <2>2, Zenon
  <1> HIDE DEF q, p, m, n
  <1>2. CASE m = L - 1
    <2>1. L * p + n = L * (q + 1) + 0
      BY <1>1, <1>2
    <2>2. p = q + 1
      BY <1>1, <2>1, QuotientUnique
    <2> QED
      BY <1>1, <1>2, <2>1, <2>2 DEF n, m
  <1>3. CASE m # L - 1
    <2>1. L * p + n = L * q + (m + 1) /\ m + 1 \in 0..(L - 1)
      BY <1>1, <1>3
    <2>2. p = q
      BY <1>1, <2>1, QuotientUnique
    <2> QED
      BY <1>1, <1>3, <2>1, <2>2 DEF n, m
  <1> QED
    BY <1>2, <1>3 DEF m, n

\* What RemoveAt leaves.
LEMMA RemovedAt ==
  ASSUME NEW S, NEW q \in Seq(S), NEW i \in 1..Len(q), NEW r, r = RemoveAt(q, i)
  PROVE  /\ r \in Seq(S) /\ Len(r) = Len(q) - 1
         /\ \A j \in 1..(Len(q) - 1) : r[j] = IF j < i THEN q[j] ELSE q[j + 1]
  <1> DEFINE a == SubSeq(q, 1, i - 1)
             b == SubSeq(q, i + 1, Len(q))
  <1>1. a \in Seq(S) /\ Len(a) = i - 1 /\ \A j \in 1..(i - 1) : a[j] = q[j]
    OBVIOUS
  <1>2. b \in Seq(S) /\ Len(b) = Len(q) - i /\ \A j \in 1..(Len(q) - i) : b[j] = q[i + j]
    OBVIOUS
  <1>3. r = a \o b
    BY DEF RemoveAt
  <1> HIDE DEF a, b
  <1>4. /\ a \o b \in Seq(S) /\ Len(a \o b) = Len(a) + Len(b)
        /\ \A j \in 1..Len(a) + Len(b) :
              (a \o b)[j] = IF j <= Len(a) THEN a[j] ELSE b[j - Len(a)]
    BY <1>1, <1>2, ConcatProperties, Zenon
  <1>5. Len(q) \in Nat
    OBVIOUS
  <1>6. Len(a) + Len(b) = Len(q) - 1
    BY <1>1, <1>2, <1>5
  <1>7. ASSUME NEW j \in 1..(Len(q) - 1)
        PROVE  r[j] = IF j < i THEN q[j] ELSE q[j + 1]
    <2>1. j \in 1..Len(a) + Len(b)
      BY <1>6
    <2>2. r[j] = IF j <= Len(a) THEN a[j] ELSE b[j - Len(a)]
      BY <1>3, <1>4, <2>1, Zenon
    <2>3. CASE j < i
      <3>1. j <= Len(a) /\ j \in 1..(i - 1)
        BY <1>1, <1>5, <2>3
      <3> QED
        BY <1>1, <2>2, <2>3, <3>1, Zenon
    <2>4. CASE ~(j < i)
      <3>1. j - Len(a) \in 1..(Len(q) - i) /\ ~(j <= Len(a))
        BY <1>1, <1>5, <2>4
      <3>2. b[j - Len(a)] = q[i + (j - Len(a))]
        BY <1>2, <3>1, Zenon
      <3>3. i + (j - Len(a)) = j + 1
        BY <1>1, <1>5
      <3> QED
        BY <2>2, <2>4, <3>1, <3>2, <3>3, Zenon
    <2> QED
      BY <2>3, <2>4
  <1> QED
    BY <1>3, <1>4, <1>6, <1>7, Zenon

-----------------------------------------------------------------------------
(* The list of sessions. *)

Polling == {s \in Ids : handler[s] = "polling"}

LEMMA Initially == Init => IInv
  <1> SUFFICES ASSUME Init PROVE IInv
    OBVIOUS
  <1>1. TypeOK
    BY BoundsAssumption DEF Init, TypeOK, NewConn
  <1>2. Registered
    BY DEF Init, Registered, IsInjective, ToSet
  <1>3. Counted
    BY BoundsAssumption DEF Init, Counted, Conns, NewConn
  <1>4. InTurn
    BY DEF Init, InTurn
  <1> QED
    BY <1>1, <1>2, <1>3, <1>4 DEF IInv

\* Steps of sessions leave connections and turns alone.
LEMMA CountsFrame ==
  ASSUME Counted, InTurn, UNCHANGED <<targets, rrIndex, conns, hits>>
  PROVE  Counted' /\ InTurn'
  BY DEF Counted, InTurn, Turn

LEMMA ListFrame ==
  ASSUME Registered, UNCHANGED sessions, Polling' = Polling
  PROVE  Registered'
  BY DEF Registered, Polling

LEMMA RegisterStep ==
  ASSUME NEW s \in Ids, IInv, Register(s)
  PROVE  TypeOK' /\ Registered'
  <1>1. /\ sessions \in Seq(Ids) /\ sessions' = Append(sessions, s)
        /\ handler' = [handler EXCEPT ![s] = "polling"] /\ handler[s] = "upgraded"
        /\ Ids' = Ids
    BY DEF IInv, TypeOK, Register, Ids
  <1>2. /\ sessions' \in Seq(Ids) /\ Len(sessions') = Len(sessions) + 1
        /\ \A i \in 1..Len(sessions) : sessions'[i] = sessions[i]
        /\ sessions'[Len(sessions) + 1] = s /\ Len(sessions) \in Nat
    BY <1>1
  <1>3. TypeOK'
    BY <1>1, <1>2 DEF IInv, TypeOK, Register
  <1>4. /\ \A i \in 1..Len(sessions) : sessions[i] # s
        /\ \A i, j \in 1..Len(sessions) : sessions[i] = sessions[j] => i = j
    BY <1>1 DEF IInv, Registered, ToSet, IsInjective
  <1>5. DOMAIN sessions' = 1..(Len(sessions) + 1) /\ DOMAIN sessions = 1..Len(sessions)
    BY <1>1, <1>2
  <1>6. IsInjective(sessions')
    <2> SUFFICES ASSUME NEW i \in 1..(Len(sessions) + 1), NEW j \in 1..(Len(sessions) + 1),
                        sessions'[i] = sessions'[j]
                 PROVE  i = j
      BY <1>5 DEF IsInjective
    <2> QED
      BY <1>2, <1>4
  <1>7. ToSet(sessions') = ToSet(sessions) \cup {s}
    <2>1. ASSUME NEW x \in ToSet(sessions') PROVE x \in ToSet(sessions) \cup {s}
      BY <1>2, <1>5, <2>1 DEF ToSet
    <2>2. ASSUME NEW i \in 1..Len(sessions) PROVE sessions[i] \in ToSet(sessions')
      BY <1>2, <1>5 DEF ToSet
    <2>3. s \in ToSet(sessions')
      BY <1>2, <1>5 DEF ToSet
    <2> QED
      BY <1>5, <2>1, <2>2, <2>3 DEF ToSet
  <1>8. {t \in Ids : handler'[t] = "polling"} = Polling \cup {s}
    BY <1>1 DEF Polling, IInv, TypeOK
  <1> QED
    BY <1>1, <1>3, <1>6, <1>7, <1>8 DEF IInv, Registered, Polling

\* The index found in the list is that of the closed session (server.go:217-225).
LEMMA ReapStep ==
  ASSUME NEW s \in Ids, IInv, Reap(s)
  PROVE  TypeOK' /\ Registered'
  <1> DEFINE n == CHOOSE i \in DOMAIN sessions : sessions[i] = s
  <1>1. /\ sessions \in Seq(Ids) /\ sessions' = RemoveAt(sessions, n)
        /\ handler' = [handler EXCEPT ![s] = "returned"] /\ handler[s] = "polling"
        /\ Ids' = Ids /\ DOMAIN sessions = 1..Len(sessions) /\ Len(sessions) \in Nat
    BY DEF IInv, TypeOK, Reap, Ids
  <1>2. \E i \in DOMAIN sessions : sessions[i] = s
    BY <1>1 DEF IInv, Registered, ToSet
  <1>3. n \in 1..Len(sessions) /\ sessions[n] = s
    BY <1>1, <1>2
  <1> HIDE DEF n
  <1>4. /\ sessions' \in Seq(Ids) /\ Len(sessions') = Len(sessions) - 1
        /\ \A j \in 1..(Len(sessions) - 1) :
              sessions'[j] = IF j < n THEN sessions[j] ELSE sessions[j + 1]
    BY <1>1, <1>3, RemovedAt
  <1>5. DOMAIN sessions' = 1..(Len(sessions) - 1)
    BY <1>4
  <1>6. \A i, j \in 1..Len(sessions) : sessions[i] = sessions[j] => i = j
    BY <1>1 DEF IInv, Registered, IsInjective
  <1>7. TypeOK'
    BY <1>1, <1>4 DEF IInv, TypeOK, Reap
  <1>8. IsInjective(sessions')
    <2> SUFFICES ASSUME NEW i \in 1..(Len(sessions) - 1), NEW j \in 1..(Len(sessions) - 1),
                        sessions'[i] = sessions'[j]
                 PROVE  i = j
      BY <1>5 DEF IsInjective
    <2> DEFINE f(x) == IF x < n THEN x ELSE x + 1
    <2>1. sessions'[i] = sessions[f(i)] /\ sessions'[j] = sessions[f(j)]
      BY <1>4
    <2>2. f(i) \in 1..Len(sessions) /\ f(j) \in 1..Len(sessions)
      BY <1>1, <1>3
    <2>3. f(i) = f(j)
      BY <1>6, <2>1, <2>2, Zenon
    <2> QED
      BY <1>3, <2>3
  <1>9. ToSet(sessions') = ToSet(sessions) \ {s}
    <2>1. ASSUME NEW i \in 1..(Len(sessions) - 1)
          PROVE  sessions'[i] \in ToSet(sessions) \ {s}
      <3> DEFINE x == IF i < n THEN i ELSE i + 1
      <3>1. sessions'[i] = sessions[x] /\ x \in 1..Len(sessions) /\ x # n
        BY <1>1, <1>3, <1>4
      <3> QED
        BY <1>1, <1>3, <1>6, <3>1 DEF ToSet
    <2>2. ASSUME NEW i \in 1..Len(sessions), sessions[i] # s
          PROVE  sessions[i] \in ToSet(sessions')
      <3> DEFINE x == IF i < n THEN i ELSE i - 1
      <3>1. i # n
        BY <1>3, <2>2
      <3>2. x \in 1..(Len(sessions) - 1) /\ (IF x < n THEN x ELSE x + 1) = i
        BY <1>1, <1>3, <3>1
      <3>3. sessions'[x] = sessions[i]
        BY <1>4, <3>2
      <3> QED
        BY <1>5, <3>2, <3>3 DEF ToSet
    <2> QED
      BY <1>1, <1>5, <2>1, <2>2 DEF ToSet
  <1>10. {t \in Ids : handler'[t] = "polling"} = Polling \ {s}
    BY <1>1 DEF Polling, IInv, TypeOK
  <1> QED
    BY <1>1, <1>7, <1>8, <1>9, <1>10 DEF IInv, Registered, Polling

LEMMA SessionStep ==
  ASSUME IInv,
         \/ \E c \in Clients : Dial(c) \/ ClientNotices(c)
         \/ \E s \in Ids : Register(s) \/ Reap(s) \/ Cut(s) \/ ServerNotices(s)
  PROVE  IInv'
  <1>1. Counted' /\ InTurn'
    BY CountsFrame DEF IInv, Dial, ClientNotices, Register, Reap, Cut, ServerNotices
  <1>2. ASSUME NEW c \in Clients, Dial(c) PROVE TypeOK' /\ Registered'
    <2>1. PICK s \in Fresh : /\ client' = [client EXCEPT ![c] = s]
                             /\ handler' = [handler EXCEPT ![s] = "upgraded"]
      BY <1>2 DEF Dial
    <2>2. s \in Ids /\ s \in 0..MaxDials /\ handler[s] = "unborn"
      BY BoundsAssumption DEF Fresh, Ids
    <2>3. TypeOK'
      BY <1>2, <2>1, <2>2 DEF IInv, TypeOK, Dial
    <2>4. Polling' = Polling /\ UNCHANGED sessions
      BY <1>2, <2>1, <2>2 DEF Polling, IInv, TypeOK, Dial, Ids
    <2> QED
      BY <2>3, <2>4, ListFrame DEF IInv
  <1>3. ASSUME NEW c \in Clients, ClientNotices(c) PROVE TypeOK' /\ Registered'
    <2>1. TypeOK'
      BY <1>3, BoundsAssumption DEF IInv, TypeOK, ClientNotices, Retry
    <2> QED
      BY <1>3, <2>1, ListFrame DEF IInv, ClientNotices, Polling, Ids
  <1>4. ASSUME NEW s \in Ids, Cut(s) PROVE TypeOK' /\ Registered'
    <2>1. TypeOK'
      BY <1>4 DEF IInv, TypeOK, Cut
    <2> QED
      BY <1>4, <2>1, ListFrame DEF IInv, Cut, Polling, Ids
  <1>5. ASSUME NEW s \in Ids, ServerNotices(s) PROVE TypeOK' /\ Registered'
    <2>1. TypeOK'
      BY <1>5 DEF IInv, TypeOK, ServerNotices
    <2> QED
      BY <1>5, <2>1, ListFrame DEF IInv, ServerNotices, Polling, Ids
  <1> QED
    BY <1>1, <1>2, <1>3, <1>4, <1>5, RegisterStep, ReapStep DEF IInv

-----------------------------------------------------------------------------
(* Turns. *)

\* A list without a position is the empty one.
LEMMA ListType ==
  ASSUME targets \in Lists \cup {<<>>}
  PROVE  Len(targets) \in Nat /\ (targets # <<>> => Len(targets) \in Nat \ {0})
  BY ListsAssumption

\* The position at turn t is hit, and becomes the last one to have its turn.
LEMMA Served ==
  ASSUME NEW n \in Nat \ {0}, NEW t \in 0..(n - 1), NEW u \in 0..(n - 1),
         u = (IF t = n - 1 THEN 0 ELSE t + 1),
         NEW i \in 1..n, NEW j \in 1..n, Before(u, i, j)
  PROVE  i # t + 1 /\ (IF j = t + 1 THEN Before(t, t + 1, i) ELSE Before(t, i, j))
  <1>1. CASE t = n - 1
    BY <1>1 DEF Before
  <1>2. CASE t # n - 1
    BY <1>2 DEF Before
  <1> QED
    BY <1>1, <1>2

\* A turn is a position of the list, counted from 0.
LEMMA TurnInList ==
  ASSUME NEW l, Len(l) \in Nat \ {0}, rrIndex \in Nat
  PROVE  Turn(l) \in 0..(Len(l) - 1) /\ Turn(l) + 1 \in 1..Len(l)
  <1>1. rrIndex % Len(l) \in 0..(Len(l) - 1)
    BY DivMod, Zenon
  <1> HIDE DEF Turn
  <1>2. Turn(l) \in 0..(Len(l) - 1)
    BY <1>1, Zenon DEF Turn
  <1> QED
    BY <1>2

LEMMA TurnTaken ==
  ASSUME IInv, targets # <<>>, rrIndex' = NextTurn, targets' = targets,
         hits' = [hits EXCEPT ![Turn(targets) + 1] = @ + 1]
  PROVE  InTurn'
  <1> DEFINE n == Len(targets)
             t == rrIndex % n
             u == (rrIndex + 1) % n
  <1>1. n \in Nat \ {0} /\ rrIndex \in Nat
    BY ListType, BoundsAssumption DEF IInv, TypeOK
  <1>2. /\ t \in 0..(n - 1) /\ u \in 0..(n - 1)
        /\ u = IF t = n - 1 THEN 0 ELSE t + 1
    <2> HIDE DEF n
    <2>1. rrIndex + 1 \in Nat
      BY <1>1
    <2>2. t \in 0..(n - 1) /\ u \in 0..(n - 1)
      BY <1>1, <2>1, DivMod, Zenon
    <2>3. u = IF t = n - 1 THEN 0 ELSE t + 1
      BY <1>1, NextRemainder, Zenon
    <2> QED
      BY <2>2, <2>3, Zenon
  <1>3. Turn(targets) = t /\ Turn(targets)' = u
    BY DEF Turn, NextTurn
  <1>4. /\ hits \in [1..n -> Nat] /\ t + 1 \in 1..n
        /\ \A i \in 1..n : hits'[i] = IF i = t + 1 THEN hits[i] + 1 ELSE hits[i]
    BY <1>1, <1>2, <1>3, BoundsAssumption DEF IInv, TypeOK
  <1>5. \A i, j \in 1..n : Before(t, i, j) => hits[i] <= hits[j] /\ hits[j] <= hits[i] + 1
    BY <1>3 DEF IInv, InTurn
  <1> HIDE DEF n, t, u
  <1>6. ASSUME NEW i \in 1..n, NEW j \in 1..n, Before(u, i, j)
        PROVE  hits'[i] <= hits'[j] /\ hits'[j] <= hits'[i] + 1
    <2>1. i # t + 1 /\ (IF j = t + 1 THEN Before(t, t + 1, i) ELSE Before(t, i, j))
      BY <1>1, <1>2, <1>6, Served
    <2>2. hits[i] \in Nat /\ hits[j] \in Nat /\ hits'[i] = hits[i]
      BY <1>4, <2>1
    <2>3. CASE j = t + 1
      <3>1. hits[j] <= hits[i] /\ hits[i] <= hits[j] + 1 /\ hits'[j] = hits[j] + 1
        BY <1>4, <1>5, <2>1, <2>3
      <3> QED
        BY <2>2, <3>1
    <2>4. CASE j # t + 1
      BY <1>4, <1>5, <2>1, <2>2, <2>4
    <2> QED
      BY <2>3, <2>4
  <1>7. Len(targets') = n
    BY DEF n
  <1> QED
    BY <1>3, <1>6, <1>7 DEF InTurn

\* handleTCP: the turn is taken, or the connection is dropped.
LEMMA HandleStep ==
  ASSUME NEW k \in Conns, IInv, handleTCP(k)
  PROVE  IInv'
  <1>0. /\ TypeOK /\ Registered /\ Counted /\ InTurn /\ conns[k].pc = "new"
        /\ \A j \in 1..(k - 1) : conns[j].pc # "new"
        /\ UNCHANGED <<client, handler, link, closed, sessions, targets, restarts>>
        /\ k \in 1..MaxConns /\ MaxConns \in Nat /\ MaxDials \in Nat
    BY BoundsAssumption DEF IInv, handleTCP, Conns
  <1>1. Registered'
    BY <1>0, ListFrame DEF Polling, Ids
  <1>2. CASE /\ conns' = [conns EXCEPT ![k].pc = "closed"] /\ UNCHANGED <<rrIndex, hits>>
    <2>1. TypeOK'
      BY <1>0, <1>2 DEF TypeOK
    <2>2. Counted'
      BY <1>0, <1>2 DEF Counted, TypeOK, Conns
    <2>3. InTurn'
      BY <1>0, <1>2 DEF InTurn, Turn
    <2> QED
      BY <1>1, <2>1, <2>2, <2>3 DEF IInv
  <1>3. CASE /\ sessions # <<>> /\ targets # <<>>
             /\ conns' = [conns EXCEPT ![k] =
                    [pc |-> "picked", sess |-> sessions[Turn(sessions) + 1]]]
             /\ hits' = [hits EXCEPT ![Turn(targets) + 1] = @ + 1]
             /\ rrIndex' = NextTurn
    <2>1. rrIndex \in Nat /\ rrIndex < k /\ rrIndex' = rrIndex + 1
      BY <1>0, <1>3 DEF TypeOK, Counted, NextTurn
    <2>2. Len(sessions) \in Nat \ {0} /\ Len(targets) \in Nat \ {0}
      BY <1>0, <1>3, ListType DEF TypeOK
    <2>3. Turn(sessions) + 1 \in 1..Len(sessions) /\ Turn(targets) + 1 \in 1..Len(targets)
      BY <2>1, <2>2, TurnInList
    <2>4. sessions[Turn(sessions) + 1] \in 0..MaxDials
      BY <1>0, <2>3 DEF TypeOK, Ids
    <2>5. /\ hits \in [1..Len(targets) -> Nat]
          /\ \A i \in 1..Len(targets) : hits[i] <= rrIndex
      BY <1>0 DEF TypeOK, Counted
    <2>6. \A i \in 1..Len(targets) : hits'[i] \in Nat /\ hits'[i] <= rrIndex'
      BY <1>3, <2>1, <2>3, <2>5
    <2>7. rrIndex' \in 0..MaxConns
      BY <1>0, <2>1
    <2>8. hits' \in [1..Len(targets) -> 0..MaxConns]
      <3>1. \A i \in 1..Len(targets) : hits'[i] \in 0..MaxConns
        BY <1>0, <2>6, <2>7
      <3>2. hits' = [i \in 1..Len(targets) |-> hits'[i]]
        BY <1>3, <2>5
      <3> QED
        BY <3>1, <3>2
    <2>9. conns' \in [Conns -> [pc : {"new", "picked", "piping", "closed"}, sess : 0..MaxDials]]
      BY <1>0, <1>3, <2>4 DEF TypeOK
    <2>10. TypeOK'
      BY <1>0, <2>7, <2>8, <2>9 DEF TypeOK
    <2>11. ASSUME NEW j \in Conns, conns'[j].pc = "new" PROVE rrIndex' < j
      <3>1. j # k /\ conns[j].pc = "new"
        BY <1>0, <1>3, <2>11 DEF TypeOK
      <3>2. j \in 1..MaxConns /\ ~(j \in 1..(k - 1))
        BY <1>0, <3>1 DEF Conns
      <3> QED
        BY <1>0, <2>1, <3>1, <3>2
    <2>12. Counted'
      BY <1>0, <2>6, <2>11 DEF Counted, Conns
    <2>13. InTurn'
      BY <1>0, <1>3, TurnTaken
    <2> QED
      BY <1>1, <2>10, <2>12, <2>13 DEF IInv
  <1> QED
    BY <1>2, <1>3 DEF handleTCP

LEMMA StreamStep ==
  ASSUME NEW k \in Conns, IInv, OpenStream(k) \/ EndPipe(k)
  PROVE  IInv'
  <1>1. /\ UNCHANGED <<client, handler, link, closed, sessions, targets, rrIndex, hits, restarts>>
        /\ conns[k].pc # "new"
        /\ \E p \in {"closed", "piping"} : conns' = [conns EXCEPT ![k].pc = p]
    BY DEF OpenStream, EndPipe
  <1>2. TypeOK'
    BY <1>1 DEF IInv, TypeOK
  <1>3. Registered'
    BY <1>1, ListFrame DEF IInv, Polling, Ids
  <1>4. Counted'
    BY <1>1 DEF IInv, Counted, TypeOK, Conns
  <1>5. InTurn'
    BY <1>1 DEF IInv, InTurn, Turn
  <1> QED
    BY <1>2, <1>3, <1>4, <1>5 DEF IInv

\* A new list begins without hits, at whatever turn it is.
LEMMA ListStep ==
  ASSUME NEW l \in Lists, IInv, SetTargets(l)
  PROVE  IInv'
  <1>1. /\ UNCHANGED <<client, handler, link, closed, sessions, rrIndex, conns, restarts>>
        /\ targets' = l /\ hits' = [i \in 1..Len(l) |-> 0] /\ Len(l) \in Nat
        /\ rrIndex \in Nat
    BY ListsAssumption, BoundsAssumption DEF IInv, TypeOK, SetTargets, Zeros
  <1>2. TypeOK'
    BY <1>1, BoundsAssumption DEF IInv, TypeOK
  <1>3. Registered'
    BY <1>1, ListFrame DEF IInv, Polling, Ids
  <1>4. Counted' /\ InTurn'
    BY <1>1 DEF IInv, Counted, InTurn, Conns
  <1> QED
    BY <1>2, <1>3, <1>4 DEF IInv

LEMMA RestartStep == IInv /\ ServerRestart => IInv'
  <1> SUFFICES ASSUME IInv, ServerRestart PROVE IInv'
    OBVIOUS
  <1>1. TypeOK'
    <2>1. /\ client' \in [Clients -> 0..MaxDials] /\ rrIndex' \in 0..MaxConns
          /\ handler' \in [Ids -> {"unborn", "upgraded", "polling", "returned"}]
          /\ restarts' \in 0..MaxRestarts
      BY BoundsAssumption DEF IInv, TypeOK, ServerRestart
    <2>2. link' \in [Ids -> {"up", "cut"}] /\ closed' \in SUBSET Ids
      BY DEF IInv, TypeOK, ServerRestart
    <2>3. /\ sessions' \in Seq(Ids) /\ targets' \in Lists \cup {<<>>}
          /\ hits' \in [1..Len(targets') -> 0..MaxConns]
      BY DEF ServerRestart
    <2>4. conns' \in [Conns -> [pc : {"new", "picked", "piping", "closed"}, sess : 0..MaxDials]]
      BY DEF IInv, TypeOK, ServerRestart
    <2> QED
      BY <2>1, <2>2, <2>3, <2>4 DEF TypeOK
  <1>2. Registered'
    BY DEF IInv, TypeOK, ServerRestart, Registered, IsInjective, ToSet, Ids
  <1>3. Counted'
    BY BoundsAssumption DEF IInv, ServerRestart, Counted, Conns
  <1>4. InTurn'
    BY DEF ServerRestart, InTurn
  <1> QED
    BY <1>1, <1>2, <1>3, <1>4 DEF IInv

LEMMA Stutter == IInv /\ UNCHANGED vars => IInv'
  <1> SUFFICES ASSUME IInv, UNCHANGED vars PROVE IInv'
    OBVIOUS
  <1>1. TypeOK' /\ Registered'
    BY DEF IInv, vars, TypeOK, Registered, Ids, Conns
  <1> QED
    BY <1>1, CountsFrame DEF IInv, vars

-----------------------------------------------------------------------------
(* The theorems. *)

LEMMA Invariance == Spec => []IInv
  <1>1. IInv /\ [Next]_vars => IInv'
    BY SessionStep, HandleStep, StreamStep, ListStep, RestartStep, Stutter DEF Next
  <1> QED
    BY <1>1, Initially, PTL DEF Spec

\* Every reachable state of the sessions, connections and targets is well typed; in
\* particular rrIndex counts no more turns than there were connections.
THEOREM Typing == Spec => []TypeOK
  <1>1. IInv => TypeOK
    BY DEF IInv
  <1> QED
    BY <1>1, Invariance, PTL

\* However sessions come, break and are reaped, the list holds each one whose
\* handler runs exactly once, and no other (handleWS, server.go:204-225).
THEOREM ListIsRight == Spec => []Registered
  <1>1. IInv => Registered
    BY DEF IInv
  <1> QED
    BY <1>1, Invariance, PTL

\* No target gets two connections more than another while the list stays the same,
\* for lists of any length (handleTCP, server.go:106-114).
THEOREM RoundRobinIsFair == Spec => []RoundRobin
  <1>1. IInv => RoundRobin
    <2> SUFFICES ASSUME IInv, NEW i \in DOMAIN hits, NEW j \in DOMAIN hits
                 PROVE  hits[i] <= hits[j] + 1
      BY DEF RoundRobin
    <2>1. Len(targets) \in Nat
      BY ListType DEF IInv, TypeOK
    <2>2. i \in 1..Len(targets) /\ j \in 1..Len(targets) /\ hits[i] \in Nat /\ hits[j] \in Nat
      BY BoundsAssumption DEF IInv, TypeOK
    <2>3. Len(targets) \in Nat \ {0} /\ targets # <<>> /\ rrIndex \in Nat
      BY <2>1, <2>2, BoundsAssumption DEF IInv, TypeOK
    <2>4. Turn(targets) \in Nat
      BY <2>3, TurnInList
    <2>5. i = j \/ Before(Turn(targets), i, j) \/ Before(Turn(targets), j, i)
      BY <2>2, <2>4 DEF Before
    <2> QED
      BY <2>2, <2>3, <2>5 DEF IInv, InTurn
  <1> QED
    BY <1>1, Invariance, PTL
=============================================================================
