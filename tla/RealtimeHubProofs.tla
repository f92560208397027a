-------------------------- MODULE RealtimeHubProofs --------------------------
(***************************************************************************)
(* What the realtime hub keeps, for any number of clients, sessions, events, *)
(* lost acknowledgements, breaks and restarts, and whatever the capacity of  *)
(* the channels and of the connections.                                     *)
(*                                                                         *)
(* Three questions are answered from one inductive invariant, HubInv.  The  *)
(* history is an initial part of the stream only because the consumer never *)
(* runs ahead of it, every replay waiting for AddHistory is a stretch of    *)
(* the stream that starts inside it, and no cursor points beyond it         *)
(* (InStreamOrder).  The cursor vouches for its past only because the frames *)
(* on the wire, and the channel behind them, come in an order in which an   *)
(* event never overtakes one the client still lacks (InOrder, Vouched): a   *)
(* redelivered event may come late, never early.  A session that began      *)
(* without a cursor misses nothing, at every stage of its handler           *)
(* (FreshComplete), and this part survives restarts.                        *)
(***************************************************************************)
EXTENDS RealtimeHub, FiniteSetTheorems, FunctionTheorems, SequenceTheorems,
        WellFoundedInduction, TLAPS

-----------------------------------------------------------------------------
(* Sequences of events: what the helpers of the module return.             *)


\* The elements of a concatenation.
LEMMA ConcatSet ==
    ASSUME NEW E, NEW s \in Seq(E), NEW t \in Seq(E)
    PROVE  ToSet(s \o t) = ToSet(s) \cup ToSet(t)
<1>1. /\ Len(s \o t) = Len(s) + Len(t) /\ s \o t \in Seq(E)
      /\ Len(s) \in Nat /\ Len(t) \in Nat
  OBVIOUS
<1>2. /\ \A i \in 1 .. Len(s) : (s \o t)[i] = s[i] /\ i \in 1 .. Len(s \o t)
      /\ \A i \in 1 .. Len(t) : (s \o t)[Len(s) + i] = t[i] /\ Len(s) + i \in 1 .. Len(s \o t)
      /\ \A i \in 1 .. Len(s \o t) : i \in 1 .. Len(s) \/ (i - Len(s) \in 1 .. Len(t) /\ (s \o t)[i] = t[i - Len(s)])
  BY <1>1
<1>3. ToSet(s) \subseteq ToSet(s \o t)
  BY <1>2 DEF ToSet
<1>4. ToSet(t) \subseteq ToSet(s \o t)
  <2>1. SUFFICES ASSUME NEW x \in ToSet(t) PROVE x \in ToSet(s \o t)
    OBVIOUS
  <2>2. PICK i \in 1 .. Len(t) : x = t[i]
    BY DEF ToSet
  <2>3. (s \o t)[Len(s) + i] = x /\ Len(s) + i \in DOMAIN (s \o t)
    BY <1>1, <1>2, <2>2
  <2> QED BY <2>3 DEF ToSet
<1>5. ASSUME NEW x \in ToSet(s \o t) PROVE x \in ToSet(s) \cup ToSet(t)
  <2>1. PICK i \in 1 .. Len(s \o t) : x = (s \o t)[i]
    BY <1>1 DEF ToSet
  <2>2. CASE i \in 1 .. Len(s)
    BY <1>2, <2>1, <2>2 DEF ToSet
  <2>3. CASE i - Len(s) \in 1 .. Len(t) /\ (s \o t)[i] = t[i - Len(s)]
    BY <2>1, <2>3 DEF ToSet
  <2> QED BY <1>2, <2>1, <2>2, <2>3
<1> QED BY <1>3, <1>4, <1>5

\* What Append adds.
LEMMA AppendSet ==
    ASSUME NEW E, NEW s \in Seq(E), NEW e \in E
    PROVE  /\ Append(s, e) \in Seq(E) /\ ToSet(Append(s, e)) = ToSet(s) \cup {e}
           /\ Len(Append(s, e)) = Len(s) + 1 /\ Append(s, e)[Len(s) + 1] = e
           /\ \A i \in 1 .. Len(s) : Append(s, e)[i] = s[i]
<1>1. /\ Append(s, e) \in Seq(E) /\ Len(Append(s, e)) = Len(s) + 1 /\ Append(s, e)[Len(s) + 1] = e
      /\ \A i \in 1 .. Len(s) : Append(s, e)[i] = s[i]
      /\ Len(s) \in Nat
  OBVIOUS
<1>2. \A i \in 1 .. Len(s) + 1 : i \in 1 .. Len(s) \/ i = Len(s) + 1
  BY <1>1
<1>3. \A i \in 1 .. Len(s) : i \in 1 .. Len(s) + 1
  BY <1>1
<1>4. Len(s) + 1 \in 1 .. Len(s) + 1
  BY <1>1
<1>5. DOMAIN Append(s, e) = 1 .. Len(s) + 1 /\ DOMAIN s = 1 .. Len(s)
  BY <1>1
<1>6. ToSet(Append(s, e)) \subseteq ToSet(s) \cup {e}
  BY <1>1, <1>2, <1>5 DEF ToSet
<1>7. ToSet(s) \cup {e} \subseteq ToSet(Append(s, e))
  BY <1>1, <1>3, <1>4, <1>5 DEF ToSet
<1> QED BY <1>1, <1>6, <1>7

\* What Head and Tail take apart.
LEMMA TailSet ==
    ASSUME NEW E, NEW s \in Seq(E), s # <<>>
    PROVE  /\ Head(s) \in E /\ Head(s) = s[1] /\ Tail(s) \in Seq(E) /\ Len(Tail(s)) = Len(s) - 1
           /\ Len(s) \in Nat \ {0}
           /\ \A i \in 1 .. Len(Tail(s)) : Tail(s)[i] = s[i + 1] /\ i + 1 \in 1 .. Len(s)
           /\ ToSet(s) = {Head(s)} \cup ToSet(Tail(s))
<1>0. Len(s) \in Nat \ {0}
  OBVIOUS
<1>1. /\ Head(s) \in E /\ Head(s) = s[1] /\ Tail(s) \in Seq(E) /\ Len(Tail(s)) = Len(s) - 1
      /\ \A i \in 1 .. Len(Tail(s)) : Tail(s)[i] = s[i + 1] /\ i + 1 \in 1 .. Len(s)
  BY <1>0
<1>2. /\ DOMAIN s = 1 .. Len(s) /\ DOMAIN Tail(s) = 1 .. Len(Tail(s)) /\ 1 \in 1 .. Len(s)
      /\ \A i \in 1 .. Len(s) : i = 1 \/ (i - 1 \in 1 .. Len(Tail(s)) /\ (i - 1) + 1 = i)
  BY <1>0, <1>1
<1>3. {Head(s)} \cup ToSet(Tail(s)) \subseteq ToSet(s)
  BY <1>1, <1>2 DEF ToSet
<1>4. ASSUME NEW i \in 1 .. Len(s), i # 1 PROVE s[i] \in ToSet(Tail(s))
  <2>1. i - 1 \in 1 .. Len(Tail(s)) /\ Tail(s)[i - 1] = s[(i - 1) + 1] /\ (i - 1) + 1 = i
    BY <1>1, <1>2, <1>4
  <2>2. Tail(s)[i - 1] = s[i]
    BY <2>1
  <2> QED BY <1>2, <2>1, <2>2 DEF ToSet
<1>5. ToSet(s) \subseteq {Head(s)} \cup ToSet(Tail(s))
  BY <1>1, <1>2, <1>4 DEF ToSet
<1> QED BY <1>0, <1>1, <1>3, <1>5

\* The elements of a set of numbers are counted from the smallest.
LEMMA Ranks ==
    ASSUME NEW N \in Nat, NEW S \in SUBSET (1 .. N)
    PROVE  /\ Cardinality(S) \in Nat
           /\ \A i \in S : Rank(i, S) \in 1 .. Cardinality(S)
           /\ \A i, j \in S : i < j => Rank(i, S) < Rank(j, S)
           /\ \A k \in 1 .. Cardinality(S) : \E i \in S : Rank(i, S) = k
<1> DEFINE rank == [i \in S |-> Rank(i, S)]
<1>1. IsFiniteSet(S) /\ Cardinality(S) \in Nat
  <2>1. IsFiniteSet(1 .. N)
    BY FS_Interval, 1 \in Int, N \in Int
  <2>2. IsFiniteSet(S)
    BY <2>1, FS_Subset
  <2> QED BY <2>2, FS_CardinalityType
<1>0. \A i \in S : i \in Int
  OBVIOUS
<1>2. ASSUME NEW i \in S
      PROVE  /\ IsFiniteSet({j \in S : j <= i}) /\ Cardinality({j \in S : j <= i}) \in 1 .. Cardinality(S)
             /\ Cardinality({j \in S : j <= i}) \in Nat
  <2> DEFINE below == {j \in S : j <= i}
  <2>1. below \in SUBSET S /\ i \in below
    OBVIOUS
  <2>2. IsFiniteSet(below) /\ Cardinality(below) <= Cardinality(S) /\ Cardinality(below) \in Nat
    BY <1>1, <2>1, FS_Subset, FS_CardinalityType
  <2>3. Cardinality(below) # 0
    BY <2>1, <2>2, FS_EmptySet
  <2> QED BY <1>1, <2>2, <2>3
<1>3. rank \in [S -> 1 .. Cardinality(S)]
  BY <1>2 DEF Rank
<1>4. ASSUME NEW i \in S, NEW j \in S, i < j PROVE rank[i] < rank[j]
  <2> DEFINE below(x) == {y \in S : y <= x}
  <2>1. below(i) \in SUBSET below(j) /\ j \in below(j) /\ j \notin below(i)
    <3>1. \A y \in S : y <= i => y <= j
      BY <1>0, <1>4
    <3>2. ~(j <= i) /\ i <= i /\ j <= j
      BY <1>0, <1>4
    <3> QED BY <3>1, <3>2
  <2>2. Cardinality(below(i)) <= Cardinality(below(j)) /\ Cardinality(below(j)) # Cardinality(below(i))
    BY <1>2, <2>1, FS_Subset
  <2> QED BY <1>2, <2>2 DEF Rank
<1>5. rank \in Injection(S, 1 .. Cardinality(S))
    <2>1. \A i, j \in S : rank[i] = rank[j] => i = j
    <3>1. TAKE i, j \in S
    <3>2. i < j \/ j < i \/ i = j
      BY <1>0
    <3>3. rank[i] \in Int /\ rank[j] \in Int
      BY <1>3
    <3> QED BY <1>4, <3>2, <3>3
  <2> QED BY <1>3, <2>1 DEF Injection, IsInjective
<1>6. IsFiniteSet(1 .. Cardinality(S)) /\ Cardinality(1 .. Cardinality(S)) = Cardinality(S)
  BY <1>1, FS_Interval
<1>7. rank \in Surjection(S, 1 .. Cardinality(S))
  BY <1>1, <1>5, <1>6, FS_Injection
<1>8. \A k \in 1 .. Cardinality(S) : \E i \in S : rank[i] = k
  BY <1>7 DEF Surjection
<1>9. \A i \in S : rank[i] = Rank(i, S)
  OBVIOUS
<1> HIDE DEF rank
<1> QED BY <1>1, <1>3, <1>4, <1>8, <1>9

\* AddHistory and Publish add to the history exactly what it lacks.
LEMMA UnseenEvents ==
    ASSUME NEW E, history \in Seq(E), NEW events \in Seq(E)
    PROVE  /\ Unseen(events) \in Seq(E)
           /\ ToSet(history \o Unseen(events)) = ToSet(history) \cup ToSet(events)
<1> DEFINE new == {i \in DOMAIN events : events[i] \notin ToSet(history)}
           taken(k) == CHOOSE i \in new : Rank(i, new) = k
<1>1. /\ Cardinality(new) \in Nat /\ \A i \in new : Rank(i, new) \in 1 .. Cardinality(new)
      /\ \A i, j \in new : i < j => Rank(i, new) < Rank(j, new)
      /\ \A k \in 1 .. Cardinality(new) : \E i \in new : Rank(i, new) = k
  <2>1. new \in SUBSET (1 .. Len(events)) /\ Len(events) \in Nat
    OBVIOUS
  <2> HIDE DEF new
  <2> QED BY <2>1, Ranks
<1>2. Unseen(events) = [k \in 1 .. Cardinality(new) |-> events[taken(k)]]
  BY DEF Unseen
<1>3. ASSUME NEW k \in 1 .. Cardinality(new) PROVE taken(k) \in new /\ Rank(taken(k), new) = k
  <2> HIDE DEF new
  <2>1. PICK i \in new : Rank(i, new) = k
    BY <1>1
  <2>2. taken(k) \in new /\ Rank(taken(k), new) = k
    BY <2>1
  <2> QED BY <2>2
<1>4. \A i \in new : i \in DOMAIN events /\ events[i] \notin ToSet(history) /\ events[i] \in E
  OBVIOUS
<1>5. ASSUME NEW i \in new PROVE Rank(i, new) \in 1 .. Cardinality(new) /\ taken(Rank(i, new)) = i
  <2>1. Rank(i, new) \in 1 .. Cardinality(new)
    <3> HIDE DEF new
    <3> QED BY <1>1
  <2>2. taken(Rank(i, new)) \in new /\ Rank(taken(Rank(i, new)), new) = Rank(i, new)
    BY <1>3, <2>1
  <2>3. \A j \in new : j \in Int /\ Rank(j, new) \in Int
    BY <1>1
  <2> HIDE DEF taken, new
  <2>4. ~(i < taken(Rank(i, new))) /\ ~(taken(Rank(i, new)) < i)
    BY <1>1, <2>2, <2>3
  <2> QED BY <2>1, <2>2, <2>3, <2>4
<1> DEFINE u == Unseen(events)
<1> HIDE DEF new, taken
<1>6. u \in Seq(E) /\ Len(u) = Cardinality(new) /\ \A k \in 1 .. Cardinality(new) : u[k] = events[taken(k)]
  <2>1. \A k \in 1 .. Cardinality(new) : events[taken(k)] \in E
    BY <1>3, <1>4
  <2> QED BY <1>1, <1>2, <2>1
<1> HIDE DEF u
<1>7. ToSet(u) = {events[i] : i \in new}
  <2>1. ASSUME NEW x \in ToSet(u) PROVE x \in {events[i] : i \in new}
    <3>1. PICK k \in 1 .. Cardinality(new) : x = u[k]
      BY <1>6 DEF ToSet
    <3> QED BY <1>3, <1>6, <3>1
  <2>2. ASSUME NEW i \in new PROVE events[i] \in ToSet(u)
    <3>1. Rank(i, new) \in DOMAIN u /\ u[Rank(i, new)] = events[i]
      BY <1>5, <1>6
    <3> QED BY <3>1 DEF ToSet
  <2> QED BY <2>1, <2>2
<1>8. ToSet(history \o u) = ToSet(history) \cup ToSet(u)
  BY <1>6, ConcatSet
<1>9. ToSet(events) \subseteq ToSet(history) \cup {events[i] : i \in new}
  BY DEF new, ToSet
<1>10. {events[i] : i \in new} \subseteq ToSet(events)
  BY <1>4 DEF ToSet
<1> QED BY <1>6, <1>7, <1>8, <1>9, <1>10 DEF u

\* The order of the natural numbers, as pairs.
LEMMA Below == \A x \in Nat : \A y \in Nat : y < x => /\ <<y, x>> \in Nat \X Nat /\ <<y, x>>[1] < <<y, x>>[2]
OBVIOUS

\* A set of natural numbers that is not empty has a least element.
LEMMA LeastElement == ASSUME NEW T \in SUBSET Nat, T # {} PROVE \E x \in T : \A y \in T : x <= y
<1> SUFFICES ASSUME \A x \in T : \E y \in T : y < x PROVE FALSE
  OBVIOUS
<1>1. IsWellFoundedOn(OpToRel(<, Nat), Nat)
  BY NatLessThanWellFounded
<1>2. \A x \in Nat : \A y \in Nat : y < x => <<y, x>> \in OpToRel(<, Nat)
  BY Below, Zenon DEF OpToRel
<1>3. PICK x \in T : \A y \in T : ~ (<<y, x>> \in OpToRel(<, Nat))
  BY <1>1, WFMin
<1>4. PICK y \in T : y < x
  BY <1>3
<1> QED BY <1>2, <1>3, <1>4, Zenon

\* The elements after a place in a sequence.
LEMMA SuffixOfSeq ==
    ASSUME NEW E, NEW s \in Seq(E), NEW f \in 1 .. Len(s)
    PROVE  /\ SubSeq(s, f + 1, Len(s)) \in Seq(E)
           /\ Len(SubSeq(s, f + 1, Len(s))) = Len(s) - f
           /\ \A i \in 1 .. Len(s) - f : SubSeq(s, f + 1, Len(s))[i] = s[f + i]
<1>1. Len(s) \in Nat /\ f \in Nat /\ f + 1 \in Int /\ f <= Len(s)
  OBVIOUS
<1>2. \A i \in f + 1 .. Len(s) : s[i] \in E
  BY <1>1
<1> DEFINE r == SubSeq(s, f + 1, Len(s))
<1>3. /\ r \in Seq(E) /\ Len(r) = IF f + 1 <= Len(s) THEN Len(s) - (f + 1) + 1 ELSE 0
      /\ \A i \in 1 .. Len(s) - (f + 1) + 1 : r[i] = s[(f + 1) + i - 1]
  BY <1>1, <1>2, SubSeqProperties
<1> HIDE DEF r
<1>4. Len(s) - (f + 1) + 1 = Len(s) - f
  BY <1>1
<1>5. ~(f + 1 <= Len(s)) => Len(s) - f = 0
  BY <1>1
<1>6. Len(r) = Len(s) - f
  BY <1>3, <1>4, <1>5
<1>7. ASSUME NEW i \in 1 .. Len(s) - f PROVE r[i] = s[f + i]
  <2>1. (f + 1) + i - 1 = f + i
    BY <1>1
  <2> QED BY <1>3, <1>4, <2>1
<1> QED BY <1>3, <1>6, <1>7 DEF r

\* A replay returns events of the stream, and all of them when it does not know
\* the cursor.
LEMMA ReplayedEvents ==
    ASSUME NEW E, NEW events \in Seq(E), NEW since
    PROVE  /\ ReplayAfter(events, since) \in Seq(E)
           /\ ToSet(ReplayAfter(events, since)) \subseteq ToSet(events)
           /\ since \notin ToSet(events) => ReplayAfter(events, since) = events
<1> DEFINE found == {i \in DOMAIN events : events[i] = since}
           first == CHOOSE i \in found : \A j \in found : i <= j
<1>1. Len(events) \in Nat /\ found \in SUBSET (1 .. Len(events)) /\ found \in SUBSET Nat
  OBVIOUS
<1>2. ReplayAfter(events, since) = IF found = {} THEN events ELSE SubSeq(events, first + 1, Len(events))
  BY DEF ReplayAfter
<1>3. since \notin ToSet(events) => found = {}
  BY DEF ToSet
<1>4. CASE found = {}
  BY <1>2, <1>4
<1>5. CASE found # {}
  <2>1. first \in found
    <3> HIDE DEF found
    <3>1. \E i \in found : \A j \in found : i <= j
      BY <1>1, <1>5, LeastElement
    <3> QED BY <3>1
  <2>2. first \in 1 .. Len(events)
    BY <1>1, <2>1
  <2> HIDE DEF first, found
  <2> DEFINE r == SubSeq(events, first + 1, Len(events))
  <2>4. /\ r \in Seq(E) /\ Len(r) = Len(events) - first
        /\ \A i \in 1 .. Len(events) - first : r[i] = events[first + i]
    BY <2>2, SuffixOfSeq
  <2>5. ToSet(r) \subseteq ToSet(events)
    <3>1. \A i \in 1 .. Len(events) - first : first + i \in DOMAIN events
      BY <1>1, <2>2
    <3> HIDE DEF r
    <3>2. DOMAIN r = 1 .. Len(events) - first
      BY <2>4
    <3> QED BY <2>4, <3>1, <3>2 DEF ToSet
  <2> QED BY <1>2, <1>3, <1>5, <2>4, <2>5
<1> QED BY <1>4, <1>5

\* The events of the stream are numbered: a cursor is found at its place.
LEMMA ReplayedPrefix ==
    ASSUME NEW E \in SUBSET Nat, NEW events \in Seq(E), \A i \in DOMAIN events : events[i] = i,
           NEW since \in Nat
    PROVE  LET r == ReplayAfter(events, since)
               a == IF since <= Len(events) THEN since ELSE 0
           IN  /\ r \in Seq(E) /\ Len(r) = Len(events) - a
               /\ \A i \in 1 .. Len(r) : r[i] = a + i
<1> DEFINE found == {i \in DOMAIN events : events[i] = since}
           first == CHOOSE i \in found : \A j \in found : i <= j
           r == ReplayAfter(events, since)
<1>1. Len(events) \in Nat /\ DOMAIN events = 1 .. Len(events)
  OBVIOUS
<1>2. r = IF found = {} THEN events ELSE SubSeq(events, first + 1, Len(events))
  BY DEF ReplayAfter
<1>3. CASE since \in 1 .. Len(events)
  <2>1. found = {since}
    BY <1>1, <1>3
  <2>2. first = since
    <3> HIDE DEF found
    <3> QED BY <1>3, <2>1
  <2>3. r = SubSeq(events, since + 1, Len(events))
    <3> HIDE DEF first, found
    <3> QED BY <1>2, <2>1, <2>2
  <2> HIDE DEF first, found, r
  <2>4. /\ r \in Seq(E) /\ Len(r) = Len(events) - since
        /\ \A i \in 1 .. Len(events) - since : r[i] = events[since + i]
    BY <1>3, <2>3, SuffixOfSeq
  <2>5. ASSUME NEW i \in 1 .. Len(events) - since PROVE r[i] = since + i
    <3>1. since + i \in 1 .. Len(events)
      BY <1>1, <1>3
    <3> QED BY <1>1, <2>4, <3>1
  <2>6. since <= Len(events)
    BY <1>1, <1>3
  <2> QED BY <2>4, <2>5, <2>6 DEF r
<1>4. CASE since \notin 1 .. Len(events)
  <2>1. found = {}
    BY <1>1, <1>4
  <2>2. r = events
    <3> HIDE DEF first, found
    <3> QED BY <1>2, <2>1
  <2>3. (IF since <= Len(events) THEN since ELSE 0) = 0
    BY <1>1, <1>4
  <2>4. /\ r \in Seq(E) /\ Len(r) = Len(events) - 0
        /\ \A i \in 1 .. Len(r) : r[i] = 0 + i
    <3> HIDE DEF r
    <3> QED BY <1>1, <2>2
  <2> HIDE DEF r
  <2> QED BY <2>3, <2>4 DEF r
<1> QED BY <1>3, <1>4

\* A stretch of the stream that starts inside a history in stream order keeps the
\* history in stream order, and the history reaches the end of the stretch.
LEMMA UnseenOfPrefix ==
    ASSUME history \in Seq(Nat), \A i \in DOMAIN history : history[i] = i,
           NEW events \in Seq(Nat), NEW a \in Nat, a <= Len(history),
           \A i \in DOMAIN events : events[i] = a + i
    PROVE  LET h == history \o Unseen(events)
           IN  /\ \A i \in DOMAIN h : h[i] = i
               /\ Len(h) \in Nat /\ Len(history) <= Len(h) /\ a + Len(events) <= Len(h)
<1> DEFINE new == {i \in DOMAIN events : events[i] \notin ToSet(history)}
           taken(k) == CHOOSE i \in new : Rank(i, new) = k
           d == Len(history) - a
           m == Len(events)
           c == IF m <= d THEN 0 ELSE m - d
<1>1. /\ Len(history) \in Nat /\ m \in Nat /\ d \in Nat /\ c \in Nat
      /\ DOMAIN events = 1 .. m /\ DOMAIN history = 1 .. Len(history)
  OBVIOUS
<1>2. ToSet(history) = 1 .. Len(history)
  BY <1>1 DEF ToSet
<1>3. new = d + 1 .. m
  BY <1>1, <1>2
<1>4. Cardinality(new) = c
  <2>1. Cardinality(d + 1 .. m) = IF d + 1 > m THEN 0 ELSE m - (d + 1) + 1
    <3>1. d + 1 \in Int /\ m \in Int
      BY <1>1
    <3> HIDE DEF d, m
    <3> QED BY <3>1, FS_Interval
  <2> HIDE DEF new, d, m
  <2> QED BY <1>1, <1>3, <2>1
<1>5. Unseen(events) = [k \in 1 .. c |-> events[taken(k)]]
  <2>1. Unseen(events) = [k \in 1 .. Cardinality(new) |-> events[taken(k)]]
    BY DEF Unseen
  <2> HIDE DEF new, taken, c
  <2> QED BY <1>4, <2>1
<1> HIDE DEF new, taken, d, m, c
<1>6. ASSUME NEW i \in new PROVE Rank(i, new) = i - d
  <2>1. {j \in new : j <= i} = d + 1 .. i /\ i \in Int /\ d + 1 <= i
    BY <1>1, <1>3
  <2>2. Cardinality(d + 1 .. i) = IF d + 1 > i THEN 0 ELSE i - (d + 1) + 1
    BY <1>1, <2>1, FS_Interval
  <2>3. Cardinality(d + 1 .. i) = i - d
    BY <1>1, <2>1, <2>2
  <2> QED BY <2>1, <2>3 DEF Rank
<1>7. ASSUME NEW k \in 1 .. c PROVE taken(k) = d + k
  <2>1. d + k \in new /\ (d + k) - d = k
    BY <1>1, <1>3 DEF c
  <2>2. Rank(d + k, new) = k
    BY <1>6, <2>1
  <2>3. taken(k) \in new /\ Rank(taken(k), new) = k
    BY <2>1, <2>2 DEF taken
  <2>4. taken(k) - d = k /\ taken(k) \in Int
    BY <1>1, <1>3, <1>6, <2>3
  <2> QED BY <1>1, <2>4
<1> DEFINE u == Unseen(events)
<1>8. \A k \in 1 .. c : u[k] = Len(history) + k /\ u[k] \in Nat
  <2>1. ASSUME NEW k \in 1 .. c PROVE u[k] = Len(history) + k
    <3>1. u[k] = events[d + k] /\ d + k \in 1 .. m
      BY <1>1, <1>5, <1>7 DEF c
    <3>2. events[d + k] = a + (d + k)
      BY <1>1, <3>1
    <3> QED BY <1>1, <3>1, <3>2 DEF d
  <2> QED BY <1>1, <2>1
<1>9. u \in Seq(Nat) /\ Len(u) = c
  BY <1>1, <1>5, <1>8
<1> HIDE DEF u
<1> DEFINE h == history \o u
<1>10. /\ Len(h) = Len(history) + c /\ DOMAIN h = 1 .. Len(history) + c
       /\ \A i \in 1 .. Len(history) : h[i] = history[i]
       /\ \A i \in 1 .. c : h[Len(history) + i] = u[i]
  <2>1. history \in Seq(Nat) /\ u \in Seq(Nat)
    BY <1>9
  <2>2. /\ Len(h) = Len(history) + c /\ h \in Seq(Nat)
        /\ \A i \in 1 .. Len(history) + c : h[i] = IF i <= Len(history) THEN history[i] ELSE u[i - Len(history)]
    BY <1>9, <2>1, ConcatProperties
  <2>3. /\ \A i \in 1 .. Len(history) : i \in 1 .. Len(history) + c /\ i <= Len(history)
        /\ \A i \in 1 .. c : /\ Len(history) + i \in 1 .. Len(history) + c
                            /\ ~(Len(history) + i <= Len(history)) /\ (Len(history) + i) - Len(history) = i
    BY <1>1
  <2> HIDE DEF h
  <2> QED BY <2>2, <2>3
<1>11. ASSUME NEW i \in 1 .. Len(history) + c PROVE h[i] = i
  <2>1. CASE i \in 1 .. Len(history)
    BY <1>1, <1>10, <2>1
  <2>2. CASE i \notin 1 .. Len(history)
    <3>1. i - Len(history) \in 1 .. c /\ Len(history) + (i - Len(history)) = i
      BY <1>1, <2>2
    <3>2. h[Len(history) + (i - Len(history))] = u[i - Len(history)]
      BY <1>10, <3>1
    <3>3. u[i - Len(history)] = Len(history) + (i - Len(history))
      BY <1>8, <3>1
    <3> QED BY <3>1, <3>2, <3>3
  <2> QED BY <2>1, <2>2
<1> HIDE DEF h
<1>12. a + m <= Len(history) + c
  BY <1>1 DEF c, d
<1>13. /\ \A i \in DOMAIN h : h[i] = i
       /\ Len(h) \in Nat /\ Len(history) <= Len(h) /\ a + m <= Len(h)
  BY <1>1, <1>10, <1>11, <1>12
<1> QED BY <1>13 DEF h, u, m

-----------------------------------------------------------------------------
(* The order in which events come to a client.                             *)


\* The elements of a queue before place j, and the order of a queue: every event in it has its past before it,
\* in the queue or in the base.
Before(q, j) == {q[i] : i \in 1 .. j - 1}
InOrder(q, base) == \A j \in 1 .. Len(q) : 1 .. q[j] - 1 \subseteq base \cup Before(q, j)

\* Knowing more before a queue keeps it in order.
LEMMA OrderWidens ==
    ASSUME NEW q, NEW base, NEW wider, InOrder(q, base), base \subseteq wider
    PROVE  InOrder(q, wider)
BY DEF InOrder

\* An empty queue is in order.
LEMMA OrderEmpty == ASSUME NEW base PROVE InOrder(<<>>, base)
BY DEF InOrder

\* An event whose past is known or queued goes to the end of the queue.
LEMMA OrderAppend ==
    ASSUME NEW q \in Seq(Nat), NEW base, NEW e \in Nat, InOrder(q, base), 1 .. e - 1 \subseteq base \cup ToSet(q)
    PROVE  InOrder(Append(q, e), base)
<1> DEFINE r == Append(q, e)
<1>1. /\ Len(r) = Len(q) + 1 /\ r[Len(q) + 1] = e /\ Len(q) \in Nat
      /\ \A i \in 1 .. Len(q) : r[i] = q[i]
  BY AppendSet
<1>2. ToSet(q) = {q[i] : i \in 1 .. Len(q)}
  BY DEF ToSet
<1> HIDE DEF r
<1>3. SUFFICES ASSUME NEW j \in 1 .. Len(q) + 1 PROVE 1 .. r[j] - 1 \subseteq base \cup Before(r, j)
  BY <1>1 DEF InOrder, r
<1>4. CASE j \in 1 .. Len(q)
  <2>1. r[j] = q[j] /\ \A i \in 1 .. j - 1 : r[i] = q[i]
    BY <1>1, <1>4
  <2>2. Before(r, j) = Before(q, j)
    BY <2>1 DEF Before
  <2> QED BY <1>4, <2>1, <2>2 DEF InOrder
<1>5. CASE j = Len(q) + 1
  <2>1. j - 1 = Len(q) /\ r[j] = e
    BY <1>1, <1>5
  <2>2. Before(r, j) = ToSet(q)
    BY <1>1, <1>2, <2>1 DEF Before
  <2> QED BY <2>1, <2>2
<1> QED BY <1>1, <1>4, <1>5

\* The head of a queue has its past in the base; the rest is in order after it.
LEMMA OrderTail ==
    ASSUME NEW q \in Seq(Nat), NEW base, InOrder(q, base), q # <<>>
    PROVE  1 .. Head(q) - 1 \subseteq base /\ InOrder(Tail(q), base \cup {Head(q)})
<1> DEFINE r == Tail(q)
<1>1. /\ Head(q) = q[1] /\ Len(r) = Len(q) - 1 /\ Len(q) \in Nat \ {0} /\ r \in Seq(Nat)
      /\ \A i \in 1 .. Len(r) : r[i] = q[i + 1] /\ i + 1 \in 1 .. Len(q)
  BY TailSet
<1> HIDE DEF r
<1>2. 1 .. Head(q) - 1 \subseteq base
  <2>1. Before(q, 1) = {} /\ 1 \in 1 .. Len(q)
    BY <1>1 DEF Before
  <2> QED BY <1>1, <2>1 DEF InOrder
<1>3. ASSUME NEW j \in 1 .. Len(r) PROVE 1 .. r[j] - 1 \subseteq base \cup {Head(q)} \cup Before(r, j)
  <2>1. 1 .. r[j] - 1 \subseteq base \cup Before(q, j + 1)
    BY <1>1, <1>3 DEF InOrder
  <2>2. ASSUME NEW x \in Before(q, j + 1) PROVE x \in {Head(q)} \cup Before(r, j)
    <3>1. PICK i \in 1 .. j : x = q[i]
      BY <1>1, <1>3 DEF Before
    <3>2. CASE i = 1
      BY <1>1, <3>1, <3>2
    <3>3. CASE i # 1
      <4>1. i - 1 \in 1 .. j - 1 /\ i - 1 \in 1 .. Len(r) /\ (i - 1) + 1 = i
        BY <1>1, <1>3, <3>3
      <4>2. r[i - 1] = q[(i - 1) + 1]
        BY <1>1, <4>1
      <4>3. r[i - 1] = x
        BY <3>1, <4>1, <4>2
      <4> QED BY <4>1, <4>3 DEF Before
    <3> QED BY <3>2, <3>3
  <2> QED BY <2>1, <2>2
<1> QED BY <1>2, <1>3 DEF InOrder, r

\* A stretch of the stream whose past is known is in order.
LEMMA OrderRun ==
    ASSUME NEW q \in Seq(Nat), NEW base, NEW a \in Nat, \A i \in 1 .. Len(q) : q[i] = a + i, 1 .. a \subseteq base
    PROVE  InOrder(q, base) /\ \A e \in 1 .. a + Len(q) : e \in base \cup ToSet(q)
<1>1. Len(q) \in Nat
  OBVIOUS
<1>2. ASSUME NEW j \in 1 .. Len(q), NEW e \in 1 .. q[j] - 1 PROVE e \in base \cup Before(q, j)
  <2>1. CASE e <= a
    BY <1>1, <1>2, <2>1
  <2>2. CASE ~(e <= a)
    <3>1. e - a \in 1 .. j - 1 /\ e - a \in 1 .. Len(q) /\ a + (e - a) = e
      BY <1>1, <1>2, <2>2
    <3>2. q[e - a] = e
      BY <3>1
    <3> QED BY <3>1, <3>2 DEF Before
  <2> QED BY <2>1, <2>2
<1>3. ASSUME NEW e \in 1 .. a + Len(q) PROVE e \in base \cup ToSet(q)
  <2>1. CASE e <= a
    BY <1>1, <1>3, <2>1
  <2>2. CASE ~(e <= a)
    <3>1. e - a \in 1 .. Len(q) /\ a + (e - a) = e
      BY <1>1, <1>3, <2>2
    <3>2. q[e - a] = e
      BY <3>1
    <3> QED BY <3>1, <3>2 DEF ToSet
  <2> QED BY <2>1, <2>2
<1> QED BY <1>2, <1>3 DEF InOrder

-----------------------------------------------------------------------------
(* The invariant.                                                          *)

\* Nothing is anywhere before it is published.
Known ==
    /\ ToSet(history) \subseteq 1 .. published
    /\ \A s \in Sessions :
        ToSet(session[s].replayed) \cup ToSet(session[s].channel) \cup ToSet(session[s].wire) \subseteq 1 .. published
    /\ \A c \in Clients : got[c] \subseteq 1 .. published

\* Only an open session has a channel; a client's session is alive and its own.
Sockets ==
    /\ \A s \in Sessions : ~At(s, "open") => session[s].channel = <<>> /\ session[s].wire = <<>>
    /\ \A c \in Clients : socket[c] # NoSession => session[socket[c]].live /\ ~At(socket[c], "free")
    /\ \A c, d \in Clients : socket[c] # NoSession /\ socket[c] = socket[d] => c = d

\* What a client has received or lost, and what is on its way in a session.
Delivered(c) == got[c] \cup dropped[c]
Coming(s) == ToSet(session[s].wire) \cup ToSet(session[s].channel)

\* What a session without a cursor has of the pushed events, at each stage.
Complete(c, s) ==
    /\ At(s, "add") => 1 .. sent \subseteq ToSet(history) \cup ToSet(session[s].replayed)
    /\ At(s, "subscribe") => 1 .. sent \subseteq ToSet(history)
    /\ At(s, "open") => 1 .. sent \subseteq Delivered(c) \cup Coming(s)

FreshComplete ==
    \A c \in Clients :
        socket[c] # NoSession /\ session[socket[c]].since = 0 /\ ~session[socket[c]].cut => Complete(c, socket[c])

\* The history is a prefix of the stream that covers the pushed events, the cursors
\* and what is on its way, and a replay that waits to enter it fits.
InStreamOrder ==
    /\ \A i \in DOMAIN history : history[i] = i
    /\ sent <= Len(history)
    /\ \A s \in Sessions :
        /\ session[s].since <= Len(history)
        /\ Coming(s) \subseteq 1 .. Len(history)
        /\ At(s, "add") =>
            \E a \in 0 .. Len(history) : \A i \in DOMAIN session[s].replayed : session[s].replayed[i] = a + i
    /\ \A c \in Clients : cursor[c] <= Len(history)

\* What a client's session owes to its cursor.
Vouched(c, s) ==
    /\ s # NoSession /\ ~At(s, "open") => 1 .. session[s].since \subseteq Delivered(c)
    /\ s # NoSession /\ At(s, "open") =>
        /\ 1 .. sent \subseteq Delivered(c) \cup Coming(s)
        /\ InOrder(session[s].wire, Delivered(c))
        /\ InOrder(session[s].channel, Delivered(c) \cup ToSet(session[s].wire))

AllVouched == \A c \in Clients : 1 .. cursor[c] \subseteq Delivered(c) /\ Vouched(c, socket[c])

\* The inductive invariant.
HubInv ==
    /\ TypeOK /\ Known /\ Sockets /\ FreshComplete
    /\ restarts = 0 => InStreamOrder /\ AllVouched

-----------------------------------------------------------------------------
\* The elements of a sequence over E are in E.
LEMMA SeqSet == ASSUME NEW E, NEW q \in Seq(E) PROVE ToSet(q) \subseteq E
<1>1. \A i \in 1 .. Len(q) : q[i] \in E
  BY ElementOfSeq
<1> QED BY <1>1 DEF ToSet

\* Events are numbers.
LEMMA EventsAreNumbers == ASSUME NEW q \in Seq(Events) PROVE q \in Seq(Nat)
<1>1. Events \subseteq Nat
  BY DEF Events
<1> QED BY <1>1, SeqMonotonic

\* No session has the number that stands for none.
LEMMA SessionNumbers == \A s \in Sessions : s # NoSession
BY HubAssumption DEF Sessions, NoSession

\* Events are positive numbers.
LEMMA EventNumbers == Events \in SUBSET Nat /\ 0 \notin Events
BY HubAssumption DEF Events

\* The invariant holds before anything is published.
LEMMA HubStarts == Init => HubInv
<1> SUFFICES ASSUME Init PROVE HubInv
  OBVIOUS
<1>1. FreeSession \in Session
  BY HubAssumption DEF FreeSession, Session
<1>2. TypeOK
  BY <1>1, HubAssumption DEF Init, TypeOK, FreeSession
<1>3. Known /\ Sockets /\ FreshComplete
  BY DEF Init, Known, Sockets, FreshComplete, FreeSession, ToSet, At
<1>4. InStreamOrder /\ AllVouched
  BY DEF Init, InStreamOrder, AllVouched, Vouched, Coming, FreeSession, ToSet, At
<1> QED BY <1>2, <1>3, <1>4 DEF HubInv

\* The other sessions stay as they are.
Elsewhere(s) == \A t \in Sessions \ {s} : session'[t] = session[t]

\* A step of the handler of session s that leaves the stream, the history and the
\* clients alone.
LEMMA HandlerStep ==
    ASSUME HubInv, NEW s \in Sessions, session' \in [Sessions -> Session], Elsewhere(s),
           UNCHANGED <<published, sent, unacked, history, socket, cursor, got, dropped, breaks, lostAcks, restarts>>,
           Len(session'[s].channel) <= session'[s].cap,
           ToSet(session'[s].replayed) \cup ToSet(session'[s].channel) \cup ToSet(session'[s].wire) \subseteq 1 .. published,
           session'[s].at # "open" => session'[s].channel = <<>> /\ session'[s].wire = <<>>,
           \/ session'[s].live = session[s].live /\ session'[s].at # "free"
           \/ ~session[s].live,
           \A c \in Clients :
               socket[c] = s /\ session'[s].since = 0 /\ ~session'[s].cut => Complete(c, s)',
           restarts = 0 =>
               /\ session'[s].since <= Len(history)
               /\ ToSet(session'[s].wire) \cup ToSet(session'[s].channel) \subseteq 1 .. Len(history)
               /\ session'[s].at = "add" =>
                   \E a \in 0 .. Len(history) : \A i \in DOMAIN session'[s].replayed : session'[s].replayed[i] = a + i,
           \A c \in Clients : restarts = 0 /\ socket[c] = s => Vouched(c, s)'
    PROVE  HubInv'
<1>0. \A c \in Clients : socket[c] # NoSession => socket[c] \in Sessions
  BY DEF HubInv, TypeOK
<1>1. TypeOK'
  BY DEF HubInv, TypeOK, Elsewhere
<1>2. Known'
  BY DEF HubInv, Known, Elsewhere
<1>3. Sockets'
  <2>1. \A t \in Sessions : ~At(t, "open")' => session'[t].channel = <<>> /\ session'[t].wire = <<>>
    BY DEF HubInv, Sockets, Elsewhere, At
  <2>2. \A c \in Clients : socket[c] # NoSession => session'[socket[c]].live /\ session'[socket[c]].at # "free"
    BY <1>0 DEF HubInv, Sockets, Elsewhere, At
  <2> QED BY <2>1, <2>2 DEF HubInv, Sockets, At
<1>4. FreshComplete'
  <2>1. ASSUME NEW c \in Clients, socket[c] # NoSession, session'[socket[c]].since = 0, ~session'[socket[c]].cut
        PROVE  Complete(c, socket[c])'
    <3>1. CASE socket[c] = s
      BY <2>1, <3>1 DEF Complete, At, Delivered, Coming
    <3>2. CASE socket[c] # s
      <4>1. session'[socket[c]] = session[socket[c]]
        BY <1>0, <2>1, <3>2 DEF Elsewhere
      <4>2. Complete(c, socket[c])
        BY <2>1, <4>1 DEF HubInv, FreshComplete
      <4> QED BY <4>1, <4>2 DEF Complete, At, Delivered, Coming
    <3> QED BY <3>1, <3>2
  <2> QED BY <2>1 DEF FreshComplete
<1>5. ASSUME restarts = 0 PROVE InStreamOrder' /\ AllVouched'
  <2>1. InStreamOrder'
    <3>1. ASSUME NEW t \in Sessions
          PROVE  /\ session'[t].since <= Len(history)
                 /\ ToSet(session'[t].wire) \cup ToSet(session'[t].channel) \subseteq 1 .. Len(history)
                 /\ session'[t].at = "add" =>
                     \E a \in 0 .. Len(history) : \A i \in DOMAIN session'[t].replayed : session'[t].replayed[i] = a + i
      <4>1. CASE t = s
        BY <1>5, <4>1
      <4>2. CASE t # s
        BY <1>5, <4>2 DEF HubInv, InStreamOrder, Elsewhere, At, Coming
      <4> QED BY <4>1, <4>2
    <3> QED BY <1>5, <3>1 DEF HubInv, InStreamOrder, At, Coming
  <2>2. ASSUME NEW c \in Clients PROVE Vouched(c, socket[c])'
    <3>1. CASE socket[c] = s
      BY <1>5, <3>1 DEF Vouched, At, Delivered, Coming
    <3>2. CASE socket[c] # s /\ socket[c] # NoSession
      <4>1. session'[socket[c]] = session[socket[c]]
        BY <1>0, <3>2 DEF Elsewhere
      <4>2. Vouched(c, socket[c])
        BY <1>5 DEF HubInv, AllVouched
      <4> QED BY <4>1, <4>2 DEF Vouched, At, Delivered, Coming
    <3>3. CASE socket[c] = NoSession
      BY <3>3 DEF Vouched
    <3> QED BY <3>1, <3>2, <3>3
  <2> QED BY <1>5, <2>1, <2>2 DEF HubInv, AllVouched, Delivered
<1> QED BY <1>1, <1>2, <1>3, <1>4, <1>5 DEF HubInv

\* The scan of the stream returns a stretch that starts at the cursor, and the whole
\* stream to a session without one.
LEMMA ReplayKeeps == ASSUME HubInv, NEW s \in Sessions, Replay(s) PROVE HubInv'
<1>1. PICK k \in 0 .. published :
        session' = [session EXCEPT ![s].at = "add",
                       ![s].replayed = ReplayAfter([i \in 1 .. k |-> i], session[s].since),
                       ![s].cut = (k < published)]
  BY DEF Replay
<1> DEFINE stream == [i \in 1 .. k |-> i]
           r == ReplayAfter(stream, session[s].since)
<1>2. /\ published \in 0 .. MaxEvents /\ MaxEvents \in Nat /\ sent \in 0 .. published /\ session[s] \in Session
      /\ session \in [Sessions -> Session]
  BY HubAssumption DEF HubInv, TypeOK
<1>3. /\ stream \in Seq(1 .. published) /\ Len(stream) = k /\ 1 .. published \in SUBSET Nat
      /\ \A i \in DOMAIN stream : stream[i] = i
  BY <1>2
<1>4. session[s].since \in Nat
  BY <1>2 DEF Session
<1> HIDE DEF stream
<1>5. /\ r \in Seq(1 .. published)
      /\ \E a \in 0 .. session[s].since : Len(r) = k - a /\ \A i \in 1 .. Len(r) : r[i] = a + i
      /\ session[s].since = 0 => Len(r) = k /\ \A i \in 1 .. Len(r) : r[i] = i
  <2> DEFINE a == IF session[s].since <= k THEN session[s].since ELSE 0
  <2>1. r \in Seq(1 .. published) /\ Len(r) = k - a /\ \A i \in 1 .. Len(r) : r[i] = a + i
    BY <1>3, <1>4, ReplayedPrefix
  <2>2. a \in 0 .. session[s].since /\ (session[s].since = 0 => a = 0)
    BY <1>4
  <2> HIDE DEF r, a
  <2>3. session[s].since = 0 => Len(r) = k /\ \A i \in 1 .. Len(r) : r[i] = i
    BY <2>1, <2>2
  <2> QED BY <2>1, <2>2, <2>3
<1> HIDE DEF r
<1>6. r \in Seq(Events) /\ ToSet(r) \subseteq 1 .. published
  <2>1. 1 .. published \subseteq Events
    BY <1>2 DEF Events
  <2>2. r \in Seq(Events)
    BY <1>5, <2>1, SeqMonotonic
  <2>3. \A i \in 1 .. Len(r) : r[i] \in 1 .. published
    BY <1>5, ElementOfSeq
  <2>4. DOMAIN r = 1 .. Len(r)
    BY <1>5
  <2> QED BY <2>2, <2>3, <2>4 DEF ToSet
<1>7. /\ session' \in [Sessions -> Session] /\ Elsewhere(s)
      /\ session'[s].at = "add" /\ session'[s].replayed = r /\ session'[s].cut = (k < published)
      /\ session'[s].since = session[s].since /\ session'[s].channel = session[s].channel
      /\ session'[s].cap = session[s].cap /\ session'[s].wire = session[s].wire /\ session'[s].live = session[s].live
  <2>1. session' = [session EXCEPT ![s].at = "add", ![s].replayed = r, ![s].cut = (k < published)]
    BY <1>1 DEF r, stream
  <2> DEFINE short == k < published
  <2>2. short \in BOOLEAN
    OBVIOUS
  <2> HIDE DEF short
  <2>3. [session[s] EXCEPT !.at = "add", !.replayed = r, !.cut = short] \in Session
    BY <1>2, <1>6, <2>2 DEF Session
  <2>4. session' = [session EXCEPT ![s].at = "add", ![s].replayed = r, ![s].cut = short]
    BY <2>1 DEF short
  <2>5. /\ session' \in [Sessions -> Session] /\ Elsewhere(s)
        /\ session'[s].at = "add" /\ session'[s].replayed = r /\ session'[s].cut = short
        /\ session'[s].since = session[s].since /\ session'[s].channel = session[s].channel
        /\ session'[s].cap = session[s].cap /\ session'[s].wire = session[s].wire /\ session'[s].live = session[s].live
    BY <1>2, <2>3, <2>4 DEF Elsewhere, Session
  <2> QED BY <2>5 DEF short
<1>8. session[s].at = "replay" /\ session[s].channel = <<>> /\ session[s].wire = <<>>
  BY DEF HubInv, Sockets, Replay, At
<1>9. ToSet(<<>>) = {}
  BY DEF ToSet
<1>10. UNCHANGED <<published, sent, unacked, history, socket, cursor, got, dropped, breaks, lostAcks, restarts>>
  BY DEF Replay, streamVars, clientVars
<1>11. ASSUME session'[s].since = 0, ~session'[s].cut, NEW c \in Clients PROVE Complete(c, s)'
  <2>1. ~(k < published)
    BY <1>7, <1>11
  <2>2. k = published /\ k \in Nat
    BY <1>2, <2>1
  <2>3. 1 .. sent \subseteq ToSet(r)
    <3>1. Len(r) = k /\ \A i \in 1 .. Len(r) : r[i] = i
      BY <1>5, <1>7, <1>11
    <3>2. \A i \in 1 .. sent : i \in DOMAIN r /\ r[i] = i
      BY <1>2, <1>5, <2>2, <3>1
    <3> QED BY <3>2 DEF ToSet
  <2> QED BY <1>7, <1>10, <2>3 DEF Complete, At
<1>12. ASSUME restarts = 0
       PROVE  /\ session'[s].since <= Len(history)
              /\ session'[s].at = "add" =>
                   \E a \in 0 .. Len(history) : \A i \in DOMAIN session'[s].replayed : session'[s].replayed[i] = a + i
  <2>1. session[s].since <= Len(history) /\ Len(history) \in Nat
    BY <1>12 DEF HubInv, InStreamOrder, TypeOK
  <2>2. PICK a \in 0 .. session[s].since : \A i \in 1 .. Len(r) : r[i] = a + i
    BY <1>5
  <2>3. a \in 0 .. Len(history) /\ DOMAIN r = 1 .. Len(r)
    BY <1>4, <1>5, <2>1
  <2> QED BY <1>7, <2>1, <2>2, <2>3
<1>13. ASSUME restarts = 0, NEW c \in Clients, socket[c] = s PROVE Vouched(c, s)'
  <2>1. Vouched(c, s)
    BY <1>13 DEF HubInv, AllVouched
  <2> QED BY <1>7, <1>8, <1>10, <2>1 DEF Vouched, At, Delivered
<1>14. Len(session'[s].channel) <= session'[s].cap
  BY <1>7 DEF HubInv, TypeOK
<1>15. ToSet(session'[s].replayed) \cup ToSet(session'[s].channel) \cup ToSet(session'[s].wire) \subseteq 1 .. published
  BY <1>6, <1>7, <1>8, <1>9
<1>16. ToSet(session'[s].wire) \cup ToSet(session'[s].channel) \subseteq 1 .. Len(history)
  BY <1>7, <1>8, <1>9
<1> QED BY <1>7, <1>8, <1>10, <1>11, <1>12, <1>13, <1>14, <1>15, <1>16, HandlerStep

\* The backlog of a new subscriber continues where its cursor stands.
LEMMA SubscribeKeeps == ASSUME HubInv, NEW s \in Sessions, SubscribeSince(s) PROVE HubInv'
<1> DEFINE backlog == ReplayAfter(history, session[s].since)
<1>1. /\ At(s, "subscribe")
      /\ session' = [session EXCEPT ![s].at = "open", ![s].channel = backlog, ![s].cap = Len(backlog) + Slack]
      /\ UNCHANGED <<published, sent, unacked, history, socket, cursor, got, dropped, breaks, lostAcks, restarts>>
  BY DEF SubscribeSince, streamVars, clientVars
<1>2. /\ session \in [Sessions -> Session] /\ session[s] \in Session /\ history \in Seq(Events)
      /\ session[s].since \in Nat /\ Slack \in Nat /\ Len(history) \in Nat /\ sent \in Nat
  BY HubAssumption DEF HubInv, TypeOK, Session
<1>3. /\ backlog \in Seq(Events) /\ ToSet(backlog) \subseteq ToSet(history)
      /\ session[s].since \notin ToSet(history) => backlog = history
  BY <1>2, ReplayedEvents
<1>4. restarts = 0 =>
        /\ session[s].since <= Len(history)
        /\ Len(backlog) = Len(history) - session[s].since
        /\ \A i \in 1 .. Len(backlog) : backlog[i] = session[s].since + i
  <2>1. restarts = 0 => session[s].since <= Len(history) /\ \A i \in DOMAIN history : history[i] = i
    BY DEF HubInv, InStreamOrder
  <2>2. Events \in SUBSET Nat
    BY DEF Events
  <2> QED BY <1>2, <2>1, <2>2, ReplayedPrefix
<1> HIDE DEF backlog
<1>5. Len(backlog) \in Nat
  BY <1>3
<1>6. [session[s] EXCEPT !.at = "open", !.channel = backlog, !.cap = Len(backlog) + Slack] \in Session
  <2> DEFINE room == Len(backlog) + Slack
  <2>1. room \in Nat
    BY <1>2, <1>5
  <2> HIDE DEF room
  <2>2. [session[s] EXCEPT !.at = "open", !.channel = backlog, !.cap = room] \in Session
    BY <1>2, <1>3, <2>1 DEF Session
  <2> QED BY <2>2 DEF room
<1>7. /\ session' \in [Sessions -> Session] /\ Elsewhere(s)
      /\ session'[s].at = "open" /\ session'[s].channel = backlog /\ session'[s].cap = Len(backlog) + Slack
      /\ session'[s].since = session[s].since /\ session'[s].replayed = session[s].replayed
      /\ session'[s].cut = session[s].cut /\ session'[s].wire = session[s].wire /\ session'[s].live = session[s].live
  BY <1>1, <1>2, <1>6 DEF Elsewhere
<1>8. session[s].wire = <<>> /\ ToSet(<<>>) = {}
  BY <1>1 DEF HubInv, Sockets, At, ToSet
<1>9. ToSet(backlog) \subseteq 1 .. published /\ ToSet(session[s].replayed) \subseteq 1 .. published
  BY <1>3 DEF HubInv, Known
<1>10. Len(session'[s].channel) <= session'[s].cap
  BY <1>2, <1>5, <1>7
<1>11. ASSUME NEW c \in Clients, socket[c] = s, session'[s].since = 0, ~session'[s].cut PROVE Complete(c, s)'
  <2>1. Complete(c, s)
    BY <1>7, <1>11, SessionNumbers DEF HubInv, FreshComplete
  <2>2. session[s].since \notin ToSet(history)
    <3>1. ToSet(history) \subseteq Events
      BY <1>2, SeqSet
    <3>2. session[s].since = 0
      BY <1>7, <1>11
    <3> QED BY <3>1, <3>2, EventNumbers
  <2>3. 1 .. sent \subseteq ToSet(backlog)
    BY <1>1, <1>3, <2>1, <2>2 DEF Complete, At
  <2> QED BY <1>1, <1>7, <2>3 DEF Complete, At, Coming
<1>12. ASSUME restarts = 0
       PROVE  session'[s].since <= Len(history) /\ ToSet(session'[s].wire) \cup ToSet(session'[s].channel) \subseteq 1 .. Len(history)
  <2>1. ToSet(history) \subseteq 1 .. Len(history)
    BY <1>2, <1>12 DEF HubInv, InStreamOrder, ToSet
  <2> QED BY <1>3, <1>4, <1>7, <1>8, <1>12, <2>1
<1>13. ASSUME restarts = 0, NEW c \in Clients, socket[c] = s PROVE Vouched(c, s)'
  <2>1. Vouched(c, s) /\ s # NoSession
    BY <1>13, SessionNumbers DEF HubInv, AllVouched
  <2>2. 1 .. session[s].since \subseteq Delivered(c)
    BY <1>1, <2>1 DEF Vouched, At
  <2>3. backlog \in Seq(Nat)
    BY <1>3, EventsAreNumbers
  <2>4. InOrder(backlog, Delivered(c)) /\ \A e \in 1 .. session[s].since + Len(backlog) : e \in Delivered(c) \cup ToSet(backlog)
    BY <1>2, <1>4, <1>13, <2>2, <2>3, OrderRun
  <2>5. 1 .. sent \subseteq Delivered(c) \cup ToSet(backlog)
    <3>1. sent <= Len(history)
      BY <1>13 DEF HubInv, InStreamOrder
    <3>2. session[s].since + Len(backlog) = Len(history)
      BY <1>2, <1>4, <1>5, <1>13
    <3>3. \A e \in 1 .. sent : e \in 1 .. Len(history)
      BY <1>2, <3>1
    <3> QED BY <2>4, <3>2, <3>3
  <2>6. InOrder(<<>>, Delivered(c)) /\ Delivered(c) \cup ToSet(<<>>) = Delivered(c)
    BY <1>8, OrderEmpty
  <2>7. Delivered(c)' = Delivered(c) /\ sent' = sent /\ session'[s].wire = <<>>
    BY <1>1, <1>7, <1>8 DEF Delivered
  <2> QED BY <1>7, <2>4, <2>5, <2>6, <2>7 DEF Vouched, At, Coming
<1>14. ToSet(session'[s].replayed) \cup ToSet(session'[s].channel) \cup ToSet(session'[s].wire) \subseteq 1 .. published
  BY <1>7, <1>8, <1>9
<1> QED BY <1>1, <1>7, <1>10, <1>11, <1>12, <1>13, <1>14, HandlerStep

\* A frame moves from the channel to the wire and keeps its place.
LEMMA WriteKeeps == ASSUME HubInv, NEW s \in Sessions, Write(s) PROVE HubInv'
<1> DEFINE q == session[s].channel
           w == session[s].wire
           e == Head(session[s].channel)
<1>1. /\ At(s, "open") /\ session[s].live /\ q # <<>>
      /\ session' = [session EXCEPT ![s].channel = Tail(q), ![s].wire = Append(w, e)]
      /\ UNCHANGED <<published, sent, unacked, history, socket, cursor, got, dropped, breaks, lostAcks, restarts>>
  BY DEF Write, streamVars, clientVars
<1>2. /\ session \in [Sessions -> Session] /\ session[s] \in Session /\ q \in Seq(Events) /\ w \in Seq(Events)
      /\ Len(q) <= session[s].cap /\ session[s].cap \in Nat
  BY DEF HubInv, TypeOK, Session
<1>3. /\ e \in Events /\ Tail(q) \in Seq(Events) /\ Len(Tail(q)) = Len(q) - 1 /\ Len(q) \in Nat
      /\ ToSet(q) = {e} \cup ToSet(Tail(q))
  BY <1>1, <1>2, TailSet
<1>4. Append(w, e) \in Seq(Events) /\ ToSet(Append(w, e)) = ToSet(w) \cup {e}
  BY <1>2, <1>3, AppendSet
<1> HIDE DEF q, w, e
<1>5. [session[s] EXCEPT !.channel = Tail(q), !.wire = Append(w, e)] \in Session
  BY <1>2, <1>3, <1>4 DEF Session
<1>6. /\ session' \in [Sessions -> Session] /\ Elsewhere(s)
      /\ session'[s].at = "open" /\ session'[s].channel = Tail(q) /\ session'[s].cap = session[s].cap
      /\ session'[s].since = session[s].since /\ session'[s].replayed = session[s].replayed
      /\ session'[s].cut = session[s].cut /\ session'[s].wire = Append(w, e) /\ session'[s].live = session[s].live
  <2>1. session' = [session EXCEPT ![s] = [session[s] EXCEPT !.channel = Tail(q), !.wire = Append(w, e)]]
    BY <1>1, <1>2
  <2>2. session[s].at = "open"
    BY <1>1 DEF At
  <2> DEFINE new == [session[s] EXCEPT !.channel = Tail(q), !.wire = Append(w, e)]
  <2>3. /\ new.at = "open" /\ new.channel = Tail(q) /\ new.cap = session[s].cap
        /\ new.since = session[s].since /\ new.replayed = session[s].replayed
        /\ new.cut = session[s].cut /\ new.wire = Append(w, e) /\ new.live = session[s].live
    BY <1>2, <2>2 DEF Session
  <2> HIDE DEF new
  <2>4. session' \in [Sessions -> Session] /\ Elsewhere(s) /\ session'[s] = new
    BY <1>2, <1>5, <2>1 DEF Elsewhere, new
  <2> QED BY <2>3, <2>4
<1>7. Coming(s)' = Coming(s)
  BY <1>3, <1>4, <1>6 DEF Coming, q, w
<1>8. Len(session'[s].channel) <= session'[s].cap
  BY <1>2, <1>3, <1>6
<1>9. ToSet(session'[s].replayed) \cup ToSet(session'[s].channel) \cup ToSet(session'[s].wire) \subseteq 1 .. published
  BY <1>6, <1>7 DEF HubInv, Known, Coming
<1>10. ASSUME NEW c \in Clients, socket[c] = s, session'[s].since = 0, ~session'[s].cut PROVE Complete(c, s)'
  <2>1. Complete(c, s)
    BY <1>6, <1>10, SessionNumbers DEF HubInv, FreshComplete
  <2> QED BY <1>1, <1>6, <1>7, <2>1 DEF Complete, At, Delivered
<1>11. ASSUME restarts = 0
       PROVE  session'[s].since <= Len(history) /\ ToSet(session'[s].wire) \cup ToSet(session'[s].channel) \subseteq 1 .. Len(history)
  BY <1>6, <1>7, <1>11 DEF HubInv, InStreamOrder, Coming
<1>12. ASSUME restarts = 0, NEW c \in Clients, socket[c] = s PROVE Vouched(c, s)'
  <2>1. /\ 1 .. sent \subseteq Delivered(c) \cup Coming(s)
        /\ InOrder(w, Delivered(c)) /\ InOrder(q, Delivered(c) \cup ToSet(w))
    <3>1. Vouched(c, s) /\ s # NoSession
      BY <1>12, SessionNumbers DEF HubInv, AllVouched
    <3> QED BY <1>1, <3>1 DEF Vouched, q, w
  <2>2. q \in Seq(Nat) /\ w \in Seq(Nat) /\ e \in Nat
    <3>1. q \in Seq(Nat) /\ w \in Seq(Nat)
      BY <1>2, EventsAreNumbers
    <3> QED BY <1>3, <3>1, EventNumbers
  <2>3. 1 .. e - 1 \subseteq Delivered(c) \cup ToSet(w) /\ InOrder(Tail(q), (Delivered(c) \cup ToSet(w)) \cup {e})
    BY <1>1, <2>1, <2>2, OrderTail DEF e, q
  <2>4. InOrder(Append(w, e), Delivered(c))
    BY <2>1, <2>2, <2>3, OrderAppend
  <2>5. (Delivered(c) \cup ToSet(w)) \cup {e} = Delivered(c) \cup ToSet(Append(w, e))
    BY <1>4
  <2>6. Delivered(c)' = Delivered(c) /\ sent' = sent
    BY <1>1 DEF Delivered
  <2> QED BY <1>6, <1>7, <2>1, <2>3, <2>4, <2>5, <2>6 DEF Vouched, At
<1> QED BY <1>1, <1>6, <1>8, <1>9, <1>10, <1>11, <1>12, HandlerStep

\* A session of a client that has left is nobody's.
LEMMA LeaveKeeps == ASSUME HubInv, NEW s \in Sessions, LeaveDead(s) PROVE HubInv'
<1>1. /\ ~session[s].live
      /\ UNCHANGED <<published, sent, unacked, history, socket, cursor, got, dropped, breaks, lostAcks, restarts>>
  BY DEF LeaveDead, streamVars, clientVars
<1>2. \A c \in Clients : socket[c] # s
  BY <1>1, SessionNumbers DEF HubInv, Sockets
<1>3. /\ session \in [Sessions -> Session] /\ session[s] \in Session
      /\ Len(session[s].channel) <= session[s].cap /\ ToSet(<<>>) = {}
  BY DEF HubInv, TypeOK, ToSet
<1>4. CASE session' = [session EXCEPT ![s] = FreeSession]
  <2>1. FreeSession \in Session
    BY HubAssumption DEF FreeSession, Session
  <2>2. /\ session' \in [Sessions -> Session] /\ Elsewhere(s)
        /\ session'[s].at = "free" /\ session'[s].channel = <<>> /\ session'[s].cap = 0
        /\ session'[s].since = 0 /\ session'[s].replayed = <<>> /\ session'[s].wire = <<>>
    BY <1>3, <1>4, <2>1 DEF Elsewhere, FreeSession
  <2>3. restarts = 0 => 0 <= Len(history)
    BY DEF HubInv, TypeOK
  <2>4. Len(session'[s].channel) <= session'[s].cap
    BY <2>2
  <2> QED BY <1>1, <1>2, <1>3, <2>2, <2>3, <2>4, HandlerStep
<1>5. CASE session[s].channel # <<>> /\ At(s, "open") /\ session' = [session EXCEPT ![s].channel = Tail(session[s].channel)]
  <2> DEFINE q == session[s].channel
  <2>1. q \in Seq(Events) /\ session[s].cap \in Nat
    BY <1>3 DEF Session
  <2>2. Tail(q) \in Seq(Events) /\ Len(Tail(q)) = Len(q) - 1 /\ Len(q) \in Nat /\ ToSet(Tail(q)) \subseteq ToSet(q)
    BY <1>5, <2>1, TailSet
  <2> HIDE DEF q
  <2>3. [session[s] EXCEPT !.channel = Tail(q)] \in Session
    BY <1>3, <2>2 DEF Session
  <2>4. /\ session' \in [Sessions -> Session] /\ Elsewhere(s)
        /\ session'[s].at = "open" /\ session'[s].channel = Tail(q) /\ session'[s].cap = session[s].cap
        /\ session'[s].since = session[s].since /\ session'[s].replayed = session[s].replayed
        /\ session'[s].wire = session[s].wire
    BY <1>3, <1>5, <2>3 DEF Elsewhere, At, q
  <2>5. Len(session'[s].channel) <= session'[s].cap
    BY <1>3, <2>1, <2>2, <2>4 DEF q
  <2>6. ToSet(session'[s].replayed) \cup ToSet(session'[s].channel) \cup ToSet(session'[s].wire) \subseteq 1 .. published
    BY <2>2, <2>4 DEF HubInv, Known, q
  <2>7. restarts = 0 => session'[s].since <= Len(history) /\ ToSet(session'[s].wire) \cup ToSet(session'[s].channel) \subseteq 1 .. Len(history)
    BY <2>2, <2>4 DEF HubInv, InStreamOrder, Coming, q
  <2> QED BY <1>1, <1>2, <2>4, <2>5, <2>6, <2>7, HandlerStep
<1>6. /\ At(s, "replay") \/ At(s, "subscribe") \/ (At(s, "open") /\ session[s].channel # <<>>)
      /\ session' = [session EXCEPT ![s] = FreeSession] \/ (At(s, "open") /\ session' = [session EXCEPT ![s].channel = Tail(@)])
  BY DEF LeaveDead
<1>7. At(s, "open") => session[s].channel # <<>>
  BY <1>6 DEF At
<1> QED BY <1>4, <1>5, <1>6, <1>7

-----------------------------------------------------------------------------
\* A replay enters the history; it may run ahead of the consumer.
LEMMA AddHistoryKeeps == ASSUME HubInv, NEW s \in Sessions, AddHistory(s) PROVE HubInv'
<1> DEFINE r == session[s].replayed
<1>1. /\ At(s, "add") /\ history' = history \o Unseen(r)
      /\ session' = [session EXCEPT ![s].at = "subscribe", ![s].replayed = <<>>]
      /\ UNCHANGED <<published, sent, unacked, socket, cursor, got, dropped, breaks, lostAcks, restarts>>
  BY DEF AddHistory, streamVars, clientVars
<1>2. /\ session \in [Sessions -> Session] /\ session[s] \in Session /\ history \in Seq(Events)
      /\ r \in Seq(Events) /\ Len(history) \in Nat
  BY DEF HubInv, TypeOK, Session
<1>3. /\ Unseen(r) \in Seq(Events) /\ ToSet(history') = ToSet(history) \cup ToSet(r)
  BY <1>1, <1>2, UnseenEvents
<1>4. history' \in Seq(Events)
  BY <1>1, <1>2, <1>3, ConcatProperties
<1>5. /\ session' \in [Sessions -> Session] /\ Elsewhere(s)
      /\ session'[s].at = "subscribe" /\ session'[s].replayed = <<>>
      /\ session'[s].since = session[s].since /\ session'[s].channel = session[s].channel
      /\ session'[s].cap = session[s].cap /\ session'[s].wire = session[s].wire
      /\ session'[s].live = session[s].live /\ session'[s].cut = session[s].cut
  <2>0. <<>> \in Seq(Events)
    OBVIOUS
  <2>1. [session[s] EXCEPT !.at = "subscribe", !.replayed = <<>>] \in Session
    BY <1>2, <2>0 DEF Session
  <2> QED BY <1>1, <1>2, <2>1 DEF Elsewhere, Session
<1>6. session[s].channel = <<>> /\ session[s].wire = <<>> /\ ToSet(<<>>) = {}
  BY <1>1 DEF HubInv, Sockets, At, ToSet
<1>7. \A c \in Clients : socket[c] # NoSession => socket[c] \in Sessions
  BY DEF HubInv, TypeOK
<1>8. TypeOK'
  BY <1>1, <1>4, <1>5 DEF HubInv, TypeOK, Elsewhere
<1>9. Known'
  <2>1. ToSet(history') \subseteq 1 .. published
    BY <1>3 DEF HubInv, Known
  <2> QED BY <1>1, <1>5, <1>6, <2>1 DEF HubInv, Known, Elsewhere
<1>10. Sockets'
  <2>1. \A t \in Sessions : session'[t].at # "open" => session'[t].channel = <<>> /\ session'[t].wire = <<>>
    BY <1>5, <1>6 DEF HubInv, Sockets, Elsewhere, At
  <2>2. \A c \in Clients : socket[c] # NoSession => session'[socket[c]].live /\ session'[socket[c]].at # "free"
    BY <1>5, <1>7 DEF HubInv, Sockets, Elsewhere, At
  <2> QED BY <1>1, <2>1, <2>2 DEF HubInv, Sockets, At
<1>11. FreshComplete'
  <2>1. ASSUME NEW c \in Clients, socket[c] # NoSession, session'[socket[c]].since = 0, ~session'[socket[c]].cut
        PROVE  Complete(c, socket[c])'
    <3>1. CASE socket[c] = s
      <4>1. Complete(c, s)
        BY <1>5, <2>1, <3>1 DEF HubInv, FreshComplete
      <4> QED BY <1>1, <1>3, <1>5, <3>1, <4>1 DEF Complete, At
    <3>2. CASE socket[c] # s
      <4>1. session'[socket[c]] = session[socket[c]]
        BY <1>5, <1>7, <2>1, <3>2 DEF Elsewhere
      <4>2. Complete(c, socket[c])
        BY <2>1, <4>1 DEF HubInv, FreshComplete
      <4> QED BY <1>1, <1>3, <4>1, <4>2 DEF Complete, At, Delivered, Coming
    <3> QED BY <3>1, <3>2
  <2> QED BY <1>1, <2>1 DEF FreshComplete
<1>12. ASSUME restarts = 0 PROVE InStreamOrder' /\ AllVouched'
  <2>1. /\ \A i \in DOMAIN history' : history'[i] = i
        /\ Len(history') \in Nat /\ Len(history) <= Len(history')
    <3>1. PICK a \in 0 .. Len(history) : \A i \in DOMAIN r : r[i] = a + i
      BY <1>1, <1>12 DEF HubInv, InStreamOrder
    <3>2. history \in Seq(Nat) /\ r \in Seq(Nat)
      BY <1>2, EventsAreNumbers
    <3>4. a \in Nat /\ a <= Len(history)
      BY <1>2
    <3>3. \A i \in DOMAIN history : history[i] = i
      BY <1>12 DEF HubInv, InStreamOrder
    <3> HIDE DEF r
    <3> QED BY <1>1, <3>1, <3>2, <3>3, <3>4, UnseenOfPrefix
  <2>2. InStreamOrder'
    <3>1. sent <= Len(history') /\ \A c \in Clients : cursor[c] <= Len(history')
      BY <1>2, <1>12, <2>1 DEF HubInv, InStreamOrder, TypeOK
    <3>2. ASSUME NEW t \in Sessions
          PROVE  /\ session'[t].since <= Len(history') /\ Coming(t)' \subseteq 1 .. Len(history')
                 /\ At(t, "add")' =>
                     \E a \in 0 .. Len(history') : \A i \in DOMAIN session'[t].replayed : session'[t].replayed[i] = a + i
      <4>1. /\ session[t].since <= Len(history) /\ Coming(t) \subseteq 1 .. Len(history)
            /\ At(t, "add") =>
                \E a \in 0 .. Len(history) : \A i \in DOMAIN session[t].replayed : session[t].replayed[i] = a + i
        BY <1>12 DEF HubInv, InStreamOrder
      <4>2. session[t].since \in Nat /\ session'[t].since = session[t].since /\ Coming(t)' = Coming(t)
        <5>1. session[t].since \in Nat
          BY <1>2 DEF Session
        <5>2. CASE t = s
          BY <1>5, <5>1, <5>2 DEF Coming
        <5>3. CASE t # s
          BY <1>5, <5>1, <5>3 DEF Coming, Elsewhere
        <5> QED BY <5>2, <5>3
      <4>3. At(t, "add")' => At(t, "add") /\ session'[t] = session[t]
        BY <1>5 DEF At, Elsewhere
      <4>4. 0 .. Len(history) \subseteq 0 .. Len(history') /\ 1 .. Len(history) \subseteq 1 .. Len(history')
        BY <1>2, <2>1
      <4>5. session[t].since <= Len(history')
        BY <1>2, <2>1, <4>1, <4>2
      <4> QED BY <4>1, <4>2, <4>3, <4>4, <4>5
    <3> QED BY <1>1, <2>1, <3>1, <3>2 DEF InStreamOrder
  <2>3. ASSUME NEW c \in Clients PROVE Vouched(c, socket[c])'
    <3>1. Vouched(c, socket[c])
      BY <1>12 DEF HubInv, AllVouched
    <3>2. CASE socket[c] = s
      BY <1>1, <1>5, <3>1, <3>2 DEF Vouched, At, Delivered
    <3>3. CASE socket[c] # s /\ socket[c] # NoSession
      <4>1. session'[socket[c]] = session[socket[c]]
        BY <1>5, <1>7, <3>3 DEF Elsewhere
      <4> QED BY <1>1, <3>1, <4>1 DEF Vouched, At, Delivered, Coming
    <3>4. CASE socket[c] = NoSession
      BY <1>1, <3>4 DEF Vouched
    <3> QED BY <3>2, <3>3, <3>4
  <2> QED BY <1>1, <1>12, <2>2, <2>3 DEF HubInv, AllVouched, Delivered
<1> QED BY <1>1, <1>8, <1>9, <1>10, <1>11, <1>12 DEF HubInv

\* The consumer hands an event to the hub, new or again: every open session gets it
\* or has lost it, after everything that comes before it.
LEMMA HubPublishKeeps ==
    ASSUME HubInv, NEW e \in 1 .. published, e <= sent + 1, HubPublish(e),
           sent' \in 0 .. published, 1 .. sent' \subseteq 1 .. sent \cup {e}, sent' = sent \/ sent' = e,
           unacked' \subseteq 1 .. sent', lostAcks' \in 0 .. MaxLostAcks,
           UNCHANGED <<published, socket, cursor, got, breaks, restarts>>
    PROVE  HubInv'
<1>1. /\ session \in [Sessions -> Session] /\ history \in Seq(Events) /\ Len(history) \in Nat
      /\ published \in 0 .. MaxEvents /\ MaxEvents \in Nat /\ sent \in Nat
      /\ dropped \in [Clients -> SUBSET Events]
  BY HubAssumption DEF HubInv, TypeOK
<1>2. e \in Events /\ e \in Nat
  BY <1>1 DEF Events
<1>3. <<e>> \in Seq(Events) /\ ToSet(<<e>>) = {e}
  BY <1>2 DEF ToSet
<1>4. /\ history' = history \o Unseen(<<e>>) /\ Unseen(<<e>>) \in Seq(Events)
      /\ ToSet(history') = ToSet(history) \cup {e}
  BY <1>1, <1>3, UnseenEvents DEF HubPublish
<1>5. history' \in Seq(Events)
  BY <1>1, <1>4, ConcatProperties
<1>6. ASSUME NEW s \in Sessions
      PROVE  /\ session'[s] \in Session
             /\ session'[s].at = session[s].at /\ session'[s].since = session[s].since
             /\ session'[s].replayed = session[s].replayed /\ session'[s].cap = session[s].cap
             /\ session'[s].wire = session[s].wire /\ session'[s].live = session[s].live
             /\ session'[s].cut = session[s].cut
             /\ Len(session'[s].channel) <= session'[s].cap
             /\ At(s, "open") /\ ~Full(s) => session'[s].channel = Append(session[s].channel, e)
             /\ ~(At(s, "open") /\ ~Full(s)) => session'[s].channel = session[s].channel
  <2> DEFINE q == session[s].channel
  <2>1. session[s] \in Session /\ q \in Seq(Events) /\ Len(q) <= session[s].cap /\ session[s].cap \in Nat
    BY <1>1 DEF HubInv, TypeOK, Session
  <2>2. Append(q, e) \in Seq(Events) /\ Len(Append(q, e)) = Len(q) + 1 /\ Len(q) \in Nat
    BY <1>2, <2>1, AppendSet
  <2>3. session'[s] = IF At(s, "open") /\ ~Full(s) THEN [session[s] EXCEPT !.channel = Append(q, e)] ELSE session[s]
    BY DEF HubPublish
  <2>4. ~Full(s) => Len(q) < session[s].cap
    BY <2>1, <2>2 DEF Full
  <2> HIDE DEF q
  <2>5. CASE At(s, "open") /\ ~Full(s)
    <3>1. session'[s] = [session[s] EXCEPT !.channel = Append(q, e)]
      BY <2>3, <2>5
    <3>2. /\ session'[s] \in Session
          /\ session'[s].at = session[s].at /\ session'[s].since = session[s].since
          /\ session'[s].replayed = session[s].replayed /\ session'[s].cap = session[s].cap
          /\ session'[s].wire = session[s].wire /\ session'[s].live = session[s].live
          /\ session'[s].cut = session[s].cut /\ session'[s].channel = Append(q, e)
      BY <2>1, <2>2, <3>1 DEF Session
    <3>3. Len(session'[s].channel) <= session'[s].cap
      BY <2>1, <2>2, <2>4, <2>5, <3>2
    <3> QED BY <2>5, <3>2, <3>3 DEF q
  <2>6. CASE ~(At(s, "open") /\ ~Full(s))
    <3>1. session'[s] = session[s]
      BY <2>3, <2>6
    <3> QED BY <2>1, <2>6, <3>1 DEF q
  <2> QED BY <2>5, <2>6
<1>7. session' \in [Sessions -> Session]
  BY <1>6 DEF HubPublish
<1>8. ASSUME NEW c \in Clients
      PROVE  /\ dropped'[c] \in SUBSET Events /\ Delivered(c) \subseteq Delivered(c)'
             /\ socket[c] # NoSession /\ At(socket[c], "open") /\ Full(socket[c]) => e \in Delivered(c)'
  BY <1>1, <1>2 DEF HubPublish, Delivered
<1>9. \A c \in Clients : socket[c] # NoSession => socket[c] \in Sessions
  BY DEF HubInv, TypeOK
<1>10. ASSUME NEW s \in Sessions
       PROVE  /\ Coming(s)' \subseteq Coming(s) \cup {e} /\ Coming(s) \subseteq Coming(s)'
              /\ At(s, "open") /\ ~Full(s) => e \in Coming(s)'
              /\ ToSet(session'[s].channel) \subseteq ToSet(session[s].channel) \cup {e}
  <2>1. session[s].channel \in Seq(Events)
    BY <1>1 DEF Session
  <2>2. ToSet(Append(session[s].channel, e)) = ToSet(session[s].channel) \cup {e}
    BY <1>2, <2>1, AppendSet
  <2> QED BY <1>6, <2>2 DEF Coming
<1>11. TypeOK'
  <2>1. dropped' \in [Clients -> SUBSET Events]
    BY <1>8 DEF HubPublish
  <2> QED BY <1>5, <1>6, <1>7, <2>1 DEF HubInv, TypeOK
<1>12. Known'
  BY <1>4, <1>6, <1>10 DEF HubInv, Known
<1>13. Sockets'
  <2>1. ASSUME NEW t \in Sessions, session'[t].at # "open" PROVE session'[t].channel = <<>> /\ session'[t].wire = <<>>
    BY <1>6, <2>1 DEF HubInv, Sockets, At
  <2>2. \A c \in Clients : socket[c] # NoSession => session'[socket[c]].live /\ session'[socket[c]].at # "free"
    BY <1>6, <1>9 DEF HubInv, Sockets, At
  <2> QED BY <2>1, <2>2 DEF HubInv, Sockets, At
<1>14. FreshComplete'
  <2>1. ASSUME NEW c \in Clients, socket[c] # NoSession, session'[socket[c]].since = 0, ~session'[socket[c]].cut
        PROVE  Complete(c, socket[c])'
    <3>1. socket[c] \in Sessions
      BY <1>9, <2>1
    <3>2. Complete(c, socket[c])
      BY <1>6, <2>1, <3>1 DEF HubInv, FreshComplete
    <3>3. At(socket[c], "open") => e \in Delivered(c)' \cup Coming(socket[c])'
      BY <1>8, <1>10, <2>1, <3>1
    <3>4. \A step : session'[socket[c]].at = step <=> At(socket[c], step)
      BY <1>6, <3>1 DEF At
    <3>5. session'[socket[c]].replayed = session[socket[c]].replayed
      BY <1>6, <3>1
    <3>6. Coming(socket[c]) \subseteq Coming(socket[c])' /\ Delivered(c) \subseteq Delivered(c)'
      BY <1>8, <1>10, <3>1
    <3> DEFINE given == 1 .. sent
    <3>7. 1 .. sent' \subseteq given \cup {e}
      OBVIOUS
    <3>8. /\ At(socket[c], "add") => given \subseteq ToSet(history) \cup ToSet(session[socket[c]].replayed)
          /\ At(socket[c], "subscribe") => given \subseteq ToSet(history)
          /\ At(socket[c], "open") => given \subseteq Delivered(c) \cup Coming(socket[c])
      BY <3>2 DEF Complete
    <3> HIDE DEF given
    <3>9. /\ At(socket[c], "add") => 1 .. sent' \subseteq ToSet(history') \cup ToSet(session'[socket[c]].replayed)
          /\ At(socket[c], "subscribe") => 1 .. sent' \subseteq ToSet(history')
      BY <1>4, <3>5, <3>7, <3>8
    <3>10. At(socket[c], "open") => 1 .. sent' \subseteq Delivered(c)' \cup Coming(socket[c])'
      BY <3>3, <3>6, <3>7, <3>8
    <3> QED BY <3>4, <3>9, <3>10 DEF Complete, At
  <2> QED BY <2>1 DEF FreshComplete
<1>15. ASSUME restarts = 0 PROVE InStreamOrder' /\ AllVouched'
  <2>1. /\ \A i \in DOMAIN history' : history'[i] = i
        /\ Len(history') \in Nat /\ Len(history) <= Len(history') /\ e <= Len(history')
    <3> DEFINE one == <<e>>
               a == e - 1
    <3>0. history \in Seq(Nat)
      BY <1>1, EventsAreNumbers
    <3>1. one \in Seq(Nat) /\ Len(one) = 1 /\ a \in Nat /\ a + 1 = e
      BY <1>1, <1>2
    <3>2. \A i \in DOMAIN one : one[i] = a + i
      BY <1>2
    <3>3. (\A i \in DOMAIN history : history[i] = i) /\ a <= Len(history)
      BY <1>1, <1>2, <1>15 DEF HubInv, InStreamOrder
    <3>4. history' = history \o Unseen(one)
      BY <1>4
    <3> HIDE DEF one, a
    <3>5. /\ \A i \in DOMAIN history' : history'[i] = i
          /\ Len(history') \in Nat /\ Len(history) <= Len(history') /\ a + Len(one) <= Len(history')
      BY <3>0, <3>1, <3>2, <3>3, <3>4, UnseenOfPrefix
    <3> QED BY <3>1, <3>5
  <2>2. 0 .. Len(history) \subseteq 0 .. Len(history') /\ 1 .. Len(history) \subseteq 1 .. Len(history') /\ e \in 1 .. Len(history')
    BY <1>1, <1>2, <2>1
  <2>3. InStreamOrder'
    <3>1. sent' <= Len(history') /\ \A c \in Clients : cursor[c] <= Len(history')
      BY <1>1, <1>15, <2>1 DEF HubInv, InStreamOrder, TypeOK
    <3>2. ASSUME NEW t \in Sessions
          PROVE  /\ session'[t].since <= Len(history') /\ Coming(t)' \subseteq 1 .. Len(history')
                 /\ session'[t].at = "add" =>
                     \E a \in 0 .. Len(history') : \A i \in DOMAIN session'[t].replayed : session'[t].replayed[i] = a + i
      <4>1. /\ session[t].since <= Len(history) /\ Coming(t) \subseteq 1 .. Len(history)
            /\ session[t].at = "add" =>
                \E a \in 0 .. Len(history) : \A i \in DOMAIN session[t].replayed : session[t].replayed[i] = a + i
        BY <1>15 DEF HubInv, InStreamOrder, At
      <4>2. session[t].since \in Nat
        BY <1>1 DEF Session
      <4>3. session[t].since <= Len(history')
        BY <1>1, <2>1, <4>1, <4>2
      <4>4. Coming(t)' \subseteq 1 .. Len(history')
        BY <1>10, <2>2, <4>1
      <4>5. session'[t].since = session[t].since /\ session'[t].at = session[t].at /\ session'[t].replayed = session[t].replayed
        BY <1>6
      <4> QED BY <2>2, <4>1, <4>3, <4>4, <4>5
    <3> QED BY <2>1, <3>1, <3>2 DEF InStreamOrder, At
  <2>4. ASSUME NEW c \in Clients, socket[c] # NoSession PROVE Vouched(c, socket[c])'
    <3> DEFINE s == socket[c]
    <3>1. s \in Sessions /\ Vouched(c, s)
      BY <1>9, <1>15, <2>4 DEF HubInv, AllVouched
    <3>2. Delivered(c) \subseteq Delivered(c)' /\ s' = s
      BY <1>8
    <3>3. CASE ~At(s, "open")
      BY <1>6, <2>4, <3>1, <3>2, <3>3 DEF Vouched, At
    <3>4. CASE At(s, "open")
      <4> DEFINE q == session[s].channel
                 w == session[s].wire
      <4>1. q \in Seq(Events) /\ w \in Seq(Events)
        BY <1>1, <3>1 DEF Session
      <4>2. q \in Seq(Nat) /\ w \in Seq(Nat)
        BY <4>1, EventsAreNumbers
      <4>3. /\ 1 .. sent \subseteq Delivered(c) \cup Coming(s) /\ InOrder(w, Delivered(c))
            /\ InOrder(q, Delivered(c) \cup ToSet(w)) /\ Coming(s) = ToSet(w) \cup ToSet(q)
        BY <2>4, <3>1, <3>4 DEF Vouched, Coming
      <4>4. session'[s].at = "open" /\ session'[s].wire = w /\ session'[s].since = session[s].since
        BY <1>6, <3>1, <3>4 DEF At
      <4>5. InOrder(w, Delivered(c)') /\ InOrder(q, Delivered(c)' \cup ToSet(w))
        BY <3>2, <4>3, OrderWidens
      <4>6. InOrder(session'[s].channel, Delivered(c)' \cup ToSet(w))
        <5>1. CASE Full(s)
          BY <1>6, <3>1, <4>5, <5>1
        <5>2. CASE ~Full(s)
          <6>1. session'[s].channel = Append(q, e)
            BY <1>6, <3>1, <3>4, <5>2
          <6>2. \A i \in 1 .. e - 1 : i \in 1 .. sent
            BY <1>1, <1>2
          <6>3. 1 .. e - 1 \subseteq (Delivered(c)' \cup ToSet(w)) \cup ToSet(q)
            BY <3>2, <4>3, <6>2
          <6> HIDE DEF q, w, s
          <6> DEFINE base == Delivered(c)' \cup ToSet(w)
          <6>4. InOrder(q, base) /\ 1 .. e - 1 \subseteq base \cup ToSet(q)
            BY <4>5, <6>3
          <6> HIDE DEF base
          <6>5. InOrder(Append(q, e), base)
            BY <1>2, <4>2, <6>4, OrderAppend
          <6> QED BY <6>1, <6>5 DEF base
        <5> QED BY <5>1, <5>2
      <4>7. 1 .. sent' \subseteq Delivered(c)' \cup Coming(s)'
        <5>1. e \in Delivered(c)' \cup Coming(s)' /\ Coming(s) \subseteq Coming(s)'
          BY <1>8, <1>10, <2>4, <3>1, <3>4
        <5> QED BY <3>2, <4>3, <5>1
      <4> QED BY <2>4, <3>2, <4>4, <4>5, <4>6, <4>7 DEF Vouched, At
    <3> QED BY <3>3, <3>4
  <2>5. ASSUME NEW c \in Clients PROVE 1 .. cursor[c] \subseteq Delivered(c)' /\ Vouched(c, socket[c])'
    <3>1. 1 .. cursor[c] \subseteq Delivered(c)'
      BY <1>8, <1>15 DEF HubInv, AllVouched
    <3>2. socket[c] = NoSession => Vouched(c, socket[c])'
      BY DEF Vouched
    <3> QED BY <2>4, <3>1, <3>2
  <2> QED BY <2>3, <2>5 DEF AllVouched
<1> QED BY <1>11, <1>12, <1>13, <1>14, <1>15 DEF HubInv

\* The next event of the stream.
LEMMA PushKeeps == ASSUME HubInv, Push PROVE HubInv'
<1>1. /\ sent < published /\ sent' = sent + 1 /\ HubPublish(sent + 1) /\ Acknowledge(sent + 1, unacked)
      /\ UNCHANGED <<published, socket, cursor, got, breaks, restarts>>
  BY DEF Push, clientVars
<1>2. /\ published \in Nat /\ sent \in Nat /\ unacked \subseteq 1 .. sent
      /\ lostAcks \in 0 .. MaxLostAcks /\ MaxLostAcks \in Nat
  BY HubAssumption DEF HubInv, TypeOK
<1> DEFINE e == sent + 1
<1>3. e \in 1 .. published /\ e <= sent + 1 /\ sent' \in 0 .. published /\ sent' = e
  BY <1>1, <1>2
<1>4. 1 .. sent' \subseteq 1 .. sent \cup {e} /\ 1 .. sent \subseteq 1 .. sent' /\ e \in 1 .. sent'
  BY <1>1, <1>2
<1>5. HubPublish(e) /\ Acknowledge(e, unacked)
  BY <1>1
<1> HIDE DEF e
<1>6. unacked' \subseteq 1 .. sent'
  <2>1. unacked' \subseteq unacked \cup {e}
    BY <1>5 DEF Acknowledge
  <2> QED BY <1>2, <1>4, <2>1
<1>7. lostAcks' \in 0 .. MaxLostAcks
  BY <1>2, <1>5 DEF Acknowledge
<1> QED BY <1>1, <1>3, <1>4, <1>5, <1>6, <1>7, HubPublishKeeps

\* An event again.
LEMMA RedeliverKeeps == ASSUME HubInv, Redeliver PROVE HubInv'
<1>1. PICK e \in unacked : HubPublish(e) /\ Acknowledge(e, unacked)
  BY DEF Redeliver
<1>2. sent' = sent /\ UNCHANGED <<published, socket, cursor, got, breaks, restarts>>
  BY DEF Redeliver, clientVars
<1>3. /\ published \in Nat /\ sent \in 0 .. published /\ unacked \subseteq 1 .. sent
      /\ lostAcks \in 0 .. MaxLostAcks /\ MaxLostAcks \in Nat
  BY HubAssumption DEF HubInv, TypeOK
<1>4. e \in 1 .. sent /\ e \in 1 .. published /\ e <= sent + 1
  BY <1>3
<1>5. unacked' \subseteq 1 .. sent' /\ 1 .. sent' \subseteq 1 .. sent \cup {e}
  BY <1>1, <1>2, <1>3, <1>4 DEF Acknowledge
<1>6. lostAcks' \in 0 .. MaxLostAcks
  BY <1>1, <1>3 DEF Acknowledge
<1> QED BY <1>1, <1>2, <1>3, <1>4, <1>5, <1>6, HubPublishKeeps

\* A longer stream.
LEMMA PublishKeeps == ASSUME HubInv, Publish PROVE HubInv'
<1>1. /\ published < MaxEvents /\ published' = published + 1
      /\ UNCHANGED <<sent, unacked, history, session, socket, cursor, got, dropped, breaks, lostAcks, restarts>>
  BY DEF Publish, clientVars
<1>2. published \in Nat /\ MaxEvents \in Nat /\ sent \in 0 .. published
  BY HubAssumption DEF HubInv, TypeOK
<1>3. published' \in 0 .. MaxEvents /\ sent' \in 0 .. published' /\ 1 .. published \subseteq 1 .. published'
  BY <1>1, <1>2
<1>4. TypeOK'
  BY <1>1, <1>3 DEF HubInv, TypeOK
<1>5. Known'
  BY <1>1, <1>3 DEF HubInv, Known
<1>6. Sockets' /\ FreshComplete'
  BY <1>1 DEF HubInv, Sockets, FreshComplete, Complete, At, Delivered, Coming
<1>7. restarts = 0 => InStreamOrder' /\ AllVouched'
  BY <1>1 DEF HubInv, InStreamOrder, AllVouched, Vouched, At, Delivered, Coming
<1> QED BY <1>1, <1>4, <1>5, <1>6, <1>7 DEF HubInv

\* A client connects to a free session, which is nobody else's.
LEMMA ConnectKeeps == ASSUME HubInv, NEW c \in Clients, Connect(c) PROVE HubInv'
<1> DEFINE least == CHOOSE t \in FreeSessions : \A u \in FreeSessions : t <= u
<1>1. /\ socket[c] = NoSession /\ FreeSessions # {}
      /\ session' = [session EXCEPT ![least] = [FreeSession EXCEPT !.at = "replay", !.since = cursor[c], !.live = TRUE]]
      /\ socket' = [socket EXCEPT ![c] = least]
      /\ UNCHANGED <<published, sent, unacked, history, cursor, got, dropped, breaks, lostAcks, restarts>>
  BY DEF Connect, streamVars, clientVars
<1>2. least \in FreeSessions
  <2>1. FreeSessions \in SUBSET Nat
    BY HubAssumption DEF FreeSessions, Sessions
  <2>2. \E t \in FreeSessions : \A u \in FreeSessions : t <= u
    BY <1>1, <2>1, LeastElement
  <2> QED BY <2>2
<1> HIDE DEF least
<1>3. PICK s \in Sessions : s = least
  BY <1>2 DEF FreeSessions
<1>4. At(s, "free") /\ s # NoSession
  BY <1>2, <1>3, SessionNumbers DEF FreeSessions
<1>5. /\ session \in [Sessions -> Session] /\ socket \in [Clients -> Sessions \cup {NoSession}]
      /\ cursor[c] \in 0 .. MaxEvents /\ MaxEvents \in Nat
  BY HubAssumption DEF HubInv, TypeOK
<1> DEFINE new == [FreeSession EXCEPT !.at = "replay", !.since = cursor[c], !.live = TRUE]
<1>6. /\ new \in Session
      /\ new.at = "replay" /\ new.since = cursor[c] /\ new.live /\ new.channel = <<>> /\ new.cap = 0
      /\ new.wire = <<>> /\ new.replayed = <<>>
  <2>1. FreeSession \in Session
    BY HubAssumption DEF FreeSession, Session
  <2>2. new \in Session
    BY <1>5, <2>1 DEF Session
  <2>3. new.at = "replay" /\ new.since = cursor[c] /\ new.live
    BY <2>1 DEF Session
  <2>4. /\ new.channel = FreeSession.channel /\ new.cap = FreeSession.cap
        /\ new.wire = FreeSession.wire /\ new.replayed = FreeSession.replayed
    BY <2>1 DEF Session
  <2> HIDE DEF new
  <2>5. FreeSession.channel = <<>> /\ FreeSession.cap = 0 /\ FreeSession.wire = <<>> /\ FreeSession.replayed = <<>>
    BY DEF FreeSession
  <2> QED BY <2>2, <2>3, <2>4, <2>5
<1> HIDE DEF new
<1>7. session' \in [Sessions -> Session] /\ Elsewhere(s) /\ session'[s] = new
  BY <1>1, <1>3, <1>5, <1>6 DEF Elsewhere, new
<1>8. socket' \in [Clients -> Sessions \cup {NoSession}] /\ socket'[c] = s /\ \A d \in Clients \ {c} : socket'[d] = socket[d]
  BY <1>1, <1>3, <1>5
<1>9. \A d \in Clients : socket[d] # s
  BY <1>4 DEF HubInv, Sockets
<1>10. ToSet(<<>>) = {} /\ Len(<<>>) = 0
  BY DEF ToSet
<1>11. TypeOK'
  <2>1. \A t \in Sessions : Len(session'[t].channel) <= session'[t].cap
    <3>1. \A t \in Sessions : Len(session[t].channel) <= session[t].cap
      BY DEF HubInv, TypeOK
    <3>2. Len(session'[s].channel) <= session'[s].cap
      BY <1>6, <1>7, <1>10
    <3> QED BY <1>7, <3>1, <3>2 DEF Elsewhere
  <2> QED BY <1>1, <1>7, <1>8, <2>1 DEF HubInv, TypeOK
<1>12. Known'
  BY <1>1, <1>6, <1>7, <1>10 DEF HubInv, Known, Elsewhere
<1>13. Sockets'
  <2>1. \A t \in Sessions : ~At(t, "open")' => session'[t].channel = <<>> /\ session'[t].wire = <<>>
    BY <1>6, <1>7 DEF HubInv, Sockets, Elsewhere, At
  <2>2. ASSUME NEW d \in Clients, socket'[d] # NoSession PROVE session'[socket'[d]].live /\ session'[socket'[d]].at # "free"
    <3>1. CASE d = c
      BY <1>6, <1>7, <1>8, <3>1
    <3>2. CASE d # c
      BY <1>5, <1>7, <1>8, <1>9, <2>2, <3>2 DEF HubInv, Sockets, Elsewhere, At
    <3> QED BY <3>1, <3>2
  <2>3. \A d, f \in Clients : socket'[d] # NoSession /\ socket'[d] = socket'[f] => d = f
    BY <1>8, <1>9 DEF HubInv, Sockets
  <2> QED BY <2>1, <2>2, <2>3 DEF Sockets, At
<1>14. FreshComplete'
  <2>1. ASSUME NEW d \in Clients, socket'[d] # NoSession, session'[socket'[d]].since = 0, ~session'[socket'[d]].cut
        PROVE  Complete(d, socket[d])'
    <3>1. CASE d = c
      BY <1>6, <1>7, <1>8, <3>1 DEF Complete, At
    <3>2. CASE d # c
      <4>1. socket'[d] = socket[d] /\ session'[socket[d]] = session[socket[d]]
        BY <1>5, <1>7, <1>8, <1>9, <2>1, <3>2 DEF Elsewhere
      <4>2. Complete(d, socket[d])
        BY <2>1, <4>1 DEF HubInv, FreshComplete
      <4> QED BY <1>1, <4>1, <4>2 DEF Complete, At, Delivered, Coming
    <3> QED BY <3>1, <3>2
  <2> QED BY <2>1 DEF FreshComplete
<1>15. ASSUME restarts = 0 PROVE InStreamOrder' /\ AllVouched'
  <2>1. InStreamOrder'
    <3>1. cursor[c] <= Len(history)
      BY <1>15 DEF HubInv, InStreamOrder
    <3>2. ASSUME NEW t \in Sessions
          PROVE  /\ session'[t].since <= Len(history) /\ Coming(t)' \subseteq 1 .. Len(history)
                 /\ session'[t].at = "add" =>
                     \E a \in 0 .. Len(history) : \A i \in DOMAIN session'[t].replayed : session'[t].replayed[i] = a + i
      <4>1. CASE t = s
        BY <1>6, <1>7, <1>10, <3>1, <4>1 DEF Coming
      <4>2. CASE t # s
        <5>1. session'[t] = session[t]
          BY <1>7, <4>2 DEF Elsewhere
        <5> QED BY <1>15, <5>1 DEF HubInv, InStreamOrder, At, Coming
      <4> QED BY <4>1, <4>2
    <3> QED BY <1>1, <1>15, <3>2 DEF HubInv, InStreamOrder, At
  <2>2. ASSUME NEW d \in Clients PROVE Vouched(d, socket[d])'
    <3>1. CASE d = c
      <4>1. 1 .. cursor[c] \subseteq Delivered(c)' /\ session'[s].since = cursor[c]
        BY <1>1, <1>6, <1>7, <1>15 DEF HubInv, AllVouched, Delivered
      <4> QED BY <1>6, <1>7, <1>8, <3>1, <4>1 DEF Vouched, At
    <3>2. CASE d # c /\ socket[d] # NoSession
      <4>1. socket'[d] = socket[d] /\ session'[socket[d]] = session[socket[d]]
        BY <1>5, <1>7, <1>8, <1>9, <3>2 DEF Elsewhere
      <4>2. Vouched(d, socket[d])
        BY <1>15 DEF HubInv, AllVouched
      <4> QED BY <1>1, <4>1, <4>2 DEF Vouched, At, Delivered, Coming
    <3>3. CASE d # c /\ socket[d] = NoSession
      BY <1>8, <3>3 DEF Vouched
    <3> QED BY <3>1, <3>2, <3>3
  <2> QED BY <1>1, <1>15, <2>1, <2>2 DEF HubInv, AllVouched, Delivered
<1> QED BY <1>1, <1>11, <1>12, <1>13, <1>14, <1>15 DEF HubInv

\* The client receives the head of the wire, and its cursor may vouch for it.
LEMMA ReceiveKeeps == ASSUME HubInv, NEW c \in Clients, Receive(c) PROVE HubInv'
<1>1. PICK s \in Sessions : s = socket[c]
  BY DEF Receive, HubInv, TypeOK
<1>2. PICK w, q, e : w = session[s].wire /\ q = session[s].channel /\ e = Head(w)
  OBVIOUS
<1>3. /\ w # <<>> /\ s # NoSession
      /\ cursor' = [cursor EXCEPT ![c] = e] /\ got' = [got EXCEPT ![c] = got[c] \cup {e}]
      /\ session' = [session EXCEPT ![s].wire = Tail(w)]
      /\ UNCHANGED <<published, sent, unacked, history, socket, dropped, breaks, lostAcks, restarts>>
  BY <1>1, <1>2 DEF Receive, streamVars
<1>4. /\ session \in [Sessions -> Session] /\ w \in Seq(Events) /\ q \in Seq(Events)
      /\ cursor \in [Clients -> 0 .. MaxEvents] /\ got \in [Clients -> SUBSET Events]
  BY <1>2 DEF HubInv, TypeOK, Session
<1>5. /\ e \in Events /\ Tail(w) \in Seq(Events) /\ ToSet(w) = {e} \cup ToSet(Tail(w))
  BY <1>2, <1>3, <1>4, TailSet
<1>6. e \in 0 .. MaxEvents /\ e \in Nat
  BY <1>5, HubAssumption DEF Events
<1>7. session[s].at = "open"
  BY <1>2, <1>3 DEF HubInv, Sockets, At
<1>8. /\ session' \in [Sessions -> Session] /\ Elsewhere(s)
      /\ session'[s].wire = Tail(w) /\ session'[s].channel = q /\ session'[s].at = "open"
      /\ session'[s].since = session[s].since /\ session'[s].replayed = session[s].replayed
      /\ session'[s].cap = session[s].cap /\ session'[s].live = session[s].live /\ session'[s].cut = session[s].cut
  <2> DEFINE new == [session[s] EXCEPT !.wire = Tail(w)]
  <2>1. /\ new \in Session
        /\ new.wire = Tail(w) /\ new.channel = q /\ new.at = "open"
        /\ new.since = session[s].since /\ new.replayed = session[s].replayed
        /\ new.cap = session[s].cap /\ new.live = session[s].live /\ new.cut = session[s].cut
    BY <1>2, <1>4, <1>5, <1>7 DEF Session
  <2>2. session' = [session EXCEPT ![s] = new]
    BY <1>3, <1>4
  <2> HIDE DEF new
  <2>3. session' \in [Sessions -> Session] /\ Elsewhere(s) /\ session'[s] = new
    BY <1>4, <2>1, <2>2 DEF Elsewhere
  <2> QED BY <2>1, <2>3
<1>9. /\ Coming(s) = ToSet(w) \cup ToSet(q) /\ Coming(s)' = ToSet(Tail(w)) \cup ToSet(q)
  BY <1>2, <1>8 DEF Coming
<1>10. /\ cursor' \in [Clients -> 0 .. MaxEvents] /\ got' \in [Clients -> SUBSET Events]
       /\ cursor'[c] = e /\ got'[c] = got[c] \cup {e}
       /\ \A d \in Clients \ {c} : cursor'[d] = cursor[d] /\ got'[d] = got[d]
  BY <1>3, <1>4, <1>5, <1>6
<1>11. Delivered(c)' = Delivered(c) \cup {e} /\ \A d \in Clients \ {c} : Delivered(d)' = Delivered(d)
  BY <1>3, <1>10 DEF Delivered
<1>12. \A d \in Clients \ {c} : socket[d] # s /\ (socket[d] # NoSession => socket[d] \in Sessions)
  BY <1>1, <1>3 DEF HubInv, Sockets, TypeOK
<1>13. TypeOK'
  <2>1. \A t \in Sessions : Len(session'[t].channel) <= session'[t].cap
    BY <1>2, <1>8 DEF HubInv, TypeOK, Elsewhere
  <2> QED BY <1>3, <1>8, <1>10, <2>1 DEF HubInv, TypeOK
<1>14. Known'
  <2>1. ASSUME NEW t \in Sessions
        PROVE  ToSet(session'[t].replayed) \cup ToSet(session'[t].channel) \cup ToSet(session'[t].wire) \subseteq 1 .. published
    <3>1. ToSet(session[t].replayed) \cup ToSet(session[t].channel) \cup ToSet(session[t].wire) \subseteq 1 .. published
      BY DEF HubInv, Known
    <3>2. CASE t = s
      BY <1>2, <1>5, <1>8, <3>1, <3>2
    <3>3. CASE t # s
      BY <1>8, <3>1, <3>3 DEF Elsewhere
    <3> QED BY <3>2, <3>3
  <2>2. e \in 1 .. published
    BY <1>2, <1>5 DEF HubInv, Known
  <2>3. \A d \in Clients : got'[d] \subseteq 1 .. published
    BY <1>10, <2>2 DEF HubInv, Known
  <2> QED BY <1>3, <2>1, <2>3 DEF HubInv, Known
<1>15. Sockets'
  <2>1. \A t \in Sessions : ~At(t, "open")' => session'[t].channel = <<>> /\ session'[t].wire = <<>>
    BY <1>8 DEF HubInv, Sockets, Elsewhere, At
  <2>2. ASSUME NEW d \in Clients, socket[d] # NoSession PROVE session'[socket[d]].live /\ session'[socket[d]].at # "free"
    <3>1. session[socket[d]].live /\ session[socket[d]].at # "free" /\ socket[d] \in Sessions
      BY <2>2 DEF HubInv, Sockets, At, TypeOK
    <3> QED BY <1>8, <3>1 DEF Elsewhere
  <2> QED BY <1>3, <2>1, <2>2 DEF HubInv, Sockets, At
<1>16. FreshComplete'
  <2>1. ASSUME NEW d \in Clients, socket[d] # NoSession, session'[socket[d]].since = 0, ~session'[socket[d]].cut
        PROVE  Complete(d, socket[d])'
    <3>1. CASE d = c
      <4>1. Complete(c, s)
        BY <1>1, <1>8, <2>1, <3>1 DEF HubInv, FreshComplete
      <4>2. 1 .. sent \subseteq Delivered(c)' \cup Coming(s)'
        BY <1>5, <1>7, <1>9, <1>11, <4>1 DEF Complete, At
      <4> QED BY <1>1, <1>3, <1>8, <3>1, <4>2 DEF Complete, At
    <3>2. CASE d # c
      <4>1. session'[socket[d]] = session[socket[d]]
        BY <1>8, <1>12, <2>1, <3>2 DEF Elsewhere
      <4>2. Complete(d, socket[d])
        BY <2>1, <4>1 DEF HubInv, FreshComplete
      <4>3. Delivered(d)' = Delivered(d)
        BY <1>11, <3>2
      <4> QED BY <1>3, <4>1, <4>2, <4>3 DEF Complete, At, Coming
    <3> QED BY <3>1, <3>2
  <2> QED BY <1>3, <2>1 DEF FreshComplete
<1>17. ASSUME restarts = 0 PROVE InStreamOrder' /\ AllVouched'
  <2>1. InStreamOrder'
    <3>1. ASSUME NEW t \in Sessions
          PROVE  /\ session'[t].since <= Len(history) /\ Coming(t)' \subseteq 1 .. Len(history)
                 /\ session'[t].at = "add" =>
                     \E a \in 0 .. Len(history) : \A i \in DOMAIN session'[t].replayed : session'[t].replayed[i] = a + i
      <4>1. session[t].since <= Len(history) /\ Coming(t) \subseteq 1 .. Len(history)
        BY <1>17 DEF HubInv, InStreamOrder
      <4>2. CASE t = s
        BY <1>5, <1>8, <1>9, <4>1, <4>2
      <4>3. CASE t # s
        <5>1. session'[t] = session[t]
          BY <1>8, <4>3 DEF Elsewhere
        <5> QED BY <1>17, <5>1 DEF HubInv, InStreamOrder, At, Coming
      <4> QED BY <4>2, <4>3
    <3>2. ASSUME NEW d \in Clients PROVE cursor'[d] <= Len(history)
      <4>1. CASE d = c
        <5>1. e \in 1 .. Len(history)
          BY <1>5, <1>9, <1>17 DEF HubInv, InStreamOrder
        <5> QED BY <1>10, <4>1, <5>1
      <4>2. CASE d # c
        BY <1>10, <1>17, <4>2 DEF HubInv, InStreamOrder
      <4> QED BY <4>1, <4>2
    <3> QED BY <1>3, <1>17, <3>1, <3>2 DEF HubInv, InStreamOrder, At
  <2>2. ASSUME NEW d \in Clients PROVE 1 .. cursor'[d] \subseteq Delivered(d)' /\ Vouched(d, socket[d])'
    <3>1. 1 .. cursor[d] \subseteq Delivered(d) /\ Vouched(d, socket[d])
      BY <1>17 DEF HubInv, AllVouched
    <3>2. CASE d = c
      <4>1. /\ 1 .. sent \subseteq Delivered(c) \cup Coming(s) /\ InOrder(w, Delivered(c))
            /\ InOrder(q, Delivered(c) \cup ToSet(w))
        BY <1>1, <1>2, <1>3, <1>7, <3>1, <3>2 DEF Vouched, At
      <4>2. w \in Seq(Nat)
        BY <1>4, EventsAreNumbers
      <4>3. 1 .. e - 1 \subseteq Delivered(c) /\ InOrder(Tail(w), Delivered(c) \cup {e})
        BY <1>2, <1>3, <4>1, <4>2, OrderTail
      <4>4. 1 .. e \subseteq Delivered(c)'
        <5>1. \A i \in 1 .. e : i \in 1 .. e - 1 \/ i = e
          BY <1>6
        <5> QED BY <1>11, <4>3, <5>1
      <4>5. Delivered(c) \cup ToSet(w) = Delivered(c)' \cup ToSet(Tail(w))
        BY <1>5, <1>11
      <4>6. 1 .. sent \subseteq Delivered(c)' \cup Coming(s)'
        BY <1>5, <1>9, <1>11, <4>1
      <4>7. InOrder(Tail(w), Delivered(c)') /\ InOrder(q, Delivered(c)' \cup ToSet(Tail(w)))
        BY <1>11, <4>1, <4>3, <4>5
      <4>8. Vouched(c, s)'
        BY <1>3, <1>8, <4>6, <4>7 DEF Vouched, At
      <4>9. s' = s /\ Vouched(c, socket[c])'
        BY <1>1, <1>3, <1>8, <4>6, <4>7 DEF Vouched, At
      <4> QED BY <1>10, <3>2, <4>4, <4>9
    <3>3. CASE d # c /\ socket[d] # NoSession
      <4>1. session'[socket[d]] = session[socket[d]] /\ Delivered(d)' = Delivered(d) /\ cursor'[d] = cursor[d]
        BY <1>8, <1>10, <1>11, <1>12, <3>3 DEF Elsewhere
      <4> QED BY <1>3, <3>1, <4>1 DEF Vouched, At, Coming
    <3>4. CASE d # c /\ socket[d] = NoSession
      BY <1>3, <1>10, <1>11, <3>1, <3>4 DEF Vouched
    <3> QED BY <3>2, <3>3, <3>4
  <2> QED BY <2>1, <2>2 DEF AllVouched
<1> QED BY <1>3, <1>13, <1>14, <1>15, <1>16, <1>17 DEF HubInv

\* A broken connection loses its frames; the cursor stays behind them.
LEMMA BreakKeeps == ASSUME HubInv, NEW c \in Clients, Break(c) PROVE HubInv'
<1>1. PICK s \in Sessions : s = socket[c]
  BY DEF Break, HubInv, TypeOK
<1>2. /\ s # NoSession /\ breaks + restarts < MaxBreaks /\ breaks' = breaks + 1
      /\ socket' = [socket EXCEPT ![c] = NoSession]
      /\ session' = [session EXCEPT ![s].live = FALSE, ![s].wire = <<>>]
      /\ UNCHANGED <<published, sent, unacked, history, cursor, got, dropped, lostAcks, restarts>>
  BY <1>1 DEF Break, streamVars, clientVars
<1>3. /\ session \in [Sessions -> Session] /\ socket \in [Clients -> Sessions \cup {NoSession}]
      /\ breaks \in Nat /\ restarts \in Nat /\ MaxBreaks \in Nat
  BY HubAssumption DEF HubInv, TypeOK
<1>4. breaks' \in 0 .. MaxBreaks
  BY <1>2, <1>3
<1>5. /\ session' \in [Sessions -> Session] /\ Elsewhere(s)
      /\ session'[s].wire = <<>> /\ session'[s].channel = session[s].channel /\ session'[s].at = session[s].at
      /\ session'[s].since = session[s].since /\ session'[s].replayed = session[s].replayed
      /\ session'[s].cap = session[s].cap
  <2>0. <<>> \in Seq(Events)
    OBVIOUS
  <2> DEFINE new == [session[s] EXCEPT !.live = FALSE, !.wire = <<>>]
  <2>1. /\ new \in Session
        /\ new.wire = <<>> /\ new.channel = session[s].channel /\ new.at = session[s].at
        /\ new.since = session[s].since /\ new.replayed = session[s].replayed /\ new.cap = session[s].cap
    BY <1>3, <2>0 DEF Session
  <2>2. session' = [session EXCEPT ![s] = new]
    BY <1>2, <1>3
  <2> HIDE DEF new
  <2>3. session' \in [Sessions -> Session] /\ Elsewhere(s) /\ session'[s] = new
    BY <1>3, <2>1, <2>2 DEF Elsewhere
  <2> QED BY <2>1, <2>3
<1>6. /\ socket' \in [Clients -> Sessions \cup {NoSession}] /\ socket'[c] = NoSession
      /\ \A d \in Clients \ {c} : socket'[d] = socket[d]
  BY <1>2, <1>3
<1>7. ToSet(<<>>) = {}
  BY DEF ToSet
<1>8. \A d \in Clients : socket'[d] # NoSession =>
        /\ socket'[d] = socket[d] /\ socket[d] \in Sessions /\ socket[d] # s
        /\ session'[socket[d]] = session[socket[d]]
  BY <1>1, <1>3, <1>5, <1>6 DEF HubInv, Sockets, Elsewhere
<1>9. TypeOK'
  <2>1. \A t \in Sessions : Len(session'[t].channel) <= session'[t].cap
    BY <1>5 DEF HubInv, TypeOK, Elsewhere
  <2> QED BY <1>2, <1>4, <1>5, <1>6, <2>1 DEF HubInv, TypeOK
<1>10. Known'
  <2>1. ASSUME NEW t \in Sessions
        PROVE  ToSet(session'[t].replayed) \cup ToSet(session'[t].channel) \cup ToSet(session'[t].wire) \subseteq 1 .. published
    BY <1>5, <1>7 DEF HubInv, Known, Elsewhere
  <2> QED BY <1>2, <2>1 DEF HubInv, Known
<1>11. Sockets'
  <2>1. \A t \in Sessions : ~At(t, "open")' => session'[t].channel = <<>> /\ session'[t].wire = <<>>
    BY <1>5 DEF HubInv, Sockets, Elsewhere, At
  <2>2. \A d \in Clients : socket'[d] # NoSession => session'[socket'[d]].live /\ session'[socket'[d]].at # "free"
    BY <1>8 DEF HubInv, Sockets, At
  <2>3. \A d, f \in Clients : socket'[d] # NoSession /\ socket'[d] = socket'[f] => d = f
    BY <1>8 DEF HubInv, Sockets
  <2> QED BY <2>1, <2>2, <2>3 DEF Sockets, At
<1>12. FreshComplete'
  <2>1. ASSUME NEW d \in Clients, socket'[d] # NoSession, session'[socket'[d]].since = 0, ~session'[socket'[d]].cut
        PROVE  Complete(d, socket[d])'
    <3>1. socket'[d] = socket[d] /\ session'[socket[d]] = session[socket[d]]
      BY <1>8, <2>1
    <3>2. Complete(d, socket[d])
      BY <2>1, <3>1 DEF HubInv, FreshComplete
    <3> QED BY <1>2, <3>1, <3>2 DEF Complete, At, Delivered, Coming
  <2> QED BY <2>1 DEF FreshComplete
<1>13. ASSUME restarts = 0 PROVE InStreamOrder' /\ AllVouched'
  <2>1. ASSUME NEW t \in Sessions
        PROVE  /\ session'[t].since <= Len(history) /\ Coming(t)' \subseteq 1 .. Len(history)
               /\ session'[t].at = "add" =>
                   \E a \in 0 .. Len(history) : \A i \in DOMAIN session'[t].replayed : session'[t].replayed[i] = a + i
    <3>1. /\ session[t].since <= Len(history) /\ Coming(t) \subseteq 1 .. Len(history)
          /\ session[t].at = "add" =>
              \E a \in 0 .. Len(history) : \A i \in DOMAIN session[t].replayed : session[t].replayed[i] = a + i
      BY <1>13 DEF HubInv, InStreamOrder, At
    <3>2. CASE t = s
      BY <1>5, <1>7, <3>1, <3>2 DEF Coming
    <3>3. CASE t # s
      BY <1>5, <3>1, <3>3 DEF Coming, Elsewhere
    <3> QED BY <3>2, <3>3
  <2>2. InStreamOrder'
    BY <1>2, <1>13, <2>1 DEF HubInv, InStreamOrder, At
  <2>3. ASSUME NEW d \in Clients PROVE Vouched(d, socket[d])'
    <3>1. CASE socket'[d] = NoSession
      BY <3>1 DEF Vouched
    <3>2. CASE socket'[d] # NoSession
      <4>1. socket'[d] = socket[d] /\ session'[socket[d]] = session[socket[d]]
        BY <1>8, <3>2
      <4>2. Vouched(d, socket[d])
        BY <1>13 DEF HubInv, AllVouched
      <4> QED BY <1>2, <4>1, <4>2 DEF Vouched, At, Delivered, Coming
    <3> QED BY <3>1, <3>2
  <2> QED BY <1>2, <1>13, <2>2, <2>3 DEF HubInv, AllVouched, Delivered
<1> QED BY <1>2, <1>9, <1>10, <1>11, <1>12, <1>13 DEF HubInv

\* After a restart nothing is left of the hub.
LEMMA RestartKeeps == ASSUME HubInv, Restart PROVE HubInv'
<1>1. /\ restarts < MaxRestarts /\ restarts' = restarts + 1 /\ history' = <<>>
      /\ session' = [s \in Sessions |-> FreeSession] /\ socket' = [c \in Clients |-> NoSession]
      /\ UNCHANGED <<published, cursor, got, dropped, breaks, lostAcks>>
  BY DEF Restart, clientVars
<1>2. PICK k \in sent .. published : sent' = k /\ unacked' = unacked \cup (sent + 1 .. k)
  BY DEF Restart
<1>3. /\ sent \in 0 .. published /\ published \in Nat /\ unacked \subseteq 1 .. sent
      /\ restarts \in Nat /\ MaxRestarts \in Nat
  BY HubAssumption DEF HubInv, TypeOK
<1>4. sent' \in 0 .. published /\ unacked' \subseteq 1 .. sent' /\ restarts' \in 0 .. MaxRestarts /\ restarts' # 0
  BY <1>1, <1>2, <1>3
<1>5. FreeSession \in Session /\ FreeSession.channel = <<>> /\ FreeSession.cap = 0 /\ FreeSession.wire = <<>> /\ FreeSession.replayed = <<>>
  BY HubAssumption DEF FreeSession, Session
<1>6. ToSet(<<>>) = {} /\ Len(<<>>) = 0 /\ <<>> \in Seq(Events)
  BY DEF ToSet
<1>7. TypeOK'
  BY <1>1, <1>4, <1>5, <1>6 DEF HubInv, TypeOK
<1>8. Known'
  BY <1>1, <1>5, <1>6 DEF HubInv, Known
<1>9. Sockets' /\ FreshComplete'
  BY <1>1, <1>5 DEF Sockets, FreshComplete
<1> QED BY <1>4, <1>7, <1>8, <1>9 DEF HubInv

\* A stutter.
LEMMA HubStays == ASSUME HubInv, UNCHANGED vars PROVE HubInv'
<1>1. UNCHANGED <<published, sent, unacked, history, session, socket, cursor, got, dropped, breaks, lostAcks, restarts>>
  BY DEF vars, streamVars, clientVars
<1>2. TypeOK' /\ Known'
  BY <1>1 DEF HubInv, TypeOK, Known
<1>3. Sockets' /\ FreshComplete'
  BY <1>1 DEF HubInv, Sockets, FreshComplete, Complete, At, Delivered, Coming
<1>4. restarts = 0 => InStreamOrder' /\ AllVouched'
  BY <1>1 DEF HubInv, InStreamOrder, AllVouched, Vouched, At, Delivered, Coming
<1> QED BY <1>1, <1>2, <1>3, <1>4 DEF HubInv

\* Every step keeps the invariant.
LEMMA HubStep == HubInv /\ [Next]_vars => HubInv'
<1> SUFFICES ASSUME HubInv, [Next]_vars PROVE HubInv'
  OBVIOUS
<1>1. CASE Publish \/ Push \/ Redeliver
  BY <1>1, PublishKeeps, PushKeeps, RedeliverKeeps
<1>2. ASSUME NEW s \in Sessions, Handle(s) PROVE HubInv'
  BY <1>2, ReplayKeeps, AddHistoryKeeps, SubscribeKeeps, WriteKeeps, LeaveKeeps DEF Handle
<1>3. ASSUME NEW c \in Clients, Connect(c) \/ Receive(c) \/ Break(c) PROVE HubInv'
  BY <1>3, ConnectKeeps, ReceiveKeeps, BreakKeeps
<1>4. CASE Restart
  BY <1>4, RestartKeeps
<1>5. CASE UNCHANGED vars
  BY <1>5, HubStays
<1> QED BY <1>1, <1>2, <1>3, <1>4, <1>5 DEF Next

\* HubInv is an invariant of the specification.
LEMMA HubInvariant == Spec => []HubInv
<1> QED BY HubStarts, HubStep, PTL DEF Spec

\* TypeOK for every value of the constants: among the rest, no subscriber channel ever
\* holds more than its capacity, and only events that were pushed await an
\* acknowledgement.
THEOREM HubTypes == Spec => []TypeOK
<1>1. HubInv => TypeOK
  BY DEF HubInv
<1> QED BY <1>1, HubInvariant, PTL

\* Until the gateway restarts, the history of the hub is an initial part of the stream,
\* whichever of the consumer and the sessions' replays brought an event (AddHistory
\* and Publish of the hub, in any interleaving with redeliveries).
THEOREM HistorySafe == Spec => []HistoryIsPrefix
<1>1. HubInv => HistoryIsPrefix
  BY DEF HubInv, InStreamOrder, HistoryIsPrefix
<1> QED BY <1>1, HubInvariant, PTL

\* Until the gateway restarts, a client that reconnects from its cursor asks for nothing
\* it should have had: all events up to the cursor were received, or lost to a
\* channel that was full.
THEOREM CursorSafe == Spec => []CursorVouches
<1>1. HubInv => CursorVouches
  BY DEF HubInv, AllVouched, CursorVouches, Delivered
<1> QED BY <1>1, HubInvariant, PTL

\* A session without a cursor whose scan was not cut short has every event once it has
\* caught up, after any number of restarts and redeliveries.
THEOREM FreshSafe == Spec => []FreshSessionComplete
<1>1. ASSUME HubInv, NEW c \in Clients, CaughtUp(c), session[socket[c]].since = 0, ~session[socket[c]].cut,
             dropped[c] = {}
      PROVE  got[c] = 1 .. published
  <2>1. /\ socket[c] # NoSession /\ At(socket[c], "open") /\ sent = published
        /\ session[socket[c]].channel = <<>> /\ session[socket[c]].wire = <<>>
    BY <1>1 DEF CaughtUp
  <2>2. 1 .. sent \subseteq Delivered(c) \cup Coming(socket[c])
    BY <1>1, <2>1 DEF HubInv, FreshComplete, Complete
  <2>3. Coming(socket[c]) = {} /\ Delivered(c) = got[c]
    BY <1>1, <2>1 DEF Coming, Delivered, ToSet
  <2>4. got[c] \subseteq 1 .. published
    BY <1>1 DEF HubInv, Known
  <2> QED BY <2>1, <2>2, <2>3, <2>4
<1>2. HubInv => FreshSessionComplete
  BY <1>1 DEF FreshSessionComplete
<1> QED BY <1>2, HubInvariant, PTL
=============================================================================
