---------------------------- MODULE ACPPeerProofs ----------------------------
(***************************************************************************)
(* Every operation on a peer, of the client or of the process, leads from  *)
(* a well-typed peer to a well-typed peer, and keeps its updates in order. *)
(***************************************************************************)
EXTENDS ACPPeer, SequenceTheorems, TLAPS

LEMMA SpawnType == NoPeer \in Peer /\ Spawned \in Peer
<1>1. 0 \in 0 .. MaxUpdates
  BY PeerAssumption
<1>2. << >> \in Seq(Message) /\ << >> \in Seq(UpdateID)
  OBVIOUS
<1>3. NoPeer \in Peer
  BY <1>1, <1>2 DEF NoPeer, Peer
<1> QED BY <1>3 DEF Spawned, Peer

LEMMA RequestType ==
    ASSUME NEW c \in Peer
    PROVE  Request(c) \in Peer /\ c.nextID + 1 \in Nat
<1>1. c.nextID + 1 \in RequestID
  BY DEF Peer, RequestID
<1> QED BY <1>1 DEF Request, Peer, RequestID

LEMMA CloseType == ASSUME NEW c \in Peer PROVE Close(c) \in Peer
BY DEF Close, Peer

LEMMA ExitType == ASSUME NEW c \in Peer PROVE Exit(c) \in Peer
BY DEF Exit, Peer

LEMMA TakeNoteType ==
    ASSUME NEW c \in Peer, c.notes # <<>>
    PROVE  TakeNote(c) \in Peer /\ Head(c.notes) \in UpdateID
<1>1. c.notes \in Seq(UpdateID)
  BY DEF Peer
<1>2. Tail(c.notes) \in Seq(UpdateID) /\ Head(c.notes) \in UpdateID
  BY <1>1
<1> QED BY <1>2 DEF TakeNote, Peer

\* What the head of the wire says of its number.
LEMMA HeadType ==
    ASSUME NEW c \in Peer, c.wire # <<>>
    PROVE  /\ Tail(c.wire) \in Seq(Message)
           /\ Head(c.wire)[1] = "update" => Head(c.wire)[2] \in UpdateID
           /\ Head(c.wire)[1] \in {"reply", "error"} => Head(c.wire)[2] \in RequestID
           /\ Head(c.wire)[1] \in {"update", "reply", "error", "permission", "long"}
<1>1. c.wire \in Seq(Message)
  BY DEF Peer
<1>2. Tail(c.wire) \in Seq(Message) /\ Head(c.wire) \in Message
  BY <1>1
<1> QED BY <1>2 DEF Message

LEMMA ReadType == ASSUME NEW c \in Peer, CanRead(c) PROVE Read(c) \in Peer
<1>1. ReadEnd(c) \in Peer
  BY DEF ReadEnd, Peer
<1>2. CASE c.wire = <<>>
  BY <1>1, <1>2 DEF Read
<1>3. CASE c.wire # <<>>
  <2> DEFINE n == Head(c.wire)[2]
  <2>1. CASE Head(c.wire)[1] = "update"
    <3>1. n \in UpdateID /\ n \in 0 .. MaxUpdates /\ Tail(c.wire) \in Seq(Message)
      BY <1>3, <2>1, HeadType, PeerAssumption DEF UpdateID
    <3>2. Append(c.notes, n) \in Seq(UpdateID)
      BY <3>1 DEF Peer
    <3>3. ReadUpdate(c) \in Peer
      BY <3>1, <3>2 DEF ReadUpdate, Peer
    <3> QED BY <1>3, <2>1, <3>3 DEF Read
  <2>2. CASE Head(c.wire)[1] = "reply"
    <3>1. n \in RequestID /\ Tail(c.wire) \in Seq(Message)
      BY <1>3, <2>2, HeadType
    <3>2. ReadReply(c) \in Peer
      BY <3>1 DEF ReadReply, Peer
    <3> QED BY <1>3, <2>2, <3>2 DEF Read
  <2>3. CASE Head(c.wire)[1] = "error"
    <3>1. n \in RequestID /\ Tail(c.wire) \in Seq(Message)
      BY <1>3, <2>3, HeadType
    <3>2. ReadError(c) \in Peer
      BY <3>1 DEF ReadError, Peer
    <3> QED BY <1>3, <2>3, <3>2 DEF Read
  <2>4. CASE Head(c.wire)[1] = "permission"
    <3>1. Tail(c.wire) \in Seq(Message)
      BY <1>3, HeadType
    <3>2. ReadPermission(c) \in Peer
      BY <3>1 DEF ReadPermission, Peer
    <3> QED BY <1>3, <2>4, <3>2 DEF Read
  <2>5. CASE Head(c.wire)[1] = "long"
    BY <1>1, <1>3, <2>5 DEF Read
  <2> QED BY <1>3, <2>1, <2>2, <2>3, <2>4, <2>5, HeadType
<1> QED BY <1>2, <1>3

LEMMA TellType ==
    ASSUME NEW c \in Peer, NEW kind, NEW n, <<kind, n>> \in Message
    PROVE  Tell(c, kind, n) \in Peer
<1>1. Append(c.wire, <<kind, n>>) \in Seq(Message)
  BY DEF Peer
<1> QED BY <1>1 DEF Tell, Peer

LEMMA BehaveType == ASSUME NEW c \in Peer, NEW d \in Behaves(c) PROVE d \in Peer
<1>1. CASE d \in Answers(c)
  <2>1. PICK id \in c.asked :
            d = [Tell(c, "reply", id) EXCEPT !.asked = @ \ {id}, !.session = @ \/ id >= 2]
    BY <1>1 DEF Answers
  <2>2. <<"reply", id>> \in Message
    BY DEF Peer, Message
  <2>3. Tell(c, "reply", id) \in Peer
    BY <2>2, TellType
  <2> QED BY <2>1, <2>3 DEF Peer
<1>2. CASE d \in Errors(c)
  <2>1. PICK id \in c.asked : d = [Tell(c, "error", id) EXCEPT !.asked = @ \ {id}]
    BY <1>2 DEF Errors
  <2>2. <<"error", id>> \in Message
    BY DEF Peer, Message
  <2>3. Tell(c, "error", id) \in Peer
    BY <2>2, TellType
  <2> QED BY <2>1, <2>3 DEF Peer
<1>3. CASE d \in Updates(c)
  <2>1. PICK n \in {c.told + 1} :
            n <= MaxUpdates /\ d = [Tell(c, "update", n) EXCEPT !.told = n]
    BY <1>3 DEF Updates
  <2>2. n \in UpdateID /\ n \in 0 .. MaxUpdates
    BY <2>1, PeerAssumption DEF Peer, UpdateID
  <2>3. <<"update", n>> \in Message
    BY <2>2 DEF Message
  <2>4. Tell(c, "update", n) \in Peer
    BY <2>3, TellType
  <2> QED BY <2>1, <2>2, <2>4 DEF Peer
<1>4. CASE d \in Asks(c)
  <2>1. PICK k \in Extras : d = [Tell(c, k, 0) EXCEPT !.waiting = (k = "permission")]
    BY <1>4 DEF Asks
  <2>2. <<k, 0>> \in Message
    BY PeerAssumption DEF Message
  <2>3. Tell(c, k, 0) \in Peer
    BY <2>2, TellType
  <2> QED BY <2>1, <2>3 DEF Peer
<1> QED BY <1>1, <1>2, <1>3, <1>4 DEF Behaves

-----------------------------------------------------------------------------
(* The order of the updates.                                               *)

\* The updates on the wire are those the process has written and read has not
\* seen, in the order of their numbers.
Ordered(c) ==
    /\ c.read <= c.told
    /\ c.dropped \subseteq 1 .. c.read
    /\ \A i \in 1 .. Len(c.wire) : c.wire[i][1] = "update" =>
          c.read < c.wire[i][2] /\ c.wire[i][2] <= c.told
    /\ \A i, j \in 1 .. Len(c.wire) :
          i < j /\ c.wire[i][1] = "update" /\ c.wire[j][1] = "update"
              => c.wire[i][2] < c.wire[j][2]
    /\ \A n \in c.read + 1 .. c.told :
          \E i \in 1 .. Len(c.wire) : c.wire[i][1] = "update" /\ c.wire[i][2] = n

\* A sequence of updates that has every update read has seen and not dropped,
\* once and in order.
Whole(s, c) ==
    /\ \A i, j \in 1 .. Len(s) : i < j => s[i] < s[j]
    /\ {s[i] : i \in 1 .. Len(s)} = (1 .. c.read) \ c.dropped

\* What an operation of a peer does to the updates: nothing, or read has seen
\* the next one and passed it on or dropped it.
SameUpdates(c, d) == d.notes = c.notes /\ d.read = c.read /\ d.dropped = c.dropped
NextUpdate(c, d) ==
    /\ d.read = c.read + 1
    /\ \/ d.notes = Append(c.notes, d.read) /\ d.dropped = c.dropped
       \/ d.notes = c.notes /\ d.dropped = c.dropped \cup {d.read}
Follows(c, d) == Ordered(d) /\ (SameUpdates(c, d) \/ NextUpdate(c, d))

\* A new peer has no updates.
LEMMA SpawnOrder == Ordered(NoPeer) /\ Ordered(Spawned)
<1>1. 1 .. 0 = {}
  OBVIOUS
<1>2. Ordered(NoPeer)
  BY <1>1 DEF NoPeer, Ordered
<1> QED BY <1>1, <1>2 DEF Spawned, NoPeer, Ordered

\* The operations that leave the updates alone.
LEMMA QuietOrder ==
    ASSUME NEW c \in Peer, Ordered(c)
    PROVE  /\ Follows(c, Request(c))
           /\ Follows(c, Close(c))
           /\ Follows(c, Exit(c))
           /\ Follows(c, ReadEnd(c))
           /\ Ordered(TakeNote(c)) /\ TakeNote(c).read = c.read /\ TakeNote(c).dropped = c.dropped
           /\ TakeNote(c).notes = Tail(c.notes)
<1>1. ASSUME NEW d, d.wire = c.wire, d.told = c.told, d.read = c.read, d.dropped = c.dropped
      PROVE  Ordered(d)
  BY <1>1 DEF Ordered
<1>2. Follows(c, Request(c))
  <2>1. SameUpdates(c, Request(c)) /\ Request(c).wire = c.wire /\ Request(c).told = c.told
    BY DEF Request, Peer, SameUpdates
  <2> QED BY <1>1, <2>1 DEF Follows, SameUpdates
<1>3. Follows(c, Close(c))
  <2>1. SameUpdates(c, Close(c)) /\ Close(c).wire = c.wire /\ Close(c).told = c.told
    BY DEF Close, Peer, SameUpdates
  <2> QED BY <1>1, <2>1 DEF Follows, SameUpdates
<1>4. Follows(c, Exit(c))
  <2>1. SameUpdates(c, Exit(c)) /\ Exit(c).wire = c.wire /\ Exit(c).told = c.told
    BY DEF Exit, Peer, SameUpdates
  <2> QED BY <1>1, <2>1 DEF Follows, SameUpdates
<1>5. Follows(c, ReadEnd(c))
  <2>1. SameUpdates(c, ReadEnd(c)) /\ ReadEnd(c).wire = c.wire /\ ReadEnd(c).told = c.told
    BY DEF ReadEnd, Peer, SameUpdates
  <2> QED BY <1>1, <2>1 DEF Follows, SameUpdates
<1>6. /\ Ordered(TakeNote(c)) /\ TakeNote(c).read = c.read /\ TakeNote(c).dropped = c.dropped
      /\ TakeNote(c).notes = Tail(c.notes)
  <2>1. /\ TakeNote(c).wire = c.wire /\ TakeNote(c).told = c.told
        /\ TakeNote(c).read = c.read /\ TakeNote(c).dropped = c.dropped
        /\ TakeNote(c).notes = Tail(c.notes)
    BY DEF TakeNote, Peer
  <2> QED BY <1>1, <2>1
<1> QED BY <1>2, <1>3, <1>4, <1>5, <1>6

\* A message that is not an update leaves the wire in order ...
LEMMA TailOrder ==
    ASSUME NEW c \in Peer, Ordered(c), c.wire # <<>>, Head(c.wire)[1] # "update",
           NEW d, d.wire = Tail(c.wire), d.told = c.told, d.read = c.read, d.dropped = c.dropped
    PROVE  Ordered(d)
<1>1. /\ c.wire \in Seq(Message) /\ Len(c.wire) \in Nat /\ c.read \in Nat /\ c.told \in Nat
  BY PeerAssumption DEF Peer
<1>2. /\ Len(d.wire) = Len(c.wire) - 1 /\ Head(c.wire) = c.wire[1]
      /\ \A i \in 1 .. Len(d.wire) : d.wire[i] = c.wire[i + 1] /\ i + 1 \in 1 .. Len(c.wire)
      /\ \A i \in 1 .. Len(c.wire) : i # 1 => i - 1 \in 1 .. Len(d.wire) /\ d.wire[i - 1] = c.wire[i]
  BY <1>1
<1>3. \A i \in 1 .. Len(d.wire) : d.wire[i][1] = "update" =>
          d.read < d.wire[i][2] /\ d.wire[i][2] <= d.told
  BY <1>2 DEF Ordered
<1>4. \A i, j \in 1 .. Len(d.wire) :
          i < j /\ d.wire[i][1] = "update" /\ d.wire[j][1] = "update"
              => d.wire[i][2] < d.wire[j][2]
  BY <1>1, <1>2 DEF Ordered
<1>5. ASSUME NEW n \in d.read + 1 .. d.told
      PROVE  \E i \in 1 .. Len(d.wire) : d.wire[i][1] = "update" /\ d.wire[i][2] = n
  <2>1. PICK i \in 1 .. Len(c.wire) : c.wire[i][1] = "update" /\ c.wire[i][2] = n
    BY DEF Ordered
  <2>2. i # 1
    BY <1>2, <2>1
  <2> QED BY <1>2, <2>1, <2>2
<1> QED BY <1>3, <1>4, <1>5 DEF Ordered

\* ... and an update at its head is the one read expects.
LEMMA UpdateOrder ==
    ASSUME NEW c \in Peer, Ordered(c), c.wire # <<>>, Head(c.wire)[1] = "update",
           NEW d, d.wire = Tail(c.wire), d.told = c.told, d.read = Head(c.wire)[2],
           d.dropped \subseteq c.dropped \cup {d.read}
    PROVE  Ordered(d) /\ d.read = c.read + 1
<1>1. /\ c.wire \in Seq(Message) /\ Len(c.wire) \in Nat /\ c.read \in Nat /\ c.told \in Nat
      /\ d.read \in Nat
  BY HeadType, PeerAssumption DEF Peer, UpdateID
<1>2. /\ Len(d.wire) = Len(c.wire) - 1 /\ Head(c.wire) = c.wire[1] /\ 1 \in 1 .. Len(c.wire)
      /\ \A i \in 1 .. Len(d.wire) : d.wire[i] = c.wire[i + 1] /\ i + 1 \in 1 .. Len(c.wire)
      /\ \A i \in 1 .. Len(c.wire) : i # 1 => i - 1 \in 1 .. Len(d.wire) /\ d.wire[i - 1] = c.wire[i]
  BY <1>1
<1>3. c.read < d.read /\ d.read <= c.told
  BY <1>2 DEF Ordered
<1>4. d.read = c.read + 1
  <2> SUFFICES ASSUME d.read # c.read + 1 PROVE FALSE
    OBVIOUS
  <2>1. c.read + 1 \in c.read + 1 .. c.told /\ c.read + 1 < d.read
    BY <1>1, <1>3
  <2>2. PICK i \in 1 .. Len(c.wire) : c.wire[i][1] = "update" /\ c.wire[i][2] = c.read + 1
    BY <2>1 DEF Ordered
  <2>3. i # 1
    BY <1>2, <2>1, <2>2
  <2>4. c.wire[1][2] < c.wire[i][2]
    BY <1>1, <1>2, <2>2, <2>3 DEF Ordered
  <2> QED BY <1>1, <1>2, <2>1, <2>2, <2>4
<1>5. ASSUME NEW i \in 1 .. Len(d.wire), d.wire[i][1] = "update"
      PROVE  d.read < d.wire[i][2] /\ d.wire[i][2] <= d.told
  <2>1. i + 1 \in 1 .. Len(c.wire) /\ d.wire[i] = c.wire[i + 1] /\ 1 < i + 1
    BY <1>2
  <2> QED BY <1>2, <1>5, <2>1 DEF Ordered
<1>6. \A i, j \in 1 .. Len(d.wire) :
          i < j /\ d.wire[i][1] = "update" /\ d.wire[j][1] = "update"
              => d.wire[i][2] < d.wire[j][2]
  BY <1>1, <1>2 DEF Ordered
<1>7. ASSUME NEW n \in d.read + 1 .. d.told
      PROVE  \E i \in 1 .. Len(d.wire) : d.wire[i][1] = "update" /\ d.wire[i][2] = n
  <2>1. n \in c.read + 1 .. c.told /\ n # d.read
    BY <1>1, <1>4
  <2>2. PICK i \in 1 .. Len(c.wire) : c.wire[i][1] = "update" /\ c.wire[i][2] = n
    BY <2>1 DEF Ordered
  <2>3. i # 1
    BY <1>2, <2>1, <2>2
  <2> QED BY <1>2, <2>2, <2>3
<1>8. d.dropped \subseteq 1 .. d.read
  <2>1. c.dropped \subseteq 1 .. c.read /\ c.read \in Nat
    BY <1>1 DEF Ordered
  <2>2. 1 .. d.read = (1 .. c.read) \cup {d.read}
    BY <1>4, <2>1
  <2>3. d.dropped \subseteq c.dropped \cup {d.read}
    OBVIOUS
  <2> QED BY <2>1, <2>2, <2>3
<1>9. d.read <= d.told
  BY <1>3
<1> QED BY <1>4, <1>5, <1>6, <1>7, <1>8, <1>9 DEF Ordered

\* read takes the messages in their order.
LEMMA ReadOrder == ASSUME NEW c \in Peer, Ordered(c), CanRead(c) PROVE Follows(c, Read(c))
<1>1. Follows(c, ReadEnd(c))
  BY QuietOrder
<1>2. CASE c.wire = <<>>
  BY <1>1, <1>2 DEF Read
<1>3. CASE c.wire # <<>>
  <2>1. CASE Head(c.wire)[1] = "update"
    <3> DEFINE d == ReadUpdate(c)
    <3>1. Read(c) = d
      BY <1>3, <2>1 DEF Read
    <3>2. /\ d.wire = Tail(c.wire) /\ d.told = c.told /\ d.read = Head(c.wire)[2]
          /\ \/ d.notes = Append(c.notes, d.read) /\ d.dropped = c.dropped
             \/ d.notes = c.notes /\ d.dropped = c.dropped \cup {d.read}
      BY DEF ReadUpdate, Peer
    <3>3. d.dropped \subseteq c.dropped \cup {d.read}
      BY <3>2
    <3> HIDE DEF d
    <3>4. Ordered(d) /\ d.read = c.read + 1
      BY <1>3, <2>1, <3>2, <3>3, UpdateOrder
    <3> QED BY <3>1, <3>2, <3>4 DEF Follows, NextUpdate
  <2>2. CASE Head(c.wire)[1] = "long"
    BY <1>1, <1>3, <2>2 DEF Read
  <2>3. ASSUME NEW d, d.wire = Tail(c.wire), d.told = c.told, SameUpdates(c, d),
               Head(c.wire)[1] # "update"
        PROVE  Follows(c, d)
    BY <1>3, <2>3, TailOrder DEF Follows, SameUpdates
  <2>4. CASE Head(c.wire)[1] = "reply"
    <3>1. Read(c) = ReadReply(c)
      BY <1>3, <2>4 DEF Read
    <3>2. /\ ReadReply(c).wire = Tail(c.wire) /\ ReadReply(c).told = c.told
          /\ SameUpdates(c, ReadReply(c))
      BY DEF ReadReply, Peer, SameUpdates
    <3> QED BY <2>3, <2>4, <3>1, <3>2
  <2>5. CASE Head(c.wire)[1] = "error"
    <3>1. Read(c) = ReadError(c)
      BY <1>3, <2>5 DEF Read
    <3>2. /\ ReadError(c).wire = Tail(c.wire) /\ ReadError(c).told = c.told
          /\ SameUpdates(c, ReadError(c))
      BY DEF ReadError, Peer, SameUpdates
    <3> QED BY <2>3, <2>5, <3>1, <3>2
  <2>6. CASE Head(c.wire)[1] = "permission"
    <3>1. Read(c) = ReadPermission(c)
      BY <1>3, <2>6 DEF Read
    <3>2. /\ ReadPermission(c).wire = Tail(c.wire) /\ ReadPermission(c).told = c.told
          /\ SameUpdates(c, ReadPermission(c))
      BY DEF ReadPermission, Peer, SameUpdates
    <3> QED BY <2>3, <2>6, <3>1, <3>2
  <2> QED BY <1>3, <2>1, <2>2, <2>4, <2>5, <2>6, HeadType
<1> QED BY <1>2, <1>3

\* What the process writes keeps the order, an update with the next number too.
LEMMA TellOrder ==
    ASSUME NEW c \in Peer, Ordered(c), NEW kind, NEW n, <<kind, n>> \in Message,
           NEW d, d.wire = Append(c.wire, <<kind, n>>), d.read = c.read, d.dropped = c.dropped,
           \/ kind # "update" /\ d.told = c.told
           \/ kind = "update" /\ n = c.told + 1 /\ d.told = n
    PROVE  Ordered(d)
<1>1. /\ c.wire \in Seq(Message) /\ Len(c.wire) \in Nat /\ c.read \in Nat /\ c.told \in Nat
  BY PeerAssumption DEF Peer
<1>2. /\ Len(d.wire) = Len(c.wire) + 1
      /\ \A i \in 1 .. Len(c.wire) : d.wire[i] = c.wire[i] /\ i \in 1 .. Len(d.wire)
      /\ d.wire[Len(d.wire)] = <<kind, n>> /\ Len(d.wire) \in 1 .. Len(d.wire)
      /\ \A i \in 1 .. Len(d.wire) : i = Len(d.wire) \/ i \in 1 .. Len(c.wire)
  BY <1>1
<1>3. <<kind, n>>[1] = kind /\ <<kind, n>>[2] = n
  OBVIOUS
<1>4. d.told \in Nat /\ c.told <= d.told /\ c.read <= c.told
  BY <1>1 DEF Ordered
<1>5. ASSUME NEW i \in 1 .. Len(d.wire), d.wire[i][1] = "update"
      PROVE  d.read < d.wire[i][2] /\ d.wire[i][2] <= d.told
  <2>1. CASE i = Len(d.wire)
    BY <1>1, <1>2, <1>3, <1>4, <1>5, <2>1
  <2>2. CASE i \in 1 .. Len(c.wire)
    <3>1. c.wire[i] = d.wire[i] /\ c.read < c.wire[i][2] /\ c.wire[i][2] <= c.told
      BY <1>2, <1>5, <2>2 DEF Ordered
    <3>2. c.wire[i] \in Message /\ c.wire[i][1] = "update"
      BY <1>1, <1>5, <2>2, <3>1
    <3>3. c.wire[i][2] \in Nat
      BY <3>2, PeerAssumption DEF Message, UpdateID
    <3> QED BY <1>1, <1>4, <3>1, <3>3
  <2> QED BY <1>2, <2>1, <2>2
<1>6. ASSUME NEW i \in 1 .. Len(d.wire), NEW j \in 1 .. Len(d.wire), i < j,
             d.wire[i][1] = "update", d.wire[j][1] = "update"
      PROVE  d.wire[i][2] < d.wire[j][2]
  <2>1. i \in 1 .. Len(c.wire)
    BY <1>1, <1>2, <1>6
  <2>2. c.wire[i] = d.wire[i] /\ c.wire[i][2] <= c.told
    BY <1>2, <1>6, <2>1 DEF Ordered
  <2>3. CASE j = Len(d.wire)
    <3>1. c.wire[i] \in Message /\ c.wire[i][1] = "update"
      BY <1>1, <1>6, <2>1, <2>2
    <3>2. c.wire[i][2] \in Nat
      BY <3>1, PeerAssumption DEF Message, UpdateID
    <3>3. d.wire[j][2] = c.told + 1
      BY <1>2, <1>3, <1>6, <2>3
    <3> QED BY <1>1, <2>2, <3>2, <3>3
  <2>4. CASE j \in 1 .. Len(c.wire)
    BY <1>2, <1>6, <2>1, <2>2, <2>4 DEF Ordered
  <2> QED BY <1>2, <2>3, <2>4
<1>7. ASSUME NEW m \in d.read + 1 .. d.told
      PROVE  \E i \in 1 .. Len(d.wire) : d.wire[i][1] = "update" /\ d.wire[i][2] = m
  <2>1. CASE m \in c.read + 1 .. c.told
    <3>1. PICK i \in 1 .. Len(c.wire) : c.wire[i][1] = "update" /\ c.wire[i][2] = m
      BY <2>1 DEF Ordered
    <3> QED BY <1>2, <3>1
  <2>2. CASE m \notin c.read + 1 .. c.told
    <3>1. kind = "update" /\ n = m
      BY <1>1, <2>2
    <3> QED BY <1>2, <1>3, <3>1
  <2> QED BY <2>1, <2>2
<1>8. d.read <= d.told /\ d.dropped \subseteq 1 .. d.read
  BY <1>1, <1>4 DEF Ordered
<1> QED BY <1>5, <1>6, <1>7, <1>8 DEF Ordered

\* The process writes in order, whatever it does.
LEMMA BehaveOrder ==
    ASSUME NEW c \in Peer, Ordered(c), NEW d \in Behaves(c)
    PROVE  Follows(c, d)
<1>1. CASE d \in Answers(c)
  <2>1. PICK id \in c.asked :
            d = [Tell(c, "reply", id) EXCEPT !.asked = @ \ {id}, !.session = @ \/ id >= 2]
    BY <1>1 DEF Answers
  <2>2. <<"reply", id>> \in Message
    BY DEF Peer, Message
  <2>3. d.wire = Append(c.wire, <<"reply", id>>) /\ d.told = c.told /\ SameUpdates(c, d)
    BY <2>1 DEF Tell, Peer, SameUpdates
  <2> QED BY <2>2, <2>3, TellOrder DEF Follows, SameUpdates
<1>2. CASE d \in Errors(c)
  <2>1. PICK id \in c.asked : d = [Tell(c, "error", id) EXCEPT !.asked = @ \ {id}]
    BY <1>2 DEF Errors
  <2>2. <<"error", id>> \in Message
    BY DEF Peer, Message
  <2>3. d.wire = Append(c.wire, <<"error", id>>) /\ d.told = c.told /\ SameUpdates(c, d)
    BY <2>1 DEF Tell, Peer, SameUpdates
  <2> QED BY <2>2, <2>3, TellOrder DEF Follows, SameUpdates
<1>3. CASE d \in Updates(c)
  <2>1. PICK n \in {c.told + 1} :
            n <= MaxUpdates /\ d = [Tell(c, "update", n) EXCEPT !.told = n]
    BY <1>3 DEF Updates
  <2>2. n \in UpdateID /\ n = c.told + 1
    BY <2>1, PeerAssumption DEF Peer, UpdateID
  <2>3. <<"update", n>> \in Message
    BY <2>2 DEF Message
  <2>4. d.wire = Append(c.wire, <<"update", n>>) /\ d.told = n /\ SameUpdates(c, d)
    BY <2>1 DEF Tell, Peer, SameUpdates
  <2> QED BY <2>2, <2>3, <2>4, TellOrder DEF Follows, SameUpdates
<1>4. CASE d \in Asks(c)
  <2>1. PICK k \in Extras : d = [Tell(c, k, 0) EXCEPT !.waiting = (k = "permission")]
    BY <1>4 DEF Asks
  <2>2. <<k, 0>> \in Message /\ k # "update"
    BY PeerAssumption DEF Message
  <2>3. d.wire = Append(c.wire, <<k, 0>>) /\ d.told = c.told /\ SameUpdates(c, d)
    BY <2>1 DEF Tell, Peer, SameUpdates
  <2> QED BY <2>2, <2>3, TellOrder DEF Follows, SameUpdates
<1> QED BY <1>1, <1>2, <1>3, <1>4 DEF Behaves

\* What is whole stays so when read goes on.
LEMMA WholeFollows ==
    ASSUME NEW c \in Peer, NEW d \in Peer, Ordered(c), Follows(c, d),
           NEW s \in Seq(UpdateID), Whole(s \o c.notes, c)
    PROVE  Whole(s \o d.notes, d)
<1>1. CASE SameUpdates(c, d)
  BY <1>1 DEF SameUpdates, Whole
<1>2. CASE NextUpdate(c, d)
  <2> DEFINE w == s \o c.notes
             n == c.read + 1
  <2>1. /\ c.notes \in Seq(UpdateID) /\ c.read \in Nat /\ d.read \in Nat
        /\ w \in Seq(UpdateID) /\ Len(w) \in Nat
    BY PeerAssumption DEF Peer
  <2>2. n \in UpdateID /\ d.read = n
    BY <1>2, <2>1, PeerAssumption DEF NextUpdate, Peer, UpdateID
  <2>3. \A i \in 1 .. Len(w) : w[i] \in 1 .. c.read
    BY DEF Whole
  <2>4. c.dropped \subseteq 1 .. c.read
    BY DEF Ordered
  <2>5. CASE d.notes = c.notes /\ d.dropped = c.dropped \cup {d.read}
    <3>1. (1 .. d.read) \ d.dropped = (1 .. c.read) \ c.dropped
      BY <2>1, <2>2, <2>5
    <3> QED BY <2>5, <3>1 DEF Whole
  <2>6. CASE d.notes = Append(c.notes, d.read) /\ d.dropped = c.dropped
    <3> DEFINE v == Append(w, n)
    <3>1. s \o d.notes = v
      BY <2>1, <2>2, <2>6, AppendIsConcat, ConcatAssociative
    <3>2. /\ v \in Seq(UpdateID) /\ Len(v) = Len(w) + 1 /\ v[Len(w) + 1] = n
          /\ \A i \in 1 .. Len(w) : v[i] = w[i]
      BY <2>1, <2>2, AppendProperties
    <3> HIDE DEF v, w, n
    <3>3. ASSUME NEW i \in 1 .. Len(v), NEW j \in 1 .. Len(v), i < j
          PROVE  v[i] < v[j]
      <4>1. i \in 1 .. Len(w)
        BY <2>1, <3>2, <3>3
      <4>2. CASE j \in 1 .. Len(w)
        <5>1. w[i] < w[j]
          BY <3>3, <4>1, <4>2 DEF Whole, w
        <5> QED BY <3>2, <4>1, <4>2, <5>1
      <4>3. CASE j = Len(w) + 1
        <5>1. v[j] = n /\ v[i] \in 1 .. c.read
          BY <2>3, <3>2, <4>1, <4>3
        <5> QED BY <2>1, <5>1 DEF n
      <4> QED BY <2>1, <3>2, <4>2, <4>3
    <3>4. {v[i] : i \in 1 .. Len(v)} = {w[i] : i \in 1 .. Len(w)} \cup {n}
      <4>1. 1 .. Len(v) = (1 .. Len(w)) \cup {Len(w) + 1}
        BY <2>1, <3>2
      <4> QED BY <3>2, <4>1
    <3>5. (1 .. d.read) \ d.dropped = ((1 .. c.read) \ c.dropped) \cup {n}
      BY <2>1, <2>2, <2>4, <2>6 DEF n
    <3>6. {w[i] : i \in 1 .. Len(w)} = (1 .. c.read) \ c.dropped
      BY DEF Whole, w
    <3> QED BY <3>1, <3>3, <3>4, <3>5, <3>6 DEF Whole
  <2> QED BY <1>2, <2>5, <2>6 DEF NextUpdate
<1> QED BY <1>1, <1>2 DEF Follows

=============================================================================
