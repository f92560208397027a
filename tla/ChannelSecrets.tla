--------------------------- MODULE ChannelSecrets ---------------------------
(***************************************************************************)
(* One secret name in the channels of Collaboration: sealed values in      *)
(* memory over rows.  A write changes memory first and the row after it,   *)
(* and a delete that had found a value in memory ignores a row that stays. *)
(***************************************************************************)
EXTENDS Collaboration

CONSTANTS Secrets       \* values; sealing and opening one gives it back

SecretRequest ==
    [op : {"secret"}, at : {"row"}, channel : Items, value : Secrets \cup {Nothing}, found : BOOLEAN]

ASSUME SecretAssumption == Nothing \notin Secrets /\ Nothing \notin SecretRequest

VARIABLES
    secretMem, secretRow,   \* the value of each channel, or Nothing
    settled,        \* history: what the last write of each channel was answered to have left
    doubtful        \* history: channels whose writes overlapped or met an error since

secretVars == <<secretMem, secretRow, settled, doubtful>>

SecretInit == secretMem = NoItems /\ secretRow = NoItems /\ settled = NoItems /\ doubtful = {}

MayWrite(u, c) == Channel(c) # Nothing /\ CanWrite(Home, u)

Writing(c) == {p \in Callers : call[p] # Nothing /\ call[p].op = "secret" /\ call[p].channel = c}

\* Set stores the value in memory; a Delete takes it out and remembers whether
\* there was one.  A write without company takes its channel out of doubt.
WriteSecret(p, u, c, value) ==
    /\ MayWrite(u, c)
    /\ Begins(p, [op |-> "secret", at |-> "row", channel |-> c, value |-> value,
                  found |-> secretMem[c] # Nothing])
    /\ secretMem' = [secretMem EXCEPT ![c] = value]
    /\ doubtful' = IF Writing(c) = {} THEN doubtful \ {c} ELSE doubtful \cup {c}
    /\ UNCHANGED <<secretRow, settled>>

SetSecret(p, u, c) == \E v \in Secrets : WriteSecret(p, u, c, v)
DeleteSecret(p, u, c) == WriteSecret(p, u, c, Nothing)

\* The statement, and what the request is then answered to have left.
Writes(c) ==
    /\ secretRow' = [secretRow EXCEPT ![c.channel] = c.value]
    /\ settled' = [settled EXCEPT ![c.channel] = c.value]

SetRow(p) ==
    /\ At(p, "secret", "row") /\ call[p].value # Nothing
    /\ Returns(p)
    /\ \/ /\ chanRow[call[p].channel] # Nothing
          /\ Writes(call[p])
          /\ UNCHANGED doubtful
       \/ doubtful' = doubtful \cup {call[p].channel} /\ UNCHANGED <<secretRow, settled>>
    /\ UNCHANGED secretMem

DeleteRow(p) ==
    /\ At(p, "secret", "row") /\ call[p].value = Nothing
    /\ Returns(p)
    /\ LET c == call[p].channel IN
       \/ secretRow[c] # Nothing /\ Writes(call[p]) /\ UNCHANGED doubtful
       \/ /\ call[p].found
          /\ settled' = [settled EXCEPT ![c] = Nothing]
          /\ doubtful' = doubtful \cup {c}
          /\ UNCHANGED secretRow
       \/ /\ ~call[p].found
          /\ doubtful' = IF secretRow[c] = Nothing THEN doubtful ELSE doubtful \cup {c}
          /\ UNCHANGED <<secretRow, settled>>
    /\ UNCHANGED secretMem

\* Resolve and List look into memory and the row, of the channel and then of its
\* parents: the nearest channel that has the secret is its source.
HeldInMemory(c) == secretMem[c]
Held(c) == IF secretMem[c] # Nothing THEN secretMem[c] ELSE secretRow[c]

Parent(c) == IF c = Nothing \/ Channel(c) = Nothing THEN Nothing ELSE Channel(c).parent

Line(c) == LET line[d \in 0 .. MaxRequests] == IF d = 0 THEN c ELSE Parent(line[d - 1]) IN line

Source(c) ==
    LET line == Line(c)
        holders == {d \in 0 .. MaxRequests : line[d] # Nothing /\ Held(line[d]) # Nothing}
    IN IF holders = {} THEN Nothing ELSE line[CHOOSE d \in holders : \A e \in holders : d <= e]

Resolve(c) == IF Source(c) = Nothing THEN Nothing ELSE Held(Source(c))

SecretRestart ==
    /\ secretMem' = NoItems
    /\ doubtful' = doubtful \cup {c \in Items : Writing(c) # {}}
    /\ UNCHANGED <<secretRow, settled>>

SecretNext ==
    \E p \in Callers :
        \/ \E u \in Users, c \in Items : SetSecret(p, u, c) \/ DeleteSecret(p, u, c)
        \/ SetRow(p) \/ DeleteRow(p)

---------------------------------------------------------------------------
\* What a write was answered to have left is what the channel holds when no
\* other write of it is under way, before and after a restart, ...
Certain(c) == c \notin doubtful /\ Writing(c) = {}
OwnSecretsSettle == \A c \in Items : Certain(c) => Held(c) = settled[c]

\* ... and what a child resolves as long as it has none of its own.
ChildrenInherit ==
    \A c \in Items :
        LET parent == Parent(c) IN
        parent # Nothing /\ Certain(c) /\ Certain(parent) /\ settled[c] = Nothing
            => Resolve(c) = Resolve(parent)

\* A secret is what its last write was answered to have left, for the channel
\* and for its children, also after a failed write elsewhere and a restart.
SecretsSettle == OwnSecretsSettle /\ ChildrenInherit
=============================================================================
