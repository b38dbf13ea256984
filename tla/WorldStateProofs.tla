-------------------------- MODULE WorldStateProofs --------------------------
(***************************************************************************)
(* That the packets of a world state stay inside a buffer in use and carry *)
(* everything but what their receiver has sent, for any number of clients. *)
(*                                                                         *)
(* The chunks in a buffer are in the order of slots, so the position of a  *)
(* chunk is the number of senders up to its own: a strictly increasing,    *)
(* therefore injective and, counting, surjective map from the senders to   *)
(* the places of the buffer.  The window behind a chunk in the doubled     *)
(* buffer meets every other place once.                                    *)
(***************************************************************************)
EXTENDS WorldState, FiniteSetTheorems, TLAPS

\* Nothing an earlier client in a slot has left is there once a client is in it.
Unmixed ==
    \A c \in Cns, ch \in Channels :
        /\ slot[c].is = "connected" => slot[c].data[ch] = "none"
        /\ slot[c].is = "authed" => slot[c].data[ch] # "old"

WorldInv == WorldTypeOK /\ IsFiniteSet(packets) /\ Unmixed /\ BuffersInUse /\ EverybodyElse

-----------------------------------------------------------------------------
(* Positions and windows.                                                  *)

LEMMA FiniteSenders ==
    ASSUME NEW ch \in Channels
    PROVE  /\ Senders(ch) \subseteq Cns /\ Senders(ch) \subseteq Nat
           /\ IsFiniteSet(Senders(ch)) /\ Cardinality(Senders(ch)) \in Nat
<1>1. Senders(ch) \in SUBSET Cns /\ IsFiniteSet(Cns) /\ Cns \subseteq Nat
    BY CnsAssumption DEF Senders, Receivers
<1>2. IsFiniteSet(Senders(ch))
    BY <1>1, FS_Subset
<1> QED BY <1>1, <1>2, FS_CardinalityType

\* The chunk of a higher slot is further back.
LEMMA PositionsGrow ==
    ASSUME NEW ch \in Channels
    PROVE  /\ \A c \in Senders(ch) : Position(c, ch) \in 1..Cardinality(Senders(ch))
           /\ \A c, d \in Senders(ch) : c < d => Position(c, ch) < Position(d, ch)
<1> DEFINE UpTo(c) == {d \in Senders(ch) : d <= c}
<1>1. Senders(ch) \subseteq Nat /\ IsFiniteSet(Senders(ch))
    BY FiniteSenders
<1>2. ASSUME NEW c \in Senders(ch)
      PROVE  /\ IsFiniteSet(UpTo(c)) /\ Cardinality(UpTo(c)) \in Nat
             /\ Cardinality(UpTo(c)) <= Cardinality(Senders(ch))
    <2>1. UpTo(c) \in SUBSET Senders(ch)
        OBVIOUS
    <2> HIDE DEF UpTo
    <2> QED BY <2>1, <1>1, FS_Subset, FS_CardinalityType
<1>3. ASSUME NEW c \in Senders(ch) PROVE Cardinality(UpTo(c)) # 0
    <2>1. c \in UpTo(c)
        BY <1>1
    <2> HIDE DEF UpTo
    <2> QED BY <2>1, <1>2, FS_EmptySet
<1>4. ASSUME NEW c \in Senders(ch), NEW d \in Senders(ch), c < d
      PROVE  Cardinality(UpTo(c)) < Cardinality(UpTo(d))
    <2>1. UpTo(c) \in SUBSET UpTo(d) /\ d \in UpTo(d) /\ d \notin UpTo(c)
        BY <1>1, <1>4
    <2> HIDE DEF UpTo
    <2>2. Cardinality(UpTo(c)) <= Cardinality(UpTo(d)) /\ Cardinality(UpTo(d)) # Cardinality(UpTo(c))
        BY <2>1, <1>2, FS_Subset
    <2> QED BY <2>2, <1>2
<1>5. \A c : Position(c, ch) = Cardinality(UpTo(c))
    BY DEF Position
<1> HIDE DEF UpTo
<1>6. Cardinality(Senders(ch)) \in Nat
    BY <1>1, FS_CardinalityType
<1> QED BY <1>2, <1>3, <1>4, <1>5, <1>6

\* Every place of the buffer is the position of one sender.
LEMMA EveryPlaceIsTaken ==
    ASSUME NEW ch \in Channels
    PROVE  /\ \A c, d \in Senders(ch) : Position(c, ch) = Position(d, ch) => c = d
           /\ \A i \in 1..Cardinality(Senders(ch)) : \E c \in Senders(ch) : Position(c, ch) = i
<1> DEFINE n == Cardinality(Senders(ch))
           pos == [c \in Senders(ch) |-> Position(c, ch)]
<1>1. Senders(ch) \subseteq Nat /\ IsFiniteSet(Senders(ch)) /\ n \in Nat
    BY FiniteSenders
<1>2. \A c \in Senders(ch) : Position(c, ch) \in 1..n
    BY PositionsGrow
<1>3. \A c, d \in Senders(ch) : Position(c, ch) = Position(d, ch) => c = d
    <2> SUFFICES ASSUME NEW c \in Senders(ch), NEW d \in Senders(ch), Position(c, ch) = Position(d, ch), c # d
                 PROVE  FALSE
        OBVIOUS
    <2>1. c < d \/ d < c
        BY <1>1
    <2>2. Position(c, ch) < Position(d, ch) \/ Position(d, ch) < Position(c, ch)
        BY <2>1, PositionsGrow
    <2> QED BY <2>2, <1>2, <1>1
<1>4. pos \in Injection(Senders(ch), 1..n)
    BY <1>2, <1>3 DEF Injection, IsInjective
<1>5. IsFiniteSet(1..n) /\ Cardinality(1..n) = n
    BY <1>1, FS_Interval
<1>6. pos \in Surjection(Senders(ch), 1..n)
    BY <1>4, <1>5, FS_Injection
<1>7. \A i \in 1..n : \E c \in Senders(ch) : pos[c] = i
    BY <1>6 DEF Surjection
<1> QED BY <1>3, <1>7

LEMMA GatheredInOrder ==
    ASSUME Unmixed, NEW ch \in Channels
    PROVE  /\ Gathered(ch) \in Seq(Chunks) /\ Len(Gathered(ch)) = Cardinality(Senders(ch))
           /\ \A c \in Senders(ch) : Gathered(ch)[Position(c, ch)] = [from |-> c, old |-> FALSE]
<1> DEFINE n == Cardinality(Senders(ch))
           At(i) == CHOOSE d \in Senders(ch) : Position(d, ch) = i
<1>1. n \in Nat /\ Senders(ch) \subseteq Cns
    BY FiniteSenders
<1>2. \A i \in 1..n : At(i) \in Senders(ch) /\ Position(At(i), ch) = i
    BY EveryPlaceIsTaken
<1>3. \A c \in Senders(ch) : slot[c].data[ch] # "old"
    BY <1>1 DEF Unmixed, Senders, Receivers
<1>4. Gathered(ch) = [i \in 1..n |-> [from |-> At(i), old |-> slot[At(i)].data[ch] = "old"]]
    BY DEF Gathered
<1> HIDE DEF n, At
<1>5. \A i \in 1..n : Gathered(ch)[i] = [from |-> At(i), old |-> FALSE]
    <2>1. \A i \in 1..n : (slot[At(i)].data[ch] = "old") = FALSE
        BY <1>2, <1>3
    <2> QED BY <1>4, <2>1
<1>6. \A i \in 1..n : Gathered(ch)[i] \in Chunks
    <2>1. ASSUME NEW c \in Cns PROVE [from |-> c, old |-> FALSE] \in Chunks
        BY Zenon DEF Chunks
    <2>2. \A i \in 1..n : At(i) \in Cns
        BY <1>1, <1>2
    <2> QED BY <2>1, <2>2, <1>5
<1>7. Gathered(ch) \in [1..n -> Chunks]
    BY <1>4, <1>6
<1>8. Gathered(ch) \in Seq(Chunks) /\ Len(Gathered(ch)) = n
    BY <1>1, <1>7
<1>9. ASSUME NEW c \in Senders(ch) PROVE Gathered(ch)[Position(c, ch)] = [from |-> c, old |-> FALSE]
    <2>1. Position(c, ch) \in 1..n
        BY PositionsGrow DEF n
    <2>2. At(Position(c, ch)) = c
        BY <1>2, <2>1, EveryPlaceIsTaken
    <2> QED BY <1>5, <2>1, <2>2
<1> QED BY <1>8, <1>9 DEF n

\* The window behind place k of a buffer that is written twice has every other place in it, once.
LEMMA WindowBehind ==
    ASSUME NEW s \in Seq(Chunks), NEW k \in 1..Len(s)
    PROVE  LET window == SubSeq(Doubled(s), k + 1, k + (Len(s) - 1))
           IN /\ Len(Doubled(s)) = 2 * Len(s)
              /\ Len(window) = Len(s) - 1
              /\ ToSet(window) = {s[i] : i \in 1..Len(s) \ {k}}
<1> DEFINE n == Len(s)
           window == SubSeq(Doubled(s), k + 1, k + (n - 1))
<1>1. n \in Nat /\ k \in 1..n /\ s \in [1..n -> Chunks]
    OBVIOUS
<1>2. /\ Doubled(s) \in Seq(Chunks) /\ Len(Doubled(s)) = n + n
      /\ \A i \in 1..n + n : Doubled(s)[i] = IF i <= n THEN s[i] ELSE s[i - n]
    BY DEF Doubled
<1> HIDE DEF n
<1>3. /\ Len(window) = n - 1
      /\ \A i \in 1..n - 1 : window[i] = Doubled(s)[k + i]
      /\ DOMAIN window = 1..n - 1
    BY <1>1, <1>2
<1>4. ASSUME NEW i \in 1..n - 1
      PROVE  /\ k + i <= n => window[i] = s[k + i]
             /\ ~(k + i <= n) => window[i] = s[(k + i) - n]
    <2> DEFINE j == k + i
    <2>1. j \in 1..n + n
        BY <1>1
    <2>2. window[i] = Doubled(s)[j]
        BY <1>3
    <2> HIDE DEF j, window
    <2>3. /\ j <= n => window[i] = s[j]
          /\ ~(j <= n) => window[i] = s[j - n]
        BY <1>2, <2>1, <2>2
    <2> QED BY <2>3 DEF j
<1>5. ASSUME NEW i \in 1..n - 1 PROVE window[i] \in {s[j] : j \in 1..n \ {k}}
    <2>1. CASE k + i <= n
        <3>1. k + i \in 1..n \ {k}
            BY <1>1, <2>1
        <3> QED BY <1>4, <2>1, <3>1
    <2>2. CASE k + i > n
        <3>1. (k + i) - n \in 1..n \ {k} /\ ~(k + i <= n)
            BY <1>1, <2>2
        <3> QED BY <1>4, <3>1
    <2>3. k + i <= n \/ k + i > n
        BY <1>1
    <2> QED BY <2>1, <2>2, <2>3, Zenon
<1>6. ASSUME NEW j \in 1..n \ {k} PROVE \E i \in 1..n - 1 : window[i] = s[j]
    <2>1. CASE j > k
        <3>1. j - k \in 1..n - 1 /\ k + (j - k) = j /\ j <= n
            BY <1>1, <2>1
        <3> QED BY <1>4, <3>1
    <2>2. CASE j < k
        <3>1. (j - k) + n \in 1..n - 1 /\ (k + ((j - k) + n)) - n = j /\ ~(k + ((j - k) + n) <= n)
            BY <1>1, <2>2
        <3> QED BY <1>4, <3>1
    <2>3. j > k \/ j < k
        BY <1>1
    <2> QED BY <2>1, <2>2, <2>3, Zenon
<1>7. ToSet(window) = {s[j] : j \in 1..n \ {k}}
    <2>1. ToSet(window) = {window[i] : i \in 1..n - 1}
        BY <1>3 DEF ToSet
    <2> HIDE DEF window
    <2> QED BY <2>1, <1>5, <1>6
<1>8. n + n = 2 * n
    BY <1>1
<1> QED BY <1>2, <1>3, <1>7, <1>8, Zenon DEF n

\* And the window of the whole buffer has all of it.
LEMMA WindowOfAll ==
    ASSUME NEW s \in Seq(Chunks)
    PROVE  LET window == SubSeq(Doubled(s), 0 + 1, 0 + Len(s))
           IN /\ Len(window) = Len(s) /\ Len(Doubled(s)) = 2 * Len(s)
              /\ ToSet(window) = {s[i] : i \in 1..Len(s)}
<1> DEFINE window == SubSeq(Doubled(s), 0 + 1, 0 + Len(s))
<1>1. Len(s) \in Nat
    OBVIOUS
<1>2. /\ Doubled(s) \in Seq(Chunks) /\ Len(Doubled(s)) = Len(s) + Len(s)
      /\ \A i \in 1..Len(s) : Doubled(s)[i] = s[i]
    BY DEF Doubled
<1>3. Len(window) = Len(s) /\ DOMAIN window = 1..Len(s) /\ \A i \in 1..Len(s) : window[i] = s[i]
    BY <1>1, <1>2
<1> HIDE DEF window
<1>4. ToSet(window) = {s[i] : i \in 1..Len(s)}
    BY <1>3 DEF ToSet
<1> QED BY <1>1, <1>2, <1>3, <1>4 DEF window

\* What a new packet points to, and that it is everything but what its receiver has sent.
LEMMA NewWindow ==
    ASSUME Unmixed, NEW c \in Cns, NEW ch \in Channels, Gets(c, ch)
    PROVE  LET w == WindowOf(c, ch)
               content == SubSeq(Doubled(Gathered(ch)), w.offset + 1, w.offset + w.length)
           IN /\ w.offset \in Nat /\ w.length \in Nat
              /\ w.offset + w.length <= 2 * Len(Gathered(ch))
              /\ Len(content) = Cardinality(Senders(ch) \ {c})
              /\ ToSet(content) = {[from |-> d, old |-> FALSE] : d \in Senders(ch) \ {c}}
<1> DEFINE s == Gathered(ch)
           n == Cardinality(Senders(ch))
           w == WindowOf(c, ch)
           content == SubSeq(Doubled(s), w.offset + 1, w.offset + w.length)
<1>1. /\ s \in Seq(Chunks) /\ Len(s) = n
      /\ \A d \in Senders(ch) : s[Position(d, ch)] = [from |-> d, old |-> FALSE]
    BY GatheredInOrder
<1>2. n \in Nat /\ IsFiniteSet(Senders(ch))
    BY FiniteSenders
<1>3. /\ \A d \in Senders(ch) : Position(d, ch) \in 1..n
      /\ \A d, e \in Senders(ch) : Position(d, ch) = Position(e, ch) => d = e
      /\ \A i \in 1..n : \E d \in Senders(ch) : Position(d, ch) = i
    BY PositionsGrow, EveryPlaceIsTaken
<1>4. Cardinality(Senders(ch) \ {c}) = IF c \in Senders(ch) THEN n - 1 ELSE n
    BY <1>2, FS_RemoveElement
<1> HIDE DEF s, n
<1>5. CASE c \in Senders(ch)
    <2> DEFINE k == Position(c, ch)
    <2>1. k \in 1..n /\ w.offset = k /\ w.length = n - 1
        BY <1>3, <1>5 DEF WindowOf, n
    <2>2. content = SubSeq(Doubled(s), k + 1, k + (Len(s) - 1))
        BY <2>1, <1>1
    <2> HIDE DEF k, content, w
    <2>3. Len(content) = n - 1 /\ ToSet(content) = {s[i] : i \in 1..n \ {k}}
        BY <2>1, <2>2, <1>1, WindowBehind
    <2>4. {s[i] : i \in 1..n \ {k}} = {[from |-> d, old |-> FALSE] : d \in Senders(ch) \ {c}}
        <3>1. ASSUME NEW i \in 1..n \ {k}
              PROVE  \E d \in Senders(ch) \ {c} : s[i] = [from |-> d, old |-> FALSE]
            BY <1>1, <1>3 DEF k
        <3>2. ASSUME NEW d \in Senders(ch) \ {c}
              PROVE  \E i \in 1..n \ {k} : s[i] = [from |-> d, old |-> FALSE]
            <4>1. Position(d, ch) \in 1..n \ {k}
                BY <1>3, <1>5 DEF k
            <4> QED BY <4>1, <1>1
        <3> QED BY <3>1, <3>2
    <2>5. k \in Nat /\ n - 1 \in Nat /\ k + (n - 1) <= 2 * n
        BY <2>1, <1>2
    <2>6. w.offset \in Nat /\ w.length \in Nat /\ w.offset + w.length <= 2 * Len(s)
        BY <2>1, <2>5, <1>1
    <2>7. /\ Len(content) = Cardinality(Senders(ch) \ {c})
          /\ ToSet(content) = {[from |-> d, old |-> FALSE] : d \in Senders(ch) \ {c}}
        BY <2>3, <2>4, <1>4, <1>5
    <2> QED BY <2>6, <2>7 DEF s, w, content
<1>6. CASE c \notin Senders(ch)
    <2>1. w.offset = 0 /\ w.length = n
        BY <1>6 DEF WindowOf, n
    <2>2. content = SubSeq(Doubled(s), 0 + 1, 0 + Len(s))
        BY <2>1, <1>1
    <2> HIDE DEF content, w
    <2>3. Len(content) = n /\ ToSet(content) = {s[i] : i \in 1..n}
        BY <2>2, <1>1, WindowOfAll
    <2>4. {s[i] : i \in 1..n} = {[from |-> d, old |-> FALSE] : d \in Senders(ch) \ {c}}
        <3>1. ASSUME NEW i \in 1..n
              PROVE  \E d \in Senders(ch) \ {c} : s[i] = [from |-> d, old |-> FALSE]
            BY <1>1, <1>3, <1>6
        <3>2. ASSUME NEW d \in Senders(ch) \ {c}
              PROVE  \E i \in 1..n : s[i] = [from |-> d, old |-> FALSE]
            BY <1>1, <1>3
        <3> QED BY <3>1, <3>2
    <2>5. w.offset \in Nat /\ w.length \in Nat /\ w.offset + w.length <= 2 * Len(s)
        BY <2>1, <1>1, <1>2
    <2>6. /\ Len(content) = Cardinality(Senders(ch) \ {c})
          /\ ToSet(content) = {[from |-> d, old |-> FALSE] : d \in Senders(ch) \ {c}}
        BY <2>3, <2>4, <1>4, <1>6
    <2> QED BY <2>5, <2>6 DEF s, w, content
<1> QED BY <1>5, <1>6

-----------------------------------------------------------------------------
(* Packets that are destroyed.                                             *)

\* What a packet needs of its world state.
PacketOK(p) ==
    /\ p.ws \in DOMAIN worldstates
    /\ p.offset + p.length <= 2 * Len(worldstates[p.ws][p.chan])
    /\ Len(Content(p)) = Cardinality(p.others)
    /\ ToSet(Content(p)) = {[from |-> c, old |-> FALSE] : c \in p.others}
Of(id) == {p \in packets : p.ws = id}
Counted(id) == worldstates[id].uses = Cardinality(Of(id))

LEMMA PacketsOK == (BuffersInUse /\ EverybodyElse) <=>
                     /\ \A p \in packets : PacketOK(p)
                     /\ \A j \in DOMAIN worldstates : Counted(j)
BY Zenon DEF BuffersInUse, EverybodyElse, PacketOK, Counted, Of

LEMMA PacketsOKNext ==
    (\A p \in packets : PacketOK(p))' /\ (\A j \in DOMAIN worldstates : Counted(j))'
        => BuffersInUse' /\ EverybodyElse'
BY PacketsOK, PTL

\* cleanworldstate frees a world state with its last packet, not before and not later.
LEMMA Cleaning ==
    ASSUME WorldInv, NEW ps \in SUBSET packets, Destroyed(ps)
    PROVE  /\ BuffersInUse' /\ EverybodyElse' /\ IsFiniteSet(packets')
           /\ DOMAIN worldstates' \subseteq 1..MaxStates /\ packets' \subseteq Packets
           /\ \A id \in DOMAIN worldstates' : worldstates'[id] \in
                   [uses : Nat \ {0}, positions : Seq(Chunks), messages : Seq(Chunks)]
<1> DEFINE Gone(id) == {p \in ps : p.ws = id}
           Left(id) == worldstates[id].uses - Cardinality(Gone(id))
<1>1. /\ worldstates' = [id \in {i \in DOMAIN worldstates : Left(i) > 0} |->
                             [worldstates[id] EXCEPT !.uses = Left(id)]]
      /\ packets' = packets \ ps
    BY DEF Destroyed, Cleaned
<1>2. /\ IsFiniteSet(packets) /\ packets \subseteq Packets /\ DOMAIN worldstates \subseteq 1..MaxStates
      /\ \A id \in DOMAIN worldstates : worldstates[id] \in
             [uses : Nat \ {0}, positions : Seq(Chunks), messages : Seq(Chunks)]
      /\ \A p \in packets : PacketOK(p)
      /\ \A id \in DOMAIN worldstates : Counted(id)
    BY PacketsOK DEF WorldInv, WorldTypeOK
<1>3. IsFiniteSet(packets') /\ packets' \subseteq packets
    BY <1>1, <1>2, FS_Subset
<1>4. ASSUME NEW id \in DOMAIN worldstates
      PROVE  Left(id) = Cardinality(Of(id)') /\ Left(id) \in Nat /\ IsFiniteSet(Of(id)')
    <2>1. Of(id) \in SUBSET packets /\ IsFiniteSet(Of(id)) /\ Cardinality(Of(id)) \in Nat
        <3>1. Of(id) \in SUBSET packets
            BY DEF Of
        <3> QED BY <3>1, <1>2, FS_Subset, FS_CardinalityType
    <2>2. Gone(id) = Of(id) \cap ps /\ Of(id)' = Of(id) \ ps
        BY <1>1 DEF Of
    <2> HIDE DEF Gone
    <2>3. IsFiniteSet(Of(id)') /\ Cardinality(Of(id)') = Cardinality(Of(id)) - Cardinality(Gone(id))
        BY <2>1, <2>2, FS_Difference
    <2>4. Cardinality(Of(id)') \in Nat
        BY <2>3, FS_CardinalityType
    <2>5. worldstates[id].uses = Cardinality(Of(id))
        BY <1>2 DEF Counted
    <2> QED BY <2>3, <2>4, <2>5
<1> HIDE DEF Left
<1>5. ASSUME NEW id \in DOMAIN worldstates'
      PROVE  /\ id \in DOMAIN worldstates /\ Left(id) > 0
             /\ worldstates'[id] = [worldstates[id] EXCEPT !.uses = Left(id)]
             /\ worldstates'[id] \in
                   [uses : Nat \ {0}, positions : Seq(Chunks), messages : Seq(Chunks)]
             /\ \A ch \in Channels : worldstates'[id][ch] = worldstates[id][ch]
             /\ Counted(id)'
    <2>1. /\ id \in DOMAIN worldstates /\ Left(id) > 0
          /\ worldstates'[id] = [worldstates[id] EXCEPT !.uses = Left(id)]
        BY <1>1
    <2>2. worldstates[id] \in [uses : Nat \ {0}, positions : Seq(Chunks), messages : Seq(Chunks)]
        BY <2>1, <1>2
    <2>3. Left(id) \in Nat \ {0} /\ Left(id) = Cardinality(Of(id)')
        BY <2>1, <1>4
    <2>4. worldstates'[id] \in [uses : Nat \ {0}, positions : Seq(Chunks), messages : Seq(Chunks)]
          /\ worldstates'[id].uses = Left(id)
          /\ worldstates'[id].positions = worldstates[id].positions
          /\ worldstates'[id].messages = worldstates[id].messages
        BY <2>1, <2>2, <2>3
    <2>5. \A ch \in Channels : worldstates'[id][ch] = worldstates[id][ch]
        BY <2>4 DEF Channels
    <2>6. Counted(id)'
        BY <2>3, <2>4 DEF Counted
    <2> QED BY <2>1, <2>4, <2>5, <2>6
<1>6. ASSUME NEW p \in packets' PROVE PacketOK(p)'
    <2>1. p \in packets /\ PacketOK(p) /\ p.chan \in Channels
        BY <1>2, <1>3 DEF Packets
    <2>2. p.ws \in DOMAIN worldstates /\ p \in Of(p.ws)'
        BY <2>1 DEF PacketOK, Of
    <2>3. Left(p.ws) > 0
        <3>1. Cardinality(Of(p.ws)') # 0
            BY <2>2, <1>4, FS_EmptySet
        <3> QED BY <3>1, <2>2, <1>4
    <2>4. p.ws \in DOMAIN worldstates'
        BY <2>2, <2>3, <1>1
    <2>5. worldstates'[p.ws][p.chan] = worldstates[p.ws][p.chan]
        BY <2>1, <2>4, <1>5
    <2>6. Content(p)' = Content(p)
        BY <2>5 DEF Content
    <2> QED BY <2>1, <2>4, <2>5, <2>6 DEF PacketOK
<1>7. BuffersInUse' /\ EverybodyElse'
    <2>1. (\A p \in packets : PacketOK(p))' /\ (\A j \in DOMAIN worldstates : Counted(j))'
        BY <1>5, <1>6
    <2> QED BY <2>1, PacketsOKNext
<1> QED BY <1>2, <1>3, <1>5, <1>7

-----------------------------------------------------------------------------
(* Each step keeps the invariant.                                          *)

SlotsOK ==
    /\ slot \in [Cns -> SlotStates] /\ Unmixed
    /\ \A c \in Cns : slot[c].is = "empty" => ~slot[c].gone
BuffersOK ==
    /\ packets \subseteq Packets /\ IsFiniteSet(packets)
    /\ DOMAIN worldstates \subseteq 1..MaxStates
    /\ \A id \in DOMAIN worldstates : worldstates[id] \in
          [uses : Nat \ {0}, positions : Seq(Chunks), messages : Seq(Chunks)]
    /\ BuffersInUse /\ EverybodyElse

LEMMA TwoParts == WorldInv <=> SlotsOK /\ BuffersOK
BY Zenon DEF WorldInv, WorldTypeOK, SlotsOK, BuffersOK

LEMMA BuffersStay == BuffersOK /\ UNCHANGED <<worldstates, packets>> => BuffersOK'
BY DEF BuffersOK, BuffersInUse, EverybodyElse, Content

LEMMA SlotsStay == SlotsOK /\ UNCHANGED slot => SlotsOK'
BY DEF SlotsOK, Unmixed

LEMMA PacketsGo == ASSUME WorldInv, NEW ps \in SUBSET packets, Destroyed(ps) PROVE BuffersOK'
BY Cleaning DEF BuffersOK

\* A slot that becomes what st says, while the others stay.
LEMMA OneSlot ==
    ASSUME SlotsOK, NEW c \in Cns, NEW st \in SlotStates, slot' = [slot EXCEPT ![c] = st],
           st.is = "empty" => ~st.gone,
           st.is = "connected" => \A ch \in Channels : st.data[ch] = "none",
           st.is = "authed" => \A ch \in Channels : st.data[ch] # "old"
    PROVE  SlotsOK'
<1>1. slot' \in [Cns -> SlotStates]
    BY DEF SlotsOK
<1>2. \A d \in Cns : slot'[d] = IF d = c THEN st ELSE slot[d]
    BY DEF SlotsOK
<1> QED BY <1>1, <1>2 DEF SlotsOK, Unmixed

LEMMA Arriving == ASSUME SlotsOK, NEW c \in Cns, Arrives(c) PROVE SlotsOK'
<1> DEFINE st == [is |-> "connected", data |-> NoData(slot[c].data), gone |-> FALSE]
<1>1. slot' = [slot EXCEPT ![c] = st]
    BY DEF Arrives, SlotsOK
<1>2. NoData(slot[c].data) \in SlotData /\ \A ch \in Channels : NoData(slot[c].data)[ch] = "none"
    BY DEF NoData, SlotData
<1>3. st \in SlotStates
    BY <1>2, Zenon DEF SlotStates
<1> QED BY <1>1, <1>2, <1>3, OneSlot

LEMMA Authenticating == ASSUME SlotsOK, NEW c \in Cns, Authenticates(c) PROVE SlotsOK'
<1> DEFINE st == [slot[c] EXCEPT !.is = "authed"]
<1>1. slot[c] \in SlotStates /\ slot[c].is = "connected" /\ slot' = [slot EXCEPT ![c] = st]
    BY DEF Authenticates, SlotsOK
<1>2. st \in SlotStates /\ st.is = "authed" /\ st.data = slot[c].data
    BY <1>1 DEF SlotStates
<1>3. \A ch \in Channels : slot[c].data[ch] = "none"
    BY <1>1 DEF SlotsOK, Unmixed
<1> QED BY <1>1, <1>2, <1>3, OneSlot

\* Sends and Dies: one channel of a client that is in becomes v.
LEMMA DataChanging ==
    ASSUME SlotsOK, NEW c \in Cns, slot[c].is = "authed", NEW v \in {"none", "own"}, NEW ch \in Channels,
           slot' = [slot EXCEPT ![c].data[ch] = v]
    PROVE  SlotsOK'
<1> DEFINE st == [slot[c] EXCEPT !.data[ch] = v]
<1>1. slot[c] \in SlotStates /\ slot' = [slot EXCEPT ![c] = st]
    BY DEF SlotsOK
<1>2. slot[c].data \in SlotData
    BY <1>1 DEF SlotStates
<1>3. [slot[c].data EXCEPT ![ch] = v] \in SlotData
    BY <1>2 DEF SlotData
<1>4. st \in SlotStates /\ st.is = "authed" /\ st.data = [slot[c].data EXCEPT ![ch] = v]
    BY <1>1, <1>3 DEF SlotStates
<1>5. \A o \in Channels : slot[c].data[o] # "old"
    BY DEF SlotsOK, Unmixed
<1>6. \A o \in Channels : st.data[o] # "old"
    BY <1>2, <1>4, <1>5 DEF SlotData
<1> QED BY <1>1, <1>4, <1>6, OneSlot

LEMMA GoingAway == ASSUME SlotsOK, NEW c \in Cns, PeerGone(c) PROVE SlotsOK'
<1> DEFINE st == [slot[c] EXCEPT !.gone = TRUE]
<1>1. slot[c] \in SlotStates /\ slot[c].is # "empty" /\ slot' = [slot EXCEPT ![c] = st]
    BY DEF PeerGone, SlotsOK
<1>2. st \in SlotStates /\ st.is = slot[c].is /\ st.data = slot[c].data
    BY <1>1 DEF SlotStates
<1> QED BY <1>1, <1>2, OneSlot DEF SlotsOK, Unmixed

LEMMA Leaving == ASSUME SlotsOK, NEW c \in Cns, Leaves(c) PROVE SlotsOK'
<1> DEFINE data == [ch \in Channels |-> IF slot[c].data[ch] = "none" THEN "none" ELSE "old"]
           st == [is |-> "empty", gone |-> FALSE, data |-> data]
<1>1. slot' = [slot EXCEPT ![c] = st]
    BY DEF Leaves, SlotsOK
<1>2. data \in SlotData
    BY DEF SlotData
<1> HIDE DEF data
<1>3. st \in SlotStates
    BY <1>2, Zenon DEF SlotStates
<1> QED BY <1>1, <1>3, OneSlot

-----------------------------------------------------------------------------
(* The next world state.                                                   *)

LEMMA FiniteMail == IsFiniteSet(Mail) /\ Uses \in Nat /\ (Uses = 0 <=> Mail = {})
<1>1. IsFiniteSet(Cns \X Channels)
    <2>1. IsFiniteSet({"positions"}) /\ IsFiniteSet({"messages"})
        BY FS_Singleton
    <2>2. Channels = {"positions"} \cup {"messages"}
        BY DEF Channels
    <2>3. IsFiniteSet(Channels)
        BY <2>1, <2>2, FS_Union
    <2> QED BY <2>3, CnsAssumption, FS_Product
<1>2. Mail \in SUBSET (Cns \X Channels)
    BY DEF Mail
<1> QED BY <1>1, <1>2, FS_Subset, FS_CardinalityType, FS_EmptySet DEF Uses

LEMMA BuildsSlots == ASSUME SlotsOK, Build PROVE SlotsOK'
<1>1. slot' = [c \in Cns |-> IF c \in Receivers
                                THEN [slot[c] EXCEPT !.data = [ch \in Channels |-> "none"]]
                                ELSE slot[c]]
    BY DEF Build
<1>2. [ch \in Channels |-> "none"] \in SlotData
    BY DEF SlotData
<1>3. ASSUME NEW c \in Cns
      PROVE  /\ slot'[c] \in SlotStates /\ slot'[c].is = slot[c].is /\ slot'[c].gone = slot[c].gone
             /\ \A ch \in Channels : slot'[c].data[ch] \in {"none", slot[c].data[ch]}
    <2>1. slot[c] \in SlotStates
        BY DEF SlotsOK
    <2> QED BY <1>1, <1>2, <2>1 DEF SlotStates
<1>4. slot' \in [Cns -> SlotStates]
    BY <1>1, <1>3
<1> QED BY <1>3, <1>4 DEF SlotsOK, Unmixed

\* A world state with an id that is not in use, for the packets that ENet takes.
LEMMA BuildsBuffers ==
    ASSUME WorldInv, Build
    PROVE  /\ BuffersOK'
           /\ \E id \in 1..MaxStates :
                /\ id \notin DOMAIN worldstates
                /\ \A x \in Mail : Packet(id, x[1], x[2]) \in packets' \ packets
<1>1. PICK id \in 1..MaxStates :
        /\ id \notin DOMAIN worldstates
        /\ worldstates' = [j \in DOMAIN worldstates \cup (IF Uses = 0 THEN {} ELSE {id}) |->
               IF j = id THEN [uses |-> Uses, positions |-> Gathered("positions"),
                               messages |-> Gathered("messages")]
               ELSE worldstates[j]]
        /\ packets' = packets \cup {Packet(id, x[1], x[2]) : x \in Mail}
    BY DEF Build
<1> DEFINE new == {Packet(id, x[1], x[2]) : x \in Mail}
<1>2. /\ packets \subseteq Packets /\ IsFiniteSet(packets) /\ Unmixed
      /\ DOMAIN worldstates \subseteq 1..MaxStates
      /\ \A j \in DOMAIN worldstates : worldstates[j] \in
             [uses : Nat \ {0}, positions : Seq(Chunks), messages : Seq(Chunks)]
      /\ \A p \in packets : PacketOK(p)
      /\ \A j \in DOMAIN worldstates : Counted(j)
    BY PacketsOK DEF WorldInv, WorldTypeOK
<1>3. \A p \in packets : p.ws # id
    BY <1>1, <1>2 DEF PacketOK
<1>4. ASSUME NEW x \in Mail
      PROVE  /\ x[1] \in Cns /\ x[2] \in Channels /\ Gets(x[1], x[2]) /\ x = <<x[1], x[2]>>
             /\ Packet(id, x[1], x[2]) \in Packets
             /\ Packet(id, x[1], x[2]).ws = id
             /\ Packet(id, x[1], x[2]).to = x[1] /\ Packet(id, x[1], x[2]).chan = x[2]
    <2>1. x[1] \in Cns /\ x[2] \in Channels /\ Gets(x[1], x[2]) /\ x = <<x[1], x[2]>>
        BY DEF Mail
    <2>2. WindowOf(x[1], x[2]).offset \in Nat /\ WindowOf(x[1], x[2]).length \in Nat
        BY <2>1, <1>2, NewWindow
    <2>3. Senders(x[2]) \ {x[1]} \subseteq Cns
        BY DEF Senders, Receivers
    <2> QED BY <2>1, <2>2, <2>3 DEF Packet, Packets
<1>5. IsFiniteSet(new) /\ Cardinality(new) = Cardinality(Mail)
    <2> DEFINE f == [x \in Mail |-> Packet(id, x[1], x[2])]
    <2>1. f \in Bijection(Mail, new)
        <3>1. f \in [Mail -> new] /\ \A y \in new : \E x \in Mail : f[x] = y
            OBVIOUS
        <3>2. ASSUME NEW x \in Mail, NEW y \in Mail, f[x] = f[y] PROVE x = y
            BY <3>2, <1>4
        <3> QED BY <3>1, <3>2 DEF Bijection, Injection, IsInjective, Surjection
    <2>2. ExistsBijection(Mail, new)
        BY <2>1 DEF ExistsBijection
    <2> QED BY <2>2, FiniteMail, FS_Bijection
<1>6. \A x \in Mail : Packet(id, x[1], x[2]) \in packets' \ packets
    BY <1>1, <1>3, <1>4
<1>7. packets' \subseteq Packets /\ IsFiniteSet(packets')
    BY <1>1, <1>2, <1>4, <1>5, FS_Union
<1>8. DOMAIN worldstates' \subseteq 1..MaxStates
    BY <1>1, <1>2
<1>9. ASSUME NEW j \in DOMAIN worldstates, NEW S, S = Of(j)'
      PROVE  j \in DOMAIN worldstates' /\ worldstates'[j] = worldstates[j] /\ S = Of(j)
    <2>1. j # id /\ j \in DOMAIN worldstates' /\ worldstates'[j] = worldstates[j]
        BY <1>1
    <2>2. Of(j)' = Of(j)
        BY <2>1, <1>1, <1>4 DEF Of
    <2> QED BY <2>1, <2>2, <1>9
<1>10. ASSUME Uses # 0
       PROVE  /\ id \in DOMAIN worldstates' /\ worldstates'[id].uses = Uses
              /\ \A ch \in Channels : worldstates'[id][ch] = Gathered(ch)
              /\ worldstates'[id] \in
                    [uses : Nat \ {0}, positions : Seq(Chunks), messages : Seq(Chunks)]
              /\ Of(id)' = new
    <2>1. id \in DOMAIN worldstates'
          /\ worldstates'[id] = [uses |-> Uses, positions |-> Gathered("positions"),
                                 messages |-> Gathered("messages")]
        BY <1>1, <1>10
    <2>2. Gathered("positions") \in Seq(Chunks) /\ Gathered("messages") \in Seq(Chunks)
        BY <1>2, GatheredInOrder DEF Channels
    <2>3. Of(id)' = new
        BY <1>1, <1>3, <1>4 DEF Of
    <2>4. \A ch \in Channels : worldstates'[id][ch] = Gathered(ch)
        BY <2>1 DEF Channels
    <2> QED BY <2>1, <2>2, <2>3, <2>4, <1>10, FiniteMail
<1>11. ASSUME NEW j \in DOMAIN worldstates'
       PROVE  /\ worldstates'[j] \in
                    [uses : Nat \ {0}, positions : Seq(Chunks), messages : Seq(Chunks)]
              /\ Counted(j)'
    <2>1. CASE j \in DOMAIN worldstates
        BY <2>1, <1>2, <1>9 DEF Counted
    <2>2. CASE j \notin DOMAIN worldstates
        <3>1. j = id /\ Uses # 0
            BY <2>2, <1>1
        <3> QED BY <3>1, <1>5, <1>10 DEF Counted, Uses
    <2> QED BY <2>1, <2>2
<1>12. ASSUME NEW p \in packets' PROVE PacketOK(p)'
    <2>1. CASE p \in packets
        <3>1. PacketOK(p) /\ p.ws \in DOMAIN worldstates' /\ worldstates'[p.ws] = worldstates[p.ws]
            BY <2>1, <1>2, <1>9 DEF PacketOK
        <3>2. Content(p)' = Content(p)
            BY <3>1 DEF Content
        <3> QED BY <3>1, <3>2 DEF PacketOK
    <2>2. CASE p \in new
        <3>1. PICK x \in Mail : p = Packet(id, x[1], x[2])
            BY <2>2
        <3> DEFINE c == x[1]
                   ch == x[2]
                   w == WindowOf(c, ch)
        <3>2. c \in Cns /\ ch \in Channels /\ Gets(c, ch) /\ Uses # 0
            BY <1>4, FiniteMail
        <3>3. /\ p.ws = id /\ p.chan = ch /\ p.offset = w.offset /\ p.length = w.length
              /\ p.others = Senders(ch) \ {c}
            BY <3>1 DEF Packet
        <3> HIDE DEF c, ch, w
        <3>4. worldstates'[p.ws][p.chan] = Gathered(ch) /\ p.ws \in DOMAIN worldstates'
            BY <3>2, <3>3, <1>10
        <3>5. Content(p)' = SubSeq(Doubled(Gathered(ch)), w.offset + 1, w.offset + w.length)
            BY <3>3, <3>4 DEF Content, Doubled
        <3> QED BY <3>2, <3>3, <3>4, <3>5, <1>2, NewWindow DEF PacketOK, w
    <2> QED BY <2>1, <2>2, <1>1
<1>13. BuffersInUse' /\ EverybodyElse'
    <2>1. (\A p \in packets : PacketOK(p))' /\ (\A j \in DOMAIN worldstates : Counted(j))'
        BY <1>11, <1>12
    <2> QED BY <2>1, PacketsOKNext
<1> QED BY <1>1, <1>6, <1>7, <1>8, <1>11, <1>13 DEF BuffersOK

-----------------------------------------------------------------------------
(* The theorems.                                                           *)

LEMMA WorldBegins == WorldInit => WorldInv
<1> SUFFICES ASSUME WorldInit PROVE WorldInv
    OBVIOUS
<1>1. SlotsOK
    <2>1. [ch \in Channels |-> "none"] \in SlotData
        BY DEF SlotData
    <2>2. [is |-> "empty", data |-> [ch \in Channels |-> "none"], gone |-> FALSE] \in SlotStates
        BY <2>1, Zenon DEF SlotStates
    <2>3. \A c \in Cns : slot[c] = [is |-> "empty", data |-> [ch \in Channels |-> "none"], gone |-> FALSE]
        BY DEF WorldInit
    <2>4. slot \in [Cns -> SlotStates]
        BY <2>2 DEF WorldInit
    <2> QED BY <2>3, <2>4 DEF SlotsOK, Unmixed
<1>2. packets = {} /\ DOMAIN worldstates = {}
    BY DEF WorldInit
<1>3. BuffersOK
    BY <1>2, FS_EmptySet DEF BuffersOK, BuffersInUse, EverybodyElse
<1> QED BY <1>1, <1>3, TwoParts

LEMMA WorldInvariance == WorldInv /\ [WorldNext]_worldVars => WorldInv'
<1> SUFFICES ASSUME WorldInv, [WorldNext]_worldVars PROVE SlotsOK' /\ BuffersOK'
    BY TwoParts, PTL
<1>1. SlotsOK /\ BuffersOK
    BY TwoParts
<1>2. ASSUME NEW c \in Cns, Arrives(c) PROVE SlotsOK' /\ BuffersOK'
    BY <1>1, <1>2, Arriving, BuffersStay DEF Arrives
<1>3. ASSUME NEW c \in Cns, Authenticates(c) PROVE SlotsOK' /\ BuffersOK'
    BY <1>1, <1>3, Authenticating, BuffersStay DEF Authenticates
<1>4. ASSUME NEW c \in Cns, Dies(c) PROVE SlotsOK' /\ BuffersOK'
    <2>1. "positions" \in Channels /\ "none" \in {"none", "own"}
        BY DEF Channels
    <2> QED BY <1>1, <1>4, <2>1, DataChanging, BuffersStay DEF Dies
<1>5. ASSUME NEW c \in Cns, NEW ch \in Channels, Sends(c, ch) PROVE SlotsOK' /\ BuffersOK'
    <2>1. "own" \in {"none", "own"}
        OBVIOUS
    <2> QED BY <1>1, <1>5, <2>1, DataChanging, BuffersStay DEF Sends
<1>6. ASSUME NEW c \in Cns, PeerGone(c) PROVE SlotsOK' /\ BuffersOK'
    <2>1. PacketsTo(c) \in SUBSET packets /\ Destroyed(PacketsTo(c))
        BY <1>6 DEF PeerGone, PacketsTo
    <2> QED BY <1>1, <1>6, <2>1, GoingAway, PacketsGo
<1>7. ASSUME NEW c \in Cns, Leaves(c) PROVE SlotsOK' /\ BuffersOK'
    <2>1. PacketsTo(c) \in SUBSET packets /\ Destroyed(PacketsTo(c))
        BY <1>7 DEF Leaves, PacketsTo
    <2> QED BY <1>1, <1>7, <2>1, Leaving, PacketsGo
<1>8. ASSUME NEW p \in packets, Delivered(p) PROVE SlotsOK' /\ BuffersOK'
    <2>1. {p} \in SUBSET packets /\ Destroyed({p}) /\ UNCHANGED slot
        BY <1>8 DEF Delivered
    <2> QED BY <1>1, <2>1, SlotsStay, PacketsGo
<1>9. CASE Build
    BY <1>1, <1>9, BuildsSlots, BuildsBuffers
<1>10. CASE UNCHANGED worldVars
    BY <1>1, <1>10, SlotsStay, BuffersStay DEF worldVars
<1> QED BY <1>2, <1>3, <1>4, <1>5, <1>6, <1>7, <1>8, <1>9, <1>10 DEF WorldNext

\* Slots, world states and packets keep their types: a world state never counts fewer than one use
\* (cleanworldstate, buildworldstate), and an empty slot has no peer that is gone.
THEOREM WorldTypeCorrect == WorldSpec => []WorldTypeOK
<1>1. WorldInv => WorldTypeOK
    BY DEF WorldInv
<1> QED BY WorldBegins, WorldInvariance, <1>1, PTL DEF WorldSpec

\* No packet points into freed memory or beyond its buffer, and a world state is freed exactly with its
\* last packet, however deliveries and dying connections interleave with building the next one.
THEOREM BuffersStayInUse == WorldSpec => []BuffersInUse
<1>1. WorldInv => BuffersInUse
    BY DEF WorldInv
<1> QED BY WorldBegins, WorldInvariance, <1>1, PTL DEF WorldSpec

\* Everybody is sent what each of the others has sent, once, and nothing of its own or of an earlier
\* client in somebody's slot.
THEOREM EverybodyGetsTheRest == WorldSpec => []EverybodyElse
<1>1. WorldInv => EverybodyElse
    BY DEF WorldInv
<1> QED BY WorldBegins, WorldInvariance, <1>1, PTL DEF WorldSpec

\* What a client has sent is in a packet of the next world state to everybody whose peer is there.
LEMMA BuildReaches ==
    ASSUME WorldInv, WorldInv', Build,
           NEW c \in Cns, NEW d \in Cns, NEW ch \in Channels,
           c \in Senders(ch), d \in Receivers \ {c}, ~slot[d].gone
    PROVE  \E p \in packets' \ packets :
              p.to = d /\ p.chan = ch /\ \E i \in DOMAIN Content(p)' : Content(p)'[i].from = c
<1>1. IsFiniteSet(Senders(ch)) /\ Cardinality(Senders(ch)) \in Nat
    BY FiniteSenders
<1>2. WindowOf(d, ch).length > 0
    <2>1. Cardinality(Senders(ch) \ {d}) # 0
        <3>1. c \in Senders(ch) \ {d} /\ IsFiniteSet(Senders(ch) \ {d})
            BY <1>1, FS_RemoveElement
        <3> QED BY <3>1, FS_EmptySet
    <2>2. Cardinality(Senders(ch) \ {d}) = WindowOf(d, ch).length
        BY <1>1, FS_RemoveElement DEF WindowOf
    <2>3. Cardinality(Senders(ch) \ {d}) \in Nat
        BY <1>1, FS_RemoveElement, FS_CardinalityType
    <2> QED BY <2>1, <2>2, <2>3
<1>3. <<d, ch>> \in Mail
    BY <1>2 DEF Mail, Gets
<1>4. PICK id \in 1..MaxStates : \A x \in Mail : Packet(id, x[1], x[2]) \in packets' \ packets
    BY BuildsBuffers
<1>5. PICK p \in packets' \ packets : p.to = d /\ p.chan = ch /\ p.others = Senders(ch) \ {d}
    BY <1>3, <1>4 DEF Packet
<1>6. ToSet(Content(p)') = {[from |-> e, old |-> FALSE] : e \in p.others}
    BY <1>5 DEF WorldInv, BuffersInUse, EverybodyElse, ToSet
<1>7. [from |-> c, old |-> FALSE] \in ToSet(Content(p)')
    BY <1>5, <1>6
<1>8. PICK i \in DOMAIN Content(p)' : Content(p)'[i] = [from |-> c, old |-> FALSE]
    BY <1>7 DEF ToSet
<1> QED BY <1>5, <1>8

\* Nothing that a client has sent is lost on its way to a client whose peer is there.
THEOREM NothingGetsLost == WorldSpec => NothingLost
<1> DEFINE Reaches ==
      Build => \A c, d \in Cns, ch \in Channels :
          c \in Senders(ch) /\ d \in Receivers \ {c} /\ ~slot[d].gone =>
             \E p \in packets' \ packets :
                p.to = d /\ p.chan = ch /\ \E i \in DOMAIN Content(p)' : Content(p)'[i].from = c
<1>1. WorldInv /\ WorldInv' => Reaches
    BY BuildReaches
<1>2. WorldInv /\ [WorldNext]_worldVars => [Reaches]_worldVars
    BY <1>1, WorldInvariance
<1> QED BY WorldBegins, WorldInvariance, <1>2, PTL DEF WorldSpec, NothingLost
=============================================================================
