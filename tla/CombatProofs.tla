---------------------------- MODULE CombatProofs ----------------------------
(***************************************************************************)
(* That hits stay behind their events and harm only the life they were     *)
(* aimed at, and that no grenade explodes more often than it was thrown,   *)
(* for any number of clients and any lengths of queues and lists.          *)
(*                                                                         *)
(* What makes it inductive: an event has at most MaxHits hits behind it;   *)
(* a hit on a slot that was not reset names a life that is not ahead of    *)
(* the slot's, and is behind it once the target was spawned again; a list  *)
(* of grenades has a number no more often than it is in the air; and while *)
(* the hits of an event are looked at the event stays at the head of its   *)
(* queue, even when its owner is kicked or a game starts.                  *)
(***************************************************************************)
EXTENDS MCCombat, Loops

Things == Events \cup Hits
Lives == [Clients -> -1..MaxLife]

\* e is the event of hit h, or another hit of the same.
Behind(e, h) == IF e.type = "HIT" THEN e.of = h.of ELSE e.type = h.of

HitsBehind(q) == \A i \in DOMAIN q : q[i].type = "HIT" => i > 1 /\ Behind(q[i - 1], q[i])
RunsEnd(q) ==
    \A i \in DOMAIN q : q[i].type = "HIT" =>
        \E j \in DOMAIN q : j < i /\ i - j <= MaxHits /\ q[j].type # "HIT"
NotAhead(h, life) ==
    h.type = "HIT" /\ ~h.renewed =>
        h.life <= life[h.target] /\ (h.over => h.life < life[h.target])
QueueOK(q, life) == HitsBehind(q) /\ RunsEnd(q) /\ \A i \in DOMAIN q : NotAhead(q[i], life)

Places(gs, id) == {i \in DOMAIN gs : gs[i] = id}
InTheAir(gs, air) == \A id \in Ids : Cardinality(Places(gs, id)) <= air[id]

WorldOK(w) ==
    /\ w \in Worlds
    /\ \A c \in Clients : QueueOK(w.queue[c], w.life) /\ InTheAir(w.grenades[c], w.air[c])

\* The first n hits of the event at the head of q are being looked at.
AtHit(q, n) ==
    /\ q # <<>> /\ q[1].type \in {"SHOT", "EXPLODE"}
    /\ \A i \in 2..n : IsHit(q, i)

CombatInv ==
    /\ WorldOK(world)
    /\ pc \in [who : 0..NumClients, hit : 0..MaxHits + 1] /\ harm \in SUBSET Hits
    /\ pc.hit > 0 => who # 0 /\ AtHit(Mine, pc.hit)
    /\ HitsTheLifeAimedAt

-----------------------------------------------------------------------------
(* Events, hits and queues.                                                *)

LEMMA Concatenation ==
    ASSUME NEW S, NEW s \in Seq(S), NEW t \in Seq(S)
    PROVE  /\ s \o t \in Seq(S) /\ Len(s \o t) = Len(s) + Len(t)
           /\ \A i \in 1..Len(s) + Len(t) : (s \o t)[i] = IF i <= Len(s) THEN s[i] ELSE t[i - Len(s)]
OBVIOUS

LEMMA HitsAndEvents ==
    \A e \in Things : /\ e.type = "HIT" => e \in Hits
                      /\ e.type # "HIT" => e \in Events
BY DEF Things, Events, Hits

IsMarked(m, h, cs, over, renewed) ==
    /\ m \in Things /\ m.type = h.type
    /\ h.type = "HIT" =>
          /\ m.of = h.of /\ m.target = h.target /\ m.life = h.life
          /\ m.over <=> h.over \/ (h.target \in cs /\ over)
          /\ m.renewed <=> h.renewed \/ (h.target \in cs /\ renewed)

LEMMA MarkedHit ==
    ASSUME NEW h \in Things, NEW cs, NEW over \in BOOLEAN, NEW renewed \in BOOLEAN
    PROVE  IsMarked(Marked(h, cs, over, renewed), h, cs, over, renewed)
<1> DEFINE m == Marked(h, cs, over, renewed)
<1>1. CASE h.type = "HIT" /\ h.target \in cs
    <2>1. h \in Hits /\ m = [h EXCEPT !.over = h.over \/ over, !.renewed = h.renewed \/ renewed]
        BY <1>1, HitsAndEvents DEF Marked
    <2>2. (h.over \/ over) \in BOOLEAN /\ (h.renewed \/ renewed) \in BOOLEAN
        BY Zenon
    <2>3. ASSUME NEW a \in BOOLEAN, NEW b \in BOOLEAN, m = [h EXCEPT !.over = a, !.renewed = b]
          PROVE  /\ m \in Hits /\ m.type = h.type /\ m.of = h.of /\ m.target = h.target /\ m.life = h.life
                 /\ m.over = a /\ m.renewed = b
        BY <2>1, <2>3 DEF Hits
    <2> HIDE DEF m
    <2>4. /\ m \in Hits /\ m.type = h.type /\ m.of = h.of /\ m.target = h.target /\ m.life = h.life
          /\ m.over = (h.over \/ over) /\ m.renewed = (h.renewed \/ renewed)
        BY <2>1, <2>2, <2>3, Zenon
    <2> QED BY <2>4, <1>1, Zenon DEF m, Things, IsMarked
<1>2. CASE ~(h.type = "HIT" /\ h.target \in cs)
    <2>1. m = h
        BY <1>2 DEF Marked
    <2> HIDE DEF m
    <2> QED BY <2>1, <1>2, Zenon DEF m, IsMarked
<1> QED BY <1>1, <1>2

\* Marking the hits on the slots cs keeps a queue in order, if the lives of the slots go on
\* from there or begin anew.
LEMMA MarkedQueue ==
    ASSUME NEW q \in Seq(Things), NEW cs \in SUBSET Clients,
           NEW over \in BOOLEAN, NEW renewed \in BOOLEAN,
           NEW life \in Lives, NEW next \in Lives, QueueOK(q, life),
           \A t \in Clients \ cs : next[t] = life[t],
           \A t \in cs : renewed \/ (over /\ life[t] < next[t])
    PROVE  LET m == [i \in DOMAIN q |-> Marked(q[i], cs, over, renewed)]
           IN m \in Seq(Things) /\ Len(m) = Len(q) /\ QueueOK(m, next)
              /\ \A i \in DOMAIN q : m[i].type = q[i].type
<1> DEFINE m == [i \in DOMAIN q |-> Marked(q[i], cs, over, renewed)]
<1>1. Len(q) \in Nat /\ DOMAIN q = 1..Len(q) /\ \A i \in DOMAIN q : q[i] \in Things
    OBVIOUS
<1>2. ASSUME NEW i \in DOMAIN q
      PROVE  IsMarked(m[i], q[i], cs, over, renewed)
    <2>1. m[i] = Marked(q[i], cs, over, renewed) /\ q[i] \in Things
        BY <1>1
    <2> HIDE DEF m
    <2> QED BY <2>1, MarkedHit
<1>3. DOMAIN m = DOMAIN q
    OBVIOUS
<1>4. m \in Seq(Things) /\ Len(m) = Len(q)
    <2>1. m \in [1..Len(q) -> Things]
        BY <1>1, <1>2 DEF IsMarked
    <2> QED BY <2>1, <1>1
<1> HIDE DEF m
<1>5. HitsBehind(m)
    <2> SUFFICES ASSUME NEW i \in DOMAIN q, m[i].type = "HIT"
                 PROVE  i > 1 /\ Behind(m[i - 1], m[i])
        BY <1>3 DEF HitsBehind
    <2>1. q[i].type = "HIT" /\ i > 1 /\ Behind(q[i - 1], q[i])
        BY <1>2 DEF QueueOK, HitsBehind, IsMarked
    <2>2. i - 1 \in DOMAIN q
        BY <1>1, <2>1
    <2> QED BY <2>1, <2>2, <1>2 DEF Behind, IsMarked
<1>6. RunsEnd(m)
    <2> SUFFICES ASSUME NEW i \in DOMAIN q, m[i].type = "HIT"
                 PROVE  \E j \in DOMAIN q : j < i /\ i - j <= MaxHits /\ m[j].type # "HIT"
        BY <1>3 DEF RunsEnd
    <2>1. q[i].type = "HIT"
        BY <1>2 DEF IsMarked
    <2>2. PICK j \in DOMAIN q : j < i /\ i - j <= MaxHits /\ q[j].type # "HIT"
        BY <2>1 DEF QueueOK, RunsEnd
    <2> QED BY <2>2, <1>2 DEF IsMarked
<1>7. ASSUME NEW i \in DOMAIN q PROVE NotAhead(m[i], next)
    <2> SUFFICES ASSUME m[i].type = "HIT", ~m[i].renewed
                 PROVE  m[i].life <= next[m[i].target] /\ (m[i].over => m[i].life < next[m[i].target])
        BY DEF NotAhead
    <2> DEFINE t == q[i].target
    <2>1. /\ q[i].type = "HIT" /\ ~q[i].renewed /\ ~(t \in cs /\ renewed)
          /\ m[i].target = t /\ m[i].life = q[i].life
          /\ m[i].over => q[i].over \/ (t \in cs /\ over)
        BY <1>2 DEF IsMarked
    <2>2. q[i].life <= life[t] /\ (q[i].over => q[i].life < life[t])
        BY <2>1 DEF QueueOK, NotAhead
    <2>3. t \in Clients /\ q[i].life \in Int
        BY <1>1, <2>1, HitsAndEvents DEF Hits
    <2>4. life[t] \in Int /\ next[t] \in Int
        BY <2>3 DEF Lives
    <2> HIDE DEF t
    <2>5. CASE t \in cs
        BY <2>1, <2>2, <2>3, <2>4, <2>5
    <2>6. CASE t \notin cs
        BY <2>1, <2>2, <2>3, <2>4, <2>6
    <2> QED BY <2>5, <2>6
<1> QED BY <1>2, <1>3, <1>4, <1>5, <1>6, <1>7 DEF QueueOK, m, IsMarked

\* client::addevent: an event and some of the hits sent with it, or nothing.
LEMMA AddedQueue ==
    ASSUME NEW q \in Seq(Things), NEW life \in Lives, QueueOK(q, life),
           NEW e \in Events, NEW hits \in Seq(Hits), Len(hits) <= MaxHits,
           \A j \in DOMAIN hits : hits[j].of = e.type /\ NotAhead(hits[j], life)
    PROVE  addevents(q, e, hits) \in Seq(Things) /\ QueueOK(addevents(q, e, hits), life)
<1> DEFINE room == QueueLimit + 1 - Len(q)
           k == Min({room, 1 + Len(hits)})
           t == SubSeq(<<e>> \o hits, 1, k)
           r == q \o t
<1>1. /\ Len(q) \in Nat /\ DOMAIN q = 1..Len(q) /\ room \in Int /\ Len(hits) \in Nat
      /\ e \in Things /\ e.type # "HIT" /\ \A j \in DOMAIN hits : hits[j] \in Hits
      /\ hits \in Seq(Things)
    BY LimitsAssumption DEF Things, Events
<1>2. CASE room <= 0
    BY <1>1, <1>2 DEF addevents
<1>3. CASE room > 0
    <2>1. k \in 1..1 + Len(hits)
        <3>1. {room, 1 + Len(hits)} \subseteq Nat
            BY <1>1, <1>3
        <3>2. k \in {room, 1 + Len(hits)} /\ k <= 1 + Len(hits)
            BY <3>1, MinOfNaturals
        <3> QED BY <3>2, <1>1, <1>3
    <2>2. addevents(q, e, hits) = r
        <3>1. ~(room <= 0)
            BY <1>1, <1>3
        <3> QED BY <3>1, Zenon DEF addevents
    <2> HIDE DEF k
    <2>3. /\ <<e>> \o hits \in Seq(Things) /\ Len(<<e>> \o hits) = 1 + Len(hits)
          /\ (<<e>> \o hits)[1] = e
          /\ \A i \in 2..1 + Len(hits) : (<<e>> \o hits)[i] = hits[i - 1]
        <3>1. <<e>> \in Seq(Things) /\ Len(<<e>>) = 1 /\ <<e>>[1] = e /\ hits \in Seq(Things)
            BY <1>1
        <3> QED BY <3>1, <1>1
    <2>4. /\ t \in Seq(Things) /\ Len(t) = k /\ DOMAIN t = 1..k /\ t[1] = e
          /\ \A i \in 2..k : t[i] = hits[i - 1]
        BY <2>1, <2>3, <1>1
    <2> HIDE DEF t
    <2>5. /\ r \in Seq(Things) /\ DOMAIN r = 1..Len(q) + k
          /\ \A i \in 1..Len(q) : r[i] = q[i]
          /\ \A i \in 1..k : r[Len(q) + i] = t[i]
        <3>1. /\ r \in Seq(Things) /\ Len(r) = Len(q) + k
              /\ \A i \in 1..Len(q) + k : r[i] = IF i <= Len(q) THEN q[i] ELSE t[i - Len(q)]
            BY <2>4, Concatenation
        <3> HIDE DEF r
        <3>2. ASSUME NEW i \in 1..k PROVE r[Len(q) + i] = t[i]
            <4> DEFINE j == Len(q) + i
            <4>1. j \in 1..Len(q) + k /\ ~(j <= Len(q)) /\ j - Len(q) = i
                BY <2>1, <1>1
            <4> HIDE DEF j
            <4>2. r[j] = t[i]
                BY <3>1, <4>1
            <4> QED BY <4>2 DEF j
        <3>3. ASSUME NEW i \in 1..Len(q) PROVE r[i] = q[i]
            BY <3>1, <2>1, <1>1
        <3> QED BY <3>1, <3>2, <3>3
    <2> HIDE DEF r
    <2>6. r[Len(q) + 1] = e /\ \A i \in 2..k : r[Len(q) + i] = hits[i - 1]
        <3>1. 1 \in 1..k /\ \A i \in 2..k : i \in 1..k
            BY <2>1
        <3> QED BY <3>1, <2>4, <2>5
    <2>7. \A i \in Len(q) + 2..Len(q) + k :
             /\ i - Len(q) - 1 \in DOMAIN hits /\ r[i] = hits[i - Len(q) - 1]
             /\ r[i].of = e.type /\ NotAhead(r[i], life)
        <3> SUFFICES ASSUME NEW i \in Len(q) + 2..Len(q) + k
                     PROVE  /\ i - Len(q) - 1 \in DOMAIN hits /\ r[i] = hits[i - Len(q) - 1]
                            /\ r[i].of = e.type /\ NotAhead(r[i], life)
            OBVIOUS
        <3>1. i - Len(q) \in 2..k /\ Len(q) + (i - Len(q)) = i /\ i - Len(q) - 1 \in 1..Len(hits)
            BY <1>1, <2>1
        <3>2. r[i] = hits[i - Len(q) - 1] /\ i - Len(q) - 1 \in DOMAIN hits
            BY <3>1, <2>6
        <3> QED BY <3>2
    <2>8. HitsBehind(r)
        <3> SUFFICES ASSUME NEW i \in DOMAIN r, r[i].type = "HIT"
                     PROVE  i > 1 /\ Behind(r[i - 1], r[i])
            BY DEF HitsBehind
        <3>1. CASE i \in 1..Len(q)
            <4>1. i > 1 /\ Behind(q[i - 1], q[i])
                BY <3>1, <2>5, <1>1 DEF QueueOK, HitsBehind
            <4> QED BY <4>1, <3>1, <2>5, <1>1
        <3>2. CASE i = Len(q) + 1
            BY <3>2, <2>6, <1>1
        <3>3. CASE i = Len(q) + 2
            <4>1. i \in Len(q) + 2..Len(q) + k /\ i - 1 = Len(q) + 1 /\ i > 1
                BY <3>3, <1>1, <2>1, <2>5
            <4> QED BY <4>1, <2>6, <2>7, <1>1 DEF Behind
        <3>4. CASE i > Len(q) + 2
            <4>1. i \in Len(q) + 2..Len(q) + k /\ i - 1 \in Len(q) + 2..Len(q) + k /\ i > 1
                BY <3>4, <1>1, <2>1, <2>5
            <4>2. r[i - 1].type = "HIT"
                <5>1. PICK j \in DOMAIN hits : r[i - 1] = hits[j]
                    BY <4>1, <2>7
                <5> QED BY <5>1, <1>1 DEF Hits
            <4> QED BY <4>1, <4>2, <2>7 DEF Behind
        <3> QED BY <3>1, <3>2, <3>3, <3>4, <2>5, <1>1, <2>1
    <2>9. RunsEnd(r)
        <3> SUFFICES ASSUME NEW i \in DOMAIN r, r[i].type = "HIT"
                     PROVE  \E j \in DOMAIN r : j < i /\ i - j <= MaxHits /\ r[j].type # "HIT"
            BY DEF RunsEnd
        <3>1. CASE i \in 1..Len(q)
            <4>1. PICK j \in DOMAIN q : j < i /\ i - j <= MaxHits /\ q[j].type # "HIT"
                BY <3>1, <2>5, <1>1 DEF QueueOK, RunsEnd
            <4> QED BY <4>1, <1>1, <2>1, <2>5
        <3>2. CASE i > Len(q)
            <4>1. i # Len(q) + 1 /\ Len(q) + 1 \in DOMAIN r
                BY <2>1, <2>5, <2>6, <1>1
            <4>2. i > Len(q) + 1 /\ i <= Len(q) + 1 + Len(hits)
                BY <4>1, <3>2, <1>1, <2>1, <2>5
            <4>3. i - (Len(q) + 1) <= MaxHits
                BY <4>2, <1>1, <2>5, CombatBoundsAssumption
            <4> QED BY <4>1, <4>2, <4>3, <2>6, <1>1
        <3> QED BY <3>1, <3>2, <2>5, <1>1, <2>1
    <2>10. ASSUME NEW i \in DOMAIN r PROVE NotAhead(r[i], life)
        <3>1. CASE i \in 1..Len(q)
            BY <3>1, <2>5, <1>1 DEF QueueOK
        <3>2. CASE i = Len(q) + 1
            BY <3>2, <2>6, <1>1 DEF NotAhead
        <3>3. CASE i > Len(q) + 1
            <4>1. i \in Len(q) + 2..Len(q) + k
                BY <3>3, <1>1, <2>1, <2>5
            <4> QED BY <4>1, <2>7
        <3> QED BY <3>1, <3>2, <3>3, <2>5, <1>1, <2>1
    <2> QED BY <2>2, <2>5, <2>8, <2>9, <2>10 DEF QueueOK
<1> QED BY <1>1, <1>2, <1>3

\* What clearevent leaves of a queue that is not empty.
LEMMA ClearedQueue ==
    ASSUME NEW q \in Seq(Things), NEW life \in Lives, QueueOK(q, life)
    PROVE  LET next == {i \in 2..Len(q) : q[i].type # "HIT"}
           IN next # {} => /\ SubSeq(q, Min(next), Len(q)) \in Seq(Things)
                           /\ QueueOK(SubSeq(q, Min(next), Len(q)), life)
<1> DEFINE next == {i \in 2..Len(q) : q[i].type # "HIT"}
           m == Min(next)
           r == SubSeq(q, m, Len(q))
<1> SUFFICES ASSUME next # {} PROVE r \in Seq(Things) /\ QueueOK(r, life)
    OBVIOUS
<1>1. Len(q) \in Nat /\ DOMAIN q = 1..Len(q) /\ next \subseteq Nat
    OBVIOUS
<1>2. m \in next
    BY <1>1, MinOfNaturals
<1>3. m \in 2..Len(q) /\ q[m].type # "HIT"
    BY <1>2
<1> HIDE DEF m
<1>4. r \in Seq(Things) /\ DOMAIN r = 1..Len(q) - m + 1 /\ \A i \in DOMAIN r : r[i] = q[m + i - 1]
    <2>1. \A i \in m..Len(q) : q[i] \in Things
        BY <1>1, <1>3
    <2>2. /\ r \in Seq(Things) /\ Len(r) = Len(q) - m + 1
          /\ \A i \in 1..Len(q) - m + 1 : r[i] = q[m + i - 1]
        BY <1>1, <1>3, <2>1
    <2> QED BY <2>2
<1> HIDE DEF r
<1>5. \A i \in DOMAIN r : m + i - 1 \in DOMAIN q /\ m + i - 1 >= m /\ i >= 1
    BY <1>1, <1>3, <1>4
<1>6. HitsBehind(r)
    <2> SUFFICES ASSUME NEW i \in DOMAIN r, r[i].type = "HIT"
                 PROVE  i > 1 /\ Behind(r[i - 1], r[i])
        BY DEF HitsBehind
    <2>1. i > 1
        <3>1. r[1] = q[m]
            BY <1>1, <1>3, <1>4
        <3> QED BY <3>1, <1>3, <1>4, <1>5
    <2>2. m + i - 1 \in DOMAIN q /\ r[i] = q[m + i - 1] /\ Behind(q[(m + i - 1) - 1], q[m + i - 1])
        BY <1>4, <1>5 DEF QueueOK, HitsBehind
    <2>3. i - 1 \in DOMAIN r /\ (m + i - 1) - 1 = m + (i - 1) - 1
        BY <2>1, <1>1, <1>3, <1>4
    <2>4. r[i - 1] = q[(m + i - 1) - 1]
        BY <2>3, <1>4
    <2> QED BY <2>1, <2>2, <2>4
<1>7. RunsEnd(r)
    <2> SUFFICES ASSUME NEW i \in DOMAIN r, r[i].type = "HIT"
                 PROVE  \E j \in DOMAIN r : j < i /\ i - j <= MaxHits /\ r[j].type # "HIT"
        BY DEF RunsEnd
    <2> DEFINE at == m + i - 1
    <2>1. at \in DOMAIN q /\ q[at].type = "HIT" /\ at >= m /\ i \in Int
        BY <1>1, <1>3, <1>4, <1>5
    <2>2. PICK j \in DOMAIN q : j < at /\ at - j <= MaxHits /\ q[j].type # "HIT"
        BY <2>1 DEF QueueOK, RunsEnd
    <2>3. CASE j >= m
        <3> DEFINE l == j - m + 1
        <3>1. j \in Int /\ m \in Int /\ j <= Len(q) /\ m >= 2
            BY <1>1, <1>3
        <3>2. l \in 1..Len(q) - m + 1 /\ m + l - 1 = j /\ l < i /\ i - l = at - j
            BY <3>1, <2>2, <2>3, <2>1, <1>1
        <3>3. l \in DOMAIN r /\ l < i /\ i - l <= MaxHits /\ m + l - 1 = j
            BY <3>2, <2>2, <1>4
        <3> HIDE DEF l
        <3> QED BY <3>3, <2>2, <1>4
    <2>4. CASE j < m
        <3>1. /\ 1 \in DOMAIN r /\ r[1] = q[m]
            BY <1>1, <1>3, <1>4
        <3>2. at # m
            BY <2>1, <1>3
        <3>3. 1 < i /\ i - 1 <= MaxHits
            BY <3>2, <2>1, <2>2, <2>4, <1>1, <1>3, CombatBoundsAssumption
        <3> QED BY <3>1, <3>3, <1>3
    <2> QED BY <2>3, <2>4, <1>1, <1>3
<1>8. \A i \in DOMAIN r : NotAhead(r[i], life)
    BY <1>4, <1>5 DEF QueueOK
<1> QED BY <1>4, <1>6, <1>7, <1>8 DEF QueueOK

-----------------------------------------------------------------------------
(* Grenades.                                                               *)

LEMMA FinitePlaces ==
    ASSUME NEW gs \in Seq(Ids), NEW id
    PROVE  /\ Places(gs, id) \subseteq 1..Len(gs) /\ IsFiniteSet(Places(gs, id))
           /\ Cardinality(Places(gs, id)) \in Nat
<1>1. Len(gs) \in Nat /\ Places(gs, id) \in SUBSET (1..Len(gs))
    BY DEF Places
<1>2. IsFiniteSet(1..Len(gs))
    BY <1>1, FS_Interval
<1> QED BY <1>1, <1>2, FS_Subset, FS_CardinalityType

\* projectilestate::add: the number is in the list once more, unless the list starts anew.
LEMMA AddedGrenade ==
    ASSUME NEW gs \in Seq(Ids), NEW id \in Ids, NEW air \in [Ids -> Int], InTheAir(gs, air)
    PROVE  /\ Added(gs, id) \in Seq(Ids)
           /\ InTheAir(Added(gs, id), [air EXCEPT ![id] = @ + 1])
<1> DEFINE more == [air EXCEPT ![id] = @ + 1]
<1>1. \A x \in Ids : more[x] = (IF x = id THEN air[x] + 1 ELSE air[x]) /\ air[x] \in Int
    OBVIOUS
<1>2. \A x \in Ids : Cardinality(Places(gs, x)) <= air[x] /\ Cardinality(Places(gs, x)) \in Nat
    BY FinitePlaces DEF InTheAir
<1> HIDE DEF more
<1>3. CASE Len(gs) >= MaxGrenades
    <2>1. Added(gs, id) = <<id>> /\ <<id>> \in Seq(Ids)
        BY <1>3 DEF Added
    <2>2. ASSUME NEW x \in Ids
          PROVE  Cardinality(Places(<<id>>, x)) = IF x = id THEN 1 ELSE 0
        <3>1. Places(<<id>>, x) = IF x = id THEN {1} ELSE {}
            BY DEF Places
        <3> QED BY <3>1, FS_Singleton, FS_EmptySet
    <2>3. ASSUME NEW x \in Ids PROVE Cardinality(Places(<<id>>, x)) <= more[x]
        <3>1. air[x] \in Int /\ air[x] >= 0
            BY <1>1, <1>2
        <3>2. CASE x = id
            BY <3>1, <3>2, <2>2, <1>1
        <3>3. CASE x # id
            BY <3>1, <3>3, <2>2, <1>1
        <3> QED BY <3>2, <3>3
    <2> QED BY <2>1, <2>3 DEF InTheAir, more
<1>4. CASE ~(Len(gs) >= MaxGrenades)
    <2> DEFINE n == Len(gs) + 1
               t == Append(gs, id)
    <2>1. Added(gs, id) = t
        BY <1>4 DEF Added
    <2>2. /\ t \in Seq(Ids) /\ Len(gs) \in Nat /\ DOMAIN t = 1..n /\ t[n] = id
          /\ DOMAIN gs = 1..Len(gs) /\ \A i \in 1..Len(gs) : t[i] = gs[i]
        OBVIOUS
    <2> HIDE DEF t
    <2>3. ASSUME NEW x \in Ids
          PROVE  Cardinality(Places(t, x)) = Cardinality(Places(gs, x)) + IF x = id THEN 1 ELSE 0
        <3>1. n \notin Places(gs, x) /\ IsFiniteSet(Places(gs, x))
            BY FinitePlaces
        <3>2. CASE x = id
            <4>1. Places(t, x) = Places(gs, x) \cup {n}
                BY <2>2, <3>2 DEF Places
            <4> QED BY <4>1, <3>1, <3>2, FS_AddElement
        <3>3. CASE x # id
            <4>1. Places(t, x) = Places(gs, x)
                BY <2>2, <3>3 DEF Places
            <4> QED BY <4>1, <3>3, <1>2
        <3> QED BY <3>2, <3>3
    <2>4. \A x \in Ids : Cardinality(Places(t, x)) <= more[x]
        BY <2>3, <1>1, <1>2
    <2> QED BY <2>1, <2>2, <2>4 DEF InTheAir, more
<1> QED BY <1>3, <1>4

\* projectilestate::remove: the last grenade takes the place of the one that goes, so its number is in
\* the list once less and every other as often as before.
LEMMA RemovedGrenade ==
    ASSUME NEW gs \in Seq(Ids), NEW id \in ToSet(gs), NEW air \in [Ids -> Int], InTheAir(gs, air)
    PROVE  /\ id \in Ids /\ Removed(gs, id) \in Seq(Ids)
           /\ InTheAir(Removed(gs, id), [air EXCEPT ![id] = @ - 1])
<1> DEFINE less == [air EXCEPT ![id] = @ - 1]
           n == Len(gs)
           i == Min(Places(gs, id))
           t == Removed(gs, id)
<1>1. n \in Nat /\ DOMAIN gs = 1..n /\ id \in Ids /\ Places(gs, id) # {}
    BY DEF ToSet, Places
<1>2. i \in 1..n /\ gs[i] = id
    <2>1. Places(gs, id) \subseteq Nat
        BY FinitePlaces
    <2>2. i \in Places(gs, id)
        BY <1>1, <2>1, MinOfNaturals
    <2> HIDE DEF i
    <2> QED BY <2>2, <1>1 DEF Places
<1>3. t = SubSeq([gs EXCEPT ![i] = gs[n]], 1, Len([gs EXCEPT ![i] = gs[n]]) - 1)
    BY DEF Removed, Front, Last, Places
<1> HIDE DEF i
<1>4. /\ t \in Seq(Ids) /\ DOMAIN t = 1..n - 1
      /\ \A j \in 1..n - 1 : t[j] = IF j = i THEN gs[n] ELSE gs[j]
    <2> DEFINE u == [gs EXCEPT ![i] = gs[n]]
    <2>1. n \in 1..n /\ gs[n] \in Ids
        BY <1>1, <1>2
    <2>2. u \in Seq(Ids) /\ Len(u) = n /\ \A j \in 1..n : u[j] = IF j = i THEN gs[n] ELSE gs[j]
        BY <1>1, <1>2, <2>1
    <2> HIDE DEF u
    <2>3. t = SubSeq(u, 1, n - 1)
        BY <1>3, <2>2 DEF u
    <2>4. t \in Seq(Ids) /\ Len(t) = n - 1 /\ \A j \in 1..n - 1 : t[j] = u[j]
        BY <2>1, <2>2, <2>3
    <2>5. ASSUME NEW j \in 1..n - 1 PROVE t[j] = IF j = i THEN gs[n] ELSE gs[j]
        <3>1. j \in 1..n
            BY <1>1
        <3> HIDE DEF t
        <3> QED BY <3>1, <2>2, <2>4
    <2>6. t \in Seq(Ids) /\ DOMAIN t = 1..n - 1
        BY <2>4
    <2> QED BY <2>5, <2>6
<1> HIDE DEF t
<1>5. ASSUME NEW x \in Ids
      PROVE  Cardinality(Places(t, x)) = Cardinality(Places(gs, x)) - IF x = id THEN 1 ELSE 0
    <2> DEFINE P == Places(gs, x)
    <2>1. IsFiniteSet(P) /\ Cardinality(P) \in Nat /\ P = {j \in 1..n : gs[j] = x}
        BY <1>1, FinitePlaces DEF Places
    <2>2. n \in 1..n
        BY <1>1, <1>2
    <2>3. Places(t, x) = {j \in 1..n - 1 : (IF j = i THEN gs[n] ELSE gs[j]) = x}
        BY <1>4 DEF Places
    <2> HIDE DEF P
    <2>4. CASE x = gs[n] /\ x = id
        <3>1. Places(t, x) = P \ {n} /\ n \in P
            <4>1. \A j \in 1..n - 1 : (IF j = i THEN gs[n] ELSE gs[j]) = x <=> gs[j] = x
                BY <2>4, <1>2
            <4>2. Places(t, x) = {j \in 1..n - 1 : gs[j] = x}
                BY <4>1, <2>3
            <4>3. 1..n - 1 = (1..n) \ {n}
                BY <1>1, <2>2
            <4> QED BY <4>2, <4>3, <2>1, <2>2, <2>4
        <3>2. Cardinality(P \ {n}) = Cardinality(P) - 1
            BY <3>1, <2>1, FS_RemoveElement
        <3>3. Cardinality(P) = Cardinality(Places(gs, x))
            BY DEF P
        <3> QED BY <3>1, <3>2, <3>3, <2>4
    <2>5. CASE x = gs[n] /\ x # id
        <3>1. Places(t, x) = (P \ {n}) \cup {i} /\ n \in P /\ i \notin P \ {n}
            <4>1. i \in 1..n - 1 /\ gs[i] # x
                BY <2>2, <2>5, <1>1, <1>2
            <4>2. \A j \in 1..n - 1 : (IF j = i THEN gs[n] ELSE gs[j]) = x <=> j = i \/ gs[j] = x
                BY <2>5
            <4>3. Places(t, x) = {j \in 1..n - 1 : j = i \/ gs[j] = x}
                BY <4>2, <2>3
            <4>4. 1..n - 1 = (1..n) \ {n}
                BY <1>1, <2>2
            <4> QED BY <4>1, <4>3, <4>4, <2>1, <2>2, <2>5
        <3>a. n \in P /\ IsFiniteSet(P)
            BY <3>1, <2>1
        <3>2. IsFiniteSet(P \ {n}) /\ Cardinality(P \ {n}) = Cardinality(P) - 1
            BY <3>a, FS_RemoveElement
        <3>3. Cardinality(Places(t, x)) = Cardinality(P \ {n}) + 1
            BY <3>1, <3>2, FS_AddElement
        <3> QED BY <3>2, <3>3, <2>1, <2>5 DEF P
    <2>6. CASE x # gs[n] /\ x = id
        <3>1. Places(t, x) = P \ {i} /\ i \in P
            BY <2>1, <2>2, <2>3, <2>6, <1>1, <1>2
        <3> QED BY <3>1, <2>1, <2>6, FS_RemoveElement DEF P
    <2>7. CASE x # gs[n] /\ x # id
        <3>1. Places(t, x) = P
            BY <2>1, <2>2, <2>3, <2>7, <1>1, <1>2
        <3> QED BY <3>1, <2>1, <2>7 DEF P
    <2> QED BY <2>4, <2>5, <2>6, <2>7
<1>6. \A x \in Ids : Cardinality(Places(gs, x)) <= air[x] /\ Cardinality(Places(gs, x)) \in Nat
    BY FinitePlaces DEF InTheAir
<1>7. \A x \in Ids : less[x] = (IF x = id THEN air[x] - 1 ELSE air[x]) /\ air[x] \in Int
    BY <1>1
<1> HIDE DEF less
<1>8. \A x \in Ids : Cardinality(Places(t, x)) <= less[x]
    BY <1>5, <1>6, <1>7
<1> QED BY <1>1, <1>4, <1>8 DEF InTheAir, t, less

-----------------------------------------------------------------------------
(* What a handler makes of a world.                                        *)

\* The queue of a client may get marks, but keeps its events and hits.
SameRun(q, r) == DOMAIN r = DOMAIN q /\ \A i \in DOMAIN q : r[i].type = q[i].type

LEMMA RunGoesOn ==
    ASSUME NEW q \in Seq(Things), NEW r \in Seq(Things), SameRun(q, r), NEW n, AtHit(q, n)
    PROVE  AtHit(r, n)
<1>1. Len(q) \in Nat \ {0} /\ 1 \in DOMAIN q
    BY DEF AtHit
<1>2. r # <<>> /\ r[1].type = q[1].type
    BY <1>1 DEF SameRun
<1>3. \A i \in 2..n : IsHit(r, i)
    BY DEF AtHit, IsHit, SameRun
<1> QED BY <1>2, <1>3 DEF AtHit

LEMMA WorldParts ==
    ASSUME NEW w, WorldOK(w)
    PROVE  /\ w.conn \in [Clients -> {"empty", "in"}] /\ w.state \in [Clients -> {"ALIVE", "DYING", "DEAD"}]
           /\ w.life \in Lives /\ w.awaiting \in [Clients -> BOOLEAN] /\ w.young \in BOOLEAN
           /\ w.grenades \in [Clients -> Seq(Ids)] /\ w.queue \in [Clients -> Seq(Things)]
           /\ w.air \in [Clients -> [Ids -> Int]]
BY DEF WorldOK, Worlds, Lives, Things

\* Steps that change neither queues, lives nor grenades.
LEMMA Elsewhere ==
    ASSUME NEW w, WorldOK(w), NEW v \in Worlds, v.queue = w.queue, v.life = w.life,
           v.grenades = w.grenades, v.air = w.air
    PROVE  WorldOK(v)
BY DEF WorldOK

LEMMA SameQueue == ASSUME NEW q PROVE SameRun(q, q)
BY DEF SameRun

\* client::mapchange of some clients.
LEMMA MapChanging ==
    ASSUME NEW w, WorldOK(w), NEW cs \in SUBSET Clients
    PROVE  /\ WorldOK(MapChanged(w, cs)) /\ MapChanged(w, cs).conn = w.conn
           /\ \A c \in Clients \ cs : SameRun(w.queue[c], MapChanged(w, cs).queue[c])
<1> DEFINE v == MapChanged(w, cs)
           Anew(f, with) == [c \in Clients |-> IF c \in cs THEN with ELSE f[c]]
           marked == MarkAll(w, cs, TRUE, TRUE)
           none == [id \in Ids |-> 0]
           life == Anew(w.life, -1)
<1>1. v = [w EXCEPT !.state = Anew(w.state, "DEAD"), !.life = life,
                    !.awaiting = Anew(w.awaiting, FALSE), !.grenades = Anew(w.grenades, <<>>),
                    !.queue = Anew(marked, <<>>), !.air = Anew(w.air, none)]
    BY DEF MapChanged
<1>2. /\ Anew(w.state, "DEAD") \in [Clients -> {"ALIVE", "DYING", "DEAD"}]
      /\ life \in Lives /\ Anew(w.grenades, <<>>) \in [Clients -> Seq(Ids)]
      /\ none \in [Ids -> Int] /\ Anew(w.air, none) \in [Clients -> [Ids -> Int]]
    BY WorldParts, CombatBoundsAssumption DEF Lives
<1>3. Anew(w.awaiting, FALSE) \in [Clients -> BOOLEAN]
    <2>1. ASSUME NEW c \in Clients PROVE (IF c \in cs THEN FALSE ELSE w.awaiting[c]) \in BOOLEAN
        BY WorldParts
    <2> QED BY <2>1
<1>4. ASSUME NEW c \in Clients
      PROVE  /\ marked[c] \in Seq(Things) /\ QueueOK(marked[c], life)
             /\ SameRun(w.queue[c], marked[c])
    <2> DEFINE q == w.queue[c]
               m == [i \in DOMAIN q |-> Marked(q[i], cs, TRUE, TRUE)]
    <2>1. marked[c] = m
        BY DEF MarkAll
    <2>2. q \in Seq(Things) /\ QueueOK(q, w.life) /\ w.life \in Lives
        BY WorldParts DEF WorldOK
    <2>3. \A t \in Clients \ cs : life[t] = w.life[t]
        BY <2>2 DEF Lives
    <2> HIDE DEF life, q
    <2>4. m \in Seq(Things) /\ Len(m) = Len(q) /\ QueueOK(m, life) /\ \A i \in DOMAIN q : m[i].type = q[i].type
        BY <2>2, <2>3, <1>2, MarkedQueue, Zenon
    <2>5. DOMAIN m = DOMAIN q
        OBVIOUS
    <2> HIDE DEF m
    <2> QED BY <2>1, <2>4, <2>5 DEF SameRun, q
<1> HIDE DEF marked, life, none
<1>5. /\ v.conn = w.conn /\ v.young = w.young /\ v.state = Anew(w.state, "DEAD") /\ v.life = life
      /\ v.awaiting = Anew(w.awaiting, FALSE) /\ v.grenades = Anew(w.grenades, <<>>)
      /\ v.queue = Anew(marked, <<>>) /\ v.air = Anew(w.air, none)
      /\ v = [conn |-> v.conn, state |-> v.state, life |-> v.life, awaiting |-> v.awaiting,
               grenades |-> v.grenades, queue |-> v.queue, young |-> v.young, air |-> v.air]
    BY <1>1 DEF WorldOK, Worlds
<1> HIDE DEF v
<1>6. Anew(marked, <<>>) \in [Clients -> Seq(Things)]
    BY <1>4
<1>7. v \in Worlds
    <2>1. w.conn \in [Clients -> {"empty", "in"}] /\ w.young \in BOOLEAN
        BY WorldParts
    <2> HIDE DEF Anew
    <2> QED BY <2>1, <1>2, <1>3, <1>5, <1>6, Zenon DEF Worlds, Lives, Things
<1>8. ASSUME NEW c \in Clients PROVE QueueOK(v.queue[c], v.life) /\ InTheAir(v.grenades[c], v.air[c])
    <2>1. CASE c \in cs
        <3>1. v.queue[c] = <<>> /\ v.grenades[c] = <<>> /\ v.air[c] = none
            BY <2>1, <1>5
        <3>2. \A id \in Ids : Places(<<>>, id) = {} /\ none[id] = 0
            BY DEF Places, none
        <3>3. InTheAir(<<>>, none)
            <4>1. Cardinality({}) = 0
                BY FS_EmptySet, Zenon
            <4> QED BY <3>2, <4>1 DEF InTheAir
        <3> QED BY <3>1, <3>3 DEF QueueOK, HitsBehind, RunsEnd
    <2>2. CASE c \notin cs
        <3>1. v.queue[c] = marked[c] /\ v.grenades[c] = w.grenades[c] /\ v.air[c] = w.air[c] /\ v.life = life
            BY <2>2, <1>5
        <3> QED BY <3>1, <1>4 DEF WorldOK
    <2> QED BY <2>1, <2>2
<1>9. \A c \in Clients \ cs : SameRun(w.queue[c], v.queue[c])
    BY <1>4, <1>5
<1> QED BY <1>5, <1>7, <1>8, <1>9 DEF WorldOK, v

\* sendspawn: hits that are under way are on an earlier life from now on.
LEMMA Spawning ==
    ASSUME NEW w, WorldOK(w), NEW c \in Clients, w.life[c] < MaxLife
    PROVE  WorldOK(Sendspawn(w, c))
<1> DEFINE v == Sendspawn(w, c)
           marked == MarkAll(w, {c}, TRUE, FALSE)
           life == [w.life EXCEPT ![c] = @ + 1]
           awaiting == [w.awaiting EXCEPT ![c] = TRUE]
           states == [w.state EXCEPT ![c] = IF @ = "DYING" THEN "DEAD" ELSE @]
<1>1. w.life \in Lives /\ life \in Lives /\ \A t \in Clients : life[t] = IF t = c THEN w.life[t] + 1 ELSE w.life[t]
    <2>1. w.life \in Lives
        BY WorldParts
    <2>2. w.life[c] + 1 \in -1..MaxLife
        BY <2>1, CombatBoundsAssumption DEF Lives
    <2> QED BY <2>1, <2>2 DEF Lives
<1>2. states \in [Clients -> {"ALIVE", "DYING", "DEAD"}] /\ awaiting \in [Clients -> BOOLEAN]
    BY WorldParts
<1>3. ASSUME NEW d \in Clients PROVE marked[d] \in Seq(Things) /\ QueueOK(marked[d], life)
    <2> DEFINE q == w.queue[d]
               m == [i \in DOMAIN q |-> Marked(q[i], {c}, TRUE, FALSE)]
    <2>1. marked[d] = m
        BY DEF MarkAll
    <2>2. q \in Seq(Things) /\ QueueOK(q, w.life)
        BY WorldParts DEF WorldOK
    <2>3. /\ \A t \in Clients \ {c} : life[t] = w.life[t]
          /\ \A t \in {c} : FALSE \/ (TRUE /\ w.life[t] < life[t])
        BY <1>1 DEF Lives
    <2>4. {c} \in SUBSET Clients
        OBVIOUS
    <2> HIDE DEF life, q
    <2>5. m \in Seq(Things) /\ QueueOK(m, life)
        BY <2>2, <2>3, <2>4, <1>1, MarkedQueue, Zenon
    <2> QED BY <2>1, <2>5
<1>4. v = [w EXCEPT !.queue = marked, !.life = life, !.awaiting = awaiting, !.state = states]
    BY <1>1 DEF Sendspawn, WorldOK, Worlds
<1>5. marked \in [Clients -> Seq(Things)]
    <2>1. marked = [d \in Clients |-> marked[d]]
        BY DEF MarkAll
    <2> HIDE DEF marked
    <2> QED BY <2>1, <1>3
<1> HIDE DEF marked, life, awaiting, states
<1>6. /\ v.queue = marked /\ v.life = life /\ v.grenades = w.grenades /\ v.air = w.air
      /\ v \in Worlds
    BY <1>1, <1>2, <1>4, <1>5 DEF WorldOK, Worlds, Lives, Things
<1> HIDE DEF v
<1>7. \A d \in Clients : QueueOK(v.queue[d], v.life) /\ InTheAir(v.grenades[d], v.air[d])
    BY <1>3, <1>6 DEF WorldOK
<1> QED BY <1>6, <1>7 DEF WorldOK, v

\* startgame, for the clients that are in.
LEMMA GameStarting ==
    ASSUME NEW w, WorldOK(w)
    PROVE  /\ WorldOK(GameStarted(w)) /\ GameStarted(w).conn = w.conn
           /\ \A c \in Clients : w.conn[c] # "in" => SameRun(w.queue[c], GameStarted(w).queue[c])
<1> DEFINE v == [w EXCEPT !.young = TRUE]
           cs == {c \in Clients : w.conn[c] = "in"}
<1>1. /\ v \in Worlds /\ v.queue = w.queue /\ v.life = w.life /\ v.grenades = w.grenades
      /\ v.air = w.air /\ v.conn = w.conn
    BY DEF WorldOK, Worlds
<1>2. GameStarted(w) = MapChanged(v, cs) /\ cs \in SUBSET Clients
    BY DEF GameStarted
<1> HIDE DEF v
<1>3. WorldOK(v)
    BY <1>1, Elsewhere
<1> QED BY <1>1, <1>2, <1>3, MapChanging

\* zap, which leaves the queue that is run to processevents.
LEMMA Zapping ==
    ASSUME NEW w, WorldOK(w), NEW c \in Clients
    PROVE  /\ WorldOK(Zapped(w, c)) /\ Zapped(w, c).conn = [w.conn EXCEPT ![c] = "empty"]
           /\ pc.who \in Clients => SameRun(w.queue[pc.who], Zapped(w, c).queue[pc.who])
<1> DEFINE u == IF c = pc.who THEN w ELSE MapChange(w, c)
           v == [u EXCEPT !.conn[c] = "empty"]
<1>1. Zapped(w, c) = v
    BY DEF Zapped
<1>2. /\ WorldOK(u) /\ u.conn = w.conn
      /\ pc.who \in Clients => SameRun(w.queue[pc.who], u.queue[pc.who])
    <2>1. CASE c = pc.who
        BY <2>1, SameQueue
    <2>2. CASE c # pc.who
        <3>1. u = MapChanged(w, {c}) /\ {c} \in SUBSET Clients
            BY <2>2 DEF MapChange
        <3> QED BY <2>2, <3>1, MapChanging
    <2> QED BY <2>1, <2>2
<1> HIDE DEF u
<1>3. /\ v \in Worlds /\ v.queue = u.queue /\ v.life = u.life /\ v.grenades = u.grenades
      /\ v.air = u.air /\ v.conn = [u.conn EXCEPT ![c] = "empty"]
    <2>1. [u.conn EXCEPT ![c] = "empty"] \in [Clients -> {"empty", "in"}]
        BY <1>2, WorldParts
    <2>2. v = [u EXCEPT !.conn = [u.conn EXCEPT ![c] = "empty"]]
        BY <1>2 DEF WorldOK, Worlds
    <2> HIDE DEF v
    <2> QED BY <1>2, <2>1, <2>2 DEF WorldOK, Worlds
<1> HIDE DEF v
<1>4. WorldOK(v)
    BY <1>2, <1>3, Elsewhere
<1> QED BY <1>1, <1>2, <1>3, <1>4

LEMMA RunTwice ==
    ASSUME NEW p, NEW q, NEW r, SameRun(p, q), SameRun(q, r)
    PROVE  SameRun(p, r)
BY DEF SameRun

\* forcedeath: the clients are dead and wait for no life.
LEMMA ForcingDeaths ==
    ASSUME NEW w, WorldOK(w), NEW cs \in SUBSET Clients
    PROVE  WorldOK(ForcedDead(w, cs)) /\ ForcedDead(w, cs).queue = w.queue
<1> DEFINE states == [c \in Clients |-> IF c \in cs THEN "DEAD" ELSE w.state[c]]
           awaiting == [c \in Clients |-> IF c \in cs THEN FALSE ELSE w.awaiting[c]]
           v == ForcedDead(w, cs)
<1>1. states \in [Clients -> {"ALIVE", "DYING", "DEAD"}] /\ awaiting \in [Clients -> BOOLEAN]
    BY WorldParts
<1>2. v = [w EXCEPT !.state = states, !.awaiting = awaiting]
    BY DEF ForcedDead, WorldOK, Worlds
<1> HIDE DEF v, states, awaiting
<1>3. /\ v \in Worlds /\ v.queue = w.queue /\ v.life = w.life /\ v.grenades = w.grenades
      /\ v.air = w.air
    BY <1>1, <1>2 DEF WorldOK, Worlds
<1>4. WorldOK(v)
    BY <1>3, Elsewhere
<1> QED BY <1>3, <1>4 DEF v

\* disconnect_client, and what a vote may do then.  If it is the one whose queue is run, the queue goes on.
LEMMA LeavingAWorld ==
    ASSUME NEW w, WorldOK(w), NEW c \in Clients, NEW v \in Left(w, c)
    PROVE  WorldOK(v) /\ (c = pc.who => SameRun(w.queue[pc.who], v.queue[pc.who]))
<1> DEFINE gone == Zapped(w, c)
<1>1. /\ WorldOK(gone) /\ gone.conn = [w.conn EXCEPT ![c] = "empty"]
      /\ pc.who \in Clients => SameRun(w.queue[pc.who], gone.queue[pc.who])
    BY Zapping
<1>2. gone.conn[c] = "empty"
    BY <1>1, WorldParts
<1>3. \/ v = gone \/ v = GameStarted(gone) \/ \E d \in Clients : v = Zapped(gone, d)
      \/ \E cs \in SUBSET Clients : v = ForcedDead(gone, cs)
    BY DEF Left
<1> HIDE DEF gone
<1>4. CASE v = gone
    BY <1>1, <1>4
<1>5. CASE v = GameStarted(gone)
    <2>1. WorldOK(v) /\ SameRun(gone.queue[c], v.queue[c])
        BY <1>1, <1>2, <1>5, GameStarting
    <2> QED BY <1>1, <2>1, RunTwice
<1>6. ASSUME NEW d \in Clients, v = Zapped(gone, d)
      PROVE  WorldOK(v) /\ (c = pc.who => SameRun(w.queue[pc.who], v.queue[pc.who]))
    <2>1. WorldOK(v) /\ (pc.who \in Clients => SameRun(gone.queue[pc.who], v.queue[pc.who]))
        BY <1>1, <1>6, Zapping
    <2> QED BY <1>1, <2>1, RunTwice
<1>7. ASSUME NEW cs \in SUBSET Clients, v = ForcedDead(gone, cs)
      PROVE  WorldOK(v) /\ (c = pc.who => SameRun(w.queue[pc.who], v.queue[pc.who]))
    <2>1. WorldOK(v) /\ v.queue = gone.queue
        BY <1>1, <1>7, ForcingDeaths
    <2> QED BY <1>1, <2>1
<1> QED BY <1>3, <1>4, <1>5, <1>6, <1>7

\* A client is dead, or what else its state becomes.
LEMMA StateChanging ==
    ASSUME NEW w, WorldOK(w), NEW c \in Clients, NEW st \in {"ALIVE", "DYING", "DEAD"}
    PROVE  LET v == [w EXCEPT !.state[c] = st]
           IN /\ WorldOK(v) /\ v.queue = w.queue /\ v.conn = w.conn /\ v.grenades = w.grenades
              /\ v.air = w.air /\ v.life = w.life
<1> DEFINE v == [w EXCEPT !.state[c] = st]
<1>1. [w.state EXCEPT ![c] = st] \in [Clients -> {"ALIVE", "DYING", "DEAD"}]
    BY WorldParts
<1>2. v = [w EXCEPT !.state = [w.state EXCEPT ![c] = st]]
    BY DEF WorldOK, Worlds
<1> HIDE DEF v
<1>3. /\ v \in Worlds /\ v.queue = w.queue /\ v.life = w.life /\ v.grenades = w.grenades
      /\ v.air = w.air /\ v.conn = w.conn
    BY <1>1, <1>2 DEF WorldOK, Worlds
<1>4. WorldOK(v)
    BY <1>3, Elsewhere
<1> QED BY <1>3, <1>4 DEF v

\* serverdamage by the client whose queue is run.
LEMMA Damaging ==
    ASSUME NEW w, WorldOK(w), NEW c \in Clients, pc.who \in Clients, NEW v \in Damaged(w, c, pc.who)
    PROVE  WorldOK(v) /\ SameRun(w.queue[pc.who], v.queue[pc.who])
<1> DEFINE dead == [w EXCEPT !.state[c] = "DYING"]
<1>1. WorldOK(dead) /\ dead.queue = w.queue
    BY StateChanging
<1>2. v = w \/ v = dead \/ v \in Left(dead, pc.who)
    BY DEF Damaged
<1> HIDE DEF dead
<1>3. CASE v = w
    BY <1>3, SameQueue
<1>4. CASE v = dead
    BY <1>1, <1>4, SameQueue
<1>5. CASE v \in Left(dead, pc.who)
    BY <1>1, <1>5, LeavingAWorld
<1> QED BY <1>2, <1>3, <1>4, <1>5

\* clearevent.
LEMMA Clearing ==
    ASSUME NEW w, WorldOK(w), NEW c \in Clients, w.queue[c] # <<>>
    PROVE  WorldOK(Cleared(w, c))
<1> DEFINE q == w.queue[c]
           next == {i \in 2..Len(q) : q[i].type # "HIT"}
           r == IF next = {} THEN <<>> ELSE SubSeq(q, Min(next), Len(q))
           v == Cleared(w, c)
<1>1. q \in Seq(Things) /\ QueueOK(q, w.life) /\ w.life \in Lives
    BY WorldParts DEF WorldOK
<1>2. r \in Seq(Things) /\ QueueOK(r, w.life)
    <2>1. CASE next = {}
        <3>1. r = <<>>
            BY <2>1
        <3> HIDE DEF r
        <3> QED BY <3>1 DEF QueueOK, HitsBehind, RunsEnd
    <2>2. CASE next # {}
        <3>1. r = SubSeq(q, Min(next), Len(q))
            BY <2>2
        <3> HIDE DEF r, q
        <3> QED BY <2>2, <3>1, <1>1, ClearedQueue
    <2> QED BY <2>1, <2>2
<1>3. v = [w EXCEPT !.queue = [w.queue EXCEPT ![c] = r]]
    BY DEF Cleared, WorldOK, Worlds
<1> HIDE DEF v, r
<1>4. [w.queue EXCEPT ![c] = r] \in [Clients -> Seq(Things)]
    BY <1>2, WorldParts
<1>5. /\ v \in Worlds /\ v.queue = [w.queue EXCEPT ![c] = r] /\ v.life = w.life
      /\ v.grenades = w.grenades /\ v.air = w.air
    BY <1>3, <1>4 DEF WorldOK, Worlds, Things
<1>6. \A d \in Clients : v.queue[d] = IF d = c THEN r ELSE w.queue[d]
    BY <1>5, WorldParts
<1> QED BY <1>2, <1>5, <1>6 DEF WorldOK, v

-----------------------------------------------------------------------------
(* Each step keeps the invariant.                                          *)

\* A handler that is not part of processevents.
LEMMA Handling == ASSUME CombatInv, NEW w, WorldOK(w), Handled(w) PROVE CombatInv'
<1>1. pc = Idle /\ world' = w /\ harm' = {} /\ pc' = pc /\ pc.hit = 0
    BY DEF Handled, Idle
<1> QED BY <1>1 DEF CombatInv, HitsTheLifeAimedAt

LEMMA Connecting == ASSUME CombatInv, NEW c \in Clients, Connect(c) PROVE CombatInv'
<1> DEFINE u == MapChange(world, c)
           v == [u EXCEPT !.conn[c] = "in"]
<1>1. WorldOK(u)
    <2>1. WorldOK(world) /\ {c} \in SUBSET Clients
        BY DEF CombatInv
    <2> QED BY <2>1, MapChanging DEF MapChange
<1>2. Handled(v)
    BY DEF Connect
<1> HIDE DEF u
<1>3. v \in Worlds /\ v.queue = u.queue /\ v.life = u.life /\ v.grenades = u.grenades /\ v.air = u.air
    <2>1. [u.conn EXCEPT ![c] = "in"] \in [Clients -> {"empty", "in"}]
        BY <1>1, WorldParts
    <2>2. v = [u EXCEPT !.conn = [u.conn EXCEPT ![c] = "in"]]
        BY <1>1 DEF WorldOK, Worlds
    <2> HIDE DEF v
    <2> QED BY <1>1, <2>1, <2>2 DEF WorldOK, Worlds
<1> HIDE DEF v
<1>4. WorldOK(v)
    BY <1>1, <1>3, Elsewhere
<1> QED BY <1>2, <1>4, Handling

LEMMA Disconnecting == ASSUME CombatInv, NEW c \in Clients, Disconnect(c) PROVE CombatInv'
<1>1. PICK w \in Left(world, c) : Handled(w)
    BY DEF Disconnect
<1>2. WorldOK(w)
    BY LeavingAWorld DEF CombatInv
<1> QED BY <1>1, <1>2, Handling

LEMMA FetchingTheMap == ASSUME CombatInv, NEW c \in Clients, ReceiveMap(c) PROVE CombatInv'
<1>1. WorldOK(world) /\ {c} \in SUBSET Clients /\ Handled(MapChanged(world, {c}))
    BY DEF CombatInv, ReceiveMap, MapChange
<1> QED BY <1>1, MapChanging, Handling

LEMMA StartingAGame == ASSUME CombatInv, StartGame PROVE CombatInv'
<1>1. WorldOK(world) /\ Handled(GameStarted(world))
    BY DEF CombatInv, StartGame
<1> QED BY <1>1, GameStarting, Handling

\* Handlers that change states, the clock and who waits for a life.
LEMMA HandlingElsewhere ==
    ASSUME CombatInv,
           NEW states \in [Clients -> {"ALIVE", "DYING", "DEAD"}], NEW awaiting \in [Clients -> BOOLEAN],
           NEW young \in BOOLEAN,
           Handled([world EXCEPT !.state = states, !.awaiting = awaiting, !.young = young])
    PROVE  CombatInv'
<1> DEFINE v == [world EXCEPT !.state = states, !.awaiting = awaiting, !.young = young]
<1>1. WorldOK(world)
    BY DEF CombatInv
<1>2. /\ v \in Worlds /\ v.queue = world.queue /\ v.life = world.life
      /\ v.grenades = world.grenades /\ v.air = world.air
    BY <1>1 DEF WorldOK, Worlds
<1> HIDE DEF v
<1>3. WorldOK(v)
    BY <1>1, <1>2, Elsewhere
<1> QED BY <1>3, Handling DEF v

LEMMA StartingSilently ==
    ASSUME CombatInv, NEW deaths \in SUBSET Clients, StartSilently(deaths) PROVE CombatInv'
<1> DEFINE states == [c \in Clients |-> IF c \in deaths THEN "DYING" ELSE world.state[c]]
<1>1. WorldOK(world)
    BY DEF CombatInv
<1>2. states \in [Clients -> {"ALIVE", "DYING", "DEAD"}] /\ world.awaiting \in [Clients -> BOOLEAN]
    BY <1>1, WorldParts
<1>3. Handled([world EXCEPT !.state = states, !.awaiting = world.awaiting, !.young = TRUE])
    <2>1. Handled([world EXCEPT !.young = TRUE, !.state = states])
        BY DEF StartSilently
    <2> HIDE DEF states
    <2>2. [world EXCEPT !.young = TRUE, !.state = states]
             = [world EXCEPT !.state = states, !.awaiting = world.awaiting, !.young = TRUE]
        BY <1>1 DEF WorldOK, Worlds
    <2> QED BY <2>1, <2>2
<1> HIDE DEF states
<1> QED BY <1>2, <1>3, HandlingElsewhere

LEMMA TimePassing == ASSUME CombatInv, GameGoesOn PROVE CombatInv'
<1>1. WorldOK(world)
    BY DEF CombatInv
<1>2. [world EXCEPT !.young = FALSE]
         = [world EXCEPT !.state = world.state, !.awaiting = world.awaiting, !.young = FALSE]
    BY <1>1 DEF WorldOK, Worlds
<1>3. Handled([world EXCEPT !.state = world.state, !.awaiting = world.awaiting, !.young = FALSE])
    BY <1>2 DEF GameGoesOn
<1> QED BY <1>1, <1>3, WorldParts, HandlingElsewhere

\* Tick, Spawn and ForceDeath: the state of one client, and maybe whether it waits.
LEMMA StateHandling ==
    ASSUME CombatInv, NEW c \in Clients, Tick(c) \/ Spawn(c) \/ ForceDeath(c) PROVE CombatInv'
<1>1. WorldOK(world)
    BY DEF CombatInv
<1>2. CASE Tick(c)
    <2>1. Handled([world EXCEPT !.state[c] = "DEAD"])
        BY <1>2 DEF Tick
    <2> QED BY <1>1, <2>1, StateChanging, Handling
<1>3. CASE ForceDeath(c)
    <2>1. {c} \in SUBSET Clients /\ Handled(ForcedDead(world, {c}))
        BY <1>3 DEF ForceDeath
    <2> QED BY <1>1, <2>1, ForcingDeaths, Handling
<1>4. CASE Spawn(c)
    <2> DEFINE states == [world.state EXCEPT ![c] = "ALIVE"]
               awaiting == [world.awaiting EXCEPT ![c] = FALSE]
    <2>1. states \in [Clients -> {"ALIVE", "DYING", "DEAD"}] /\ awaiting \in [Clients -> BOOLEAN]
        BY <1>1, WorldParts
    <2>2. [world EXCEPT !.state[c] = "ALIVE", !.awaiting[c] = FALSE]
             = [world EXCEPT !.state = states, !.awaiting = awaiting, !.young = world.young]
        BY <1>1 DEF WorldOK, Worlds
    <2>3. Handled([world EXCEPT !.state = states, !.awaiting = awaiting, !.young = world.young])
        BY <1>4, <2>2 DEF Spawn
    <2> HIDE DEF states, awaiting
    <2>4. world.young \in BOOLEAN
        BY <1>1, WorldParts
    <2> QED BY <2>1, <2>3, <2>4, HandlingElsewhere
<1> QED BY <1>2, <1>3, <1>4

LEMMA Respawning == ASSUME CombatInv, NEW c \in Clients, Respawn(c) PROVE CombatInv'
<1>1. WorldOK(world) /\ world.life[c] < MaxLife /\ Handled(Sendspawn(world, c))
    BY DEF CombatInv, Respawn
<1> QED BY <1>1, Spawning, Handling

\* A queue gets an event with hits on lives that have begun.
LEMMA Queueing ==
    ASSUME CombatInv, NEW c \in Clients, NEW e \in Events, NEW hits \in Seq(Hits), Len(hits) <= MaxHits,
           \A j \in DOMAIN hits : hits[j].of = e.type /\ NotAhead(hits[j], world.life),
           Queue(c, e, hits)
    PROVE  CombatInv'
<1> DEFINE q == addevents(world.queue[c], e, hits)
           v == [world EXCEPT !.queue = [world.queue EXCEPT ![c] = q]]
<1>1. WorldOK(world) /\ world.life \in Lives /\ world.queue \in [Clients -> Seq(Things)]
    BY WorldParts DEF CombatInv
<1>2. q \in Seq(Things) /\ QueueOK(q, world.life)
    <2>1. world.queue[c] \in Seq(Things) /\ QueueOK(world.queue[c], world.life)
        BY <1>1 DEF WorldOK
    <2> QED BY <1>1, <2>1, AddedQueue
<1>3. Handled(v)
    <2>1. [world EXCEPT !.queue[c] = q] = v
        BY <1>1 DEF WorldOK, Worlds
    <2> QED BY <2>1 DEF Queue
<1> HIDE DEF q
<1>4. [world.queue EXCEPT ![c] = q] \in [Clients -> Seq(Things)]
    BY <1>1, <1>2
<1>5. /\ v \in Worlds /\ v.queue = [world.queue EXCEPT ![c] = q] /\ v.life = world.life
      /\ v.grenades = world.grenades /\ v.air = world.air
    BY <1>1, <1>4 DEF WorldOK, Worlds, Things
<1> HIDE DEF v
<1>6. \A d \in Clients : v.queue[d] = IF d = c THEN q ELSE world.queue[d]
    BY <1>1, <1>5
<1>7. WorldOK(v)
    BY <1>1, <1>2, <1>5, <1>6 DEF WorldOK
<1> QED BY <1>3, <1>7, Handling

LEMMA HitListsOK ==
    ASSUME WorldOK(world), NEW type \in {"SHOT", "EXPLODE"}, NEW hits \in HitLists(type)
    PROVE  /\ hits \in Seq(Hits) /\ Len(hits) <= MaxHits
           /\ \A j \in DOMAIN hits : hits[j].of = type /\ NotAhead(hits[j], world.life)
<1> DEFINE H == {h \in HitsOf(type) : h.life >= 0}
<1>1. world.life \in Lives
    BY WorldParts
<1>2. ASSUME NEW h \in H PROVE h \in Hits /\ h.of = type /\ NotAhead(h, world.life)
    <2>1. PICK t \in Clients, over \in {0, 1} :
             h = [type |-> "HIT", target |-> t, life |-> world.life[t] - over, of |-> type,
                  over |-> over = 1, renewed |-> FALSE]
        BY DEF HitsOf
    <2>2. h.life >= 0 /\ world.life[t] \in -1..MaxLife
        BY <1>1 DEF Lives
    <2>3. world.life[t] - over \in -1..MaxLife
        BY <2>1, <2>2, CombatBoundsAssumption
    <2>4. (over = 1) \in BOOLEAN /\ FALSE \in BOOLEAN
        BY Zenon
    <2>5. ASSUME NEW b \in BOOLEAN, NEW f \in BOOLEAN, b = (over = 1), f = FALSE,
                 h = [type |-> "HIT", target |-> t, life |-> world.life[t] - over, of |-> type,
                      over |-> b, renewed |-> f]
          PROVE  h \in Hits /\ h.of = type /\ NotAhead(h, world.life)
        <3>1. /\ h \in Hits /\ h.of = type /\ h.life = world.life[t] - over /\ h.target = t
              /\ h.over = b
            BY <2>3, <2>5 DEF Hits
        <3>2. h.over => over = 1
            BY <3>1, <2>5
        <3> QED BY <3>1, <3>2, <2>1, <2>2 DEF NotAhead
    <2> QED BY <2>1, <2>4, <2>5, Zenon
<1>3. PICK n \in 0..MaxHits : hits \in [1..n -> H]
    BY DEF HitLists
<1> HIDE DEF H
<1>4. hits \in Seq(Hits) /\ Len(hits) = n /\ DOMAIN hits = 1..n
    BY <1>2, <1>3
<1> QED BY <1>2, <1>3, <1>4, CombatBoundsAssumption

LEMMA Sending ==
    ASSUME CombatInv, NEW c \in Clients, Shoot(c) \/ Throw(c) \/ Explode(c) \/ Suicide(c) PROVE CombatInv'
<1>1. WorldOK(world)
    BY DEF CombatInv
<1>2. CASE Shoot(c)
    <2>1. PICK hits \in HitLists("SHOT") : Queue(c, [type |-> "SHOT"], hits)
        BY <1>2 DEF Shoot
    <2>2. [type |-> "SHOT"] \in Events
        BY DEF Events
    <2> QED BY <1>1, <2>1, <2>2, HitListsOK, Queueing
<1>3. ASSUME NEW e \in Events, Queue(c, e, <<>>) PROVE CombatInv'
    <2>1. <<>> \in Seq(Hits) /\ Len(<<>>) <= MaxHits /\ DOMAIN <<>> = {}
        BY CombatBoundsAssumption
    <2> QED BY <1>3, <2>1, Queueing
<1>4. CASE Throw(c)
    <2>1. PICK id \in Ids : Queue(c, [type |-> "THROW", id |-> id], <<>>)
        BY <1>4 DEF Throw
    <2>2. [type |-> "THROW", id |-> id] \in Events
        BY DEF Events
    <2> QED BY <1>3, <2>1, <2>2
<1>5. CASE Explode(c)
    <2>1. PICK id \in Ids, hits \in HitLists("EXPLODE") : Queue(c, [type |-> "EXPLODE", id |-> id], hits)
        BY <1>5 DEF Explode
    <2>2. [type |-> "EXPLODE", id |-> id] \in Events
        BY DEF Events
    <2> QED BY <1>1, <2>1, <2>2, HitListsOK, Queueing
<1>6. CASE Suicide(c)
    <2>1. Queue(c, [type |-> "SUICIDE"], <<>>)
        BY <1>6 DEF Suicide
    <2>2. [type |-> "SUICIDE"] \in Events
        BY DEF Events
    <2> QED BY <1>3, <2>1, <2>2
<1> QED BY <1>2, <1>4, <1>5, <1>6

-----------------------------------------------------------------------------
(* The steps of processevents.                                             *)

LEMMA NextInLine == ASSUME NEW c \in Nat PROVE NextWho(c) \in 0..NumClients
<1> DEFINE later == {d \in Clients : d > c /\ world.conn[d] = "in"}
<1>1. later \subseteq Nat /\ later \subseteq 0..NumClients
    BY SlotsAssumption DEF Clients
<1>2. CASE later = {}
    BY <1>2, SlotsAssumption DEF NextWho
<1>3. CASE later # {}
    <2>1. Min(later) \in later
        BY <1>1, <1>3, MinOfNaturals
    <2>2. NextWho(c) = Min(later)
        BY <1>3 DEF NextWho
    <2> HIDE DEF later
    <2> QED BY <1>1, <2>1, <2>2
<1> QED BY <1>2, <1>3

\* A step that looks at no hit afterwards, or at the same.
LEMMA RunInv ==
    ASSUME CombatInv, WorldOK(world'), harm' = {}, pc' \in [who : 0..NumClients, hit : {0}]
    PROVE  CombatInv'
<1>1. pc'.hit = 0 /\ pc' \in [who : 0..NumClients, hit : 0..MaxHits + 1]
    BY CombatBoundsAssumption
<1> QED BY <1>1 DEF CombatInv, HitsTheLifeAimedAt

LEMMA Running ==
    ASSUME CombatInv, who # 0
    PROVE  /\ who \in Clients /\ who \in Nat /\ WorldOK(world) /\ Mine \in Seq(Things)
           /\ QueueOK(Mine, world.life) /\ world.life \in Lives
           /\ pc = [who |-> who, hit |-> pc.hit] /\ pc.hit \in 0..MaxHits + 1
<1>1. WorldOK(world) /\ who \in 0..NumClients /\ pc \in [who : 0..NumClients, hit : 0..MaxHits + 1]
    BY DEF CombatInv, who
<1>2. who \in Clients /\ who \in Nat /\ pc = [who |-> who, hit |-> pc.hit] /\ pc.hit \in 0..MaxHits + 1
    BY <1>1, SlotsAssumption DEF Clients, who
<1> QED BY <1>1, <1>2, WorldParts DEF WorldOK, Mine

LEMMA BeginningEvents == ASSUME CombatInv, BeginEvents PROVE CombatInv'
<1>1. WorldOK(world') /\ harm' = {} /\ pc' = [who |-> NextWho(0), hit |-> 0]
    BY DEF BeginEvents, Harmless, At, CombatInv
<1> QED BY <1>1, NextInLine, RunInv

LEMMA NextClientsTurn == ASSUME CombatInv, NextClient PROVE CombatInv'
<1>1. /\ who # 0 /\ harm' = {} /\ pc' = [who |-> NextWho(who), hit |-> 0]
      /\ world' = IF world.conn[who] = "in" THEN world ELSE MapChange(world, who)
    BY DEF NextClient, Harmless, At
<1>2. who \in Clients /\ who \in Nat /\ WorldOK(world)
    BY <1>1, Running
<1>3. WorldOK(MapChange(world, who))
    <2>1. {who} \in SUBSET Clients
        BY <1>2
    <2> QED BY <1>2, <2>1, MapChanging DEF MapChange
<1>4. WorldOK(world')
    BY <1>1, <1>2, <1>3
<1> QED BY <1>1, <1>2, <1>4, NextInLine, RunInv

LEMMA Passing == ASSUME CombatInv, PassEvent PROVE CombatInv'
<1>1. /\ who # 0 /\ pc.hit = 0 /\ Mine # <<>> /\ world' = Cleared(world, who) /\ harm' = {} /\ pc' = pc
    BY DEF PassEvent, Harmless
<1>2. who \in Clients /\ WorldOK(world) /\ pc = [who |-> who, hit |-> 0] /\ who \in 0..NumClients
    BY <1>1, Running DEF CombatInv, who
<1>3. WorldOK(world')
    BY <1>1, <1>2, Clearing DEF Mine
<1> QED BY <1>1, <1>2, <1>3, RunInv

LEMMA Suiciding == ASSUME CombatInv, ProcessSuicide PROVE CombatInv'
<1> DEFINE u == [world EXCEPT !.state[who] = "DYING"]
<1>1. /\ who # 0 /\ pc.hit = 0 /\ Mine # <<>> /\ world' = Cleared(u, who) /\ harm' = {} /\ pc' = pc
    BY DEF ProcessSuicide, AtHead, Killed, Harmless
<1>2. who \in Clients /\ WorldOK(world) /\ pc = [who |-> who, hit |-> 0] /\ who \in 0..NumClients
    BY <1>1, Running DEF CombatInv, who
<1>3. WorldOK(u) /\ u.queue = world.queue
    BY <1>2, StateChanging
<1> HIDE DEF u
<1>4. WorldOK(world')
    BY <1>1, <1>2, <1>3, Clearing DEF Mine
<1> QED BY <1>1, <1>2, <1>4, RunInv

\* The list of grenades of a client and what it has in the air change together.
Armed(w, c, gs, air) ==
    [w EXCEPT !.grenades = [w.grenades EXCEPT ![c] = gs], !.air = [w.air EXCEPT ![c] = air]]

LEMMA GrenadesChanging ==
    ASSUME NEW w, WorldOK(w), NEW c \in Clients, NEW gs \in Seq(Ids), NEW air \in [Ids -> Int], InTheAir(gs, air)
    PROVE  /\ WorldOK(Armed(w, c, gs, air))
           /\ Armed(w, c, gs, air).queue = w.queue
<1> DEFINE grenades == [w.grenades EXCEPT ![c] = gs]
           airs == [w.air EXCEPT ![c] = air]
           v == [w EXCEPT !.grenades = grenades, !.air = airs]
<1>0. w \in Worlds
    BY DEF WorldOK
<1>1. /\ grenades \in [Clients -> Seq(Ids)] /\ airs \in [Clients -> [Ids -> Int]]
      /\ \A d \in Clients : /\ grenades[d] = (IF d = c THEN gs ELSE w.grenades[d])
                             /\ airs[d] = (IF d = c THEN air ELSE w.air[d])
    <2>1. w.grenades \in [Clients -> Seq(Ids)] /\ w.air \in [Clients -> [Ids -> Int]]
        BY DEF WorldOK, Worlds
    <2> QED BY <2>1
<1> HIDE DEF grenades, airs
<1>2. v \in Worlds /\ v.queue = w.queue /\ v.life = w.life /\ v.grenades = grenades /\ v.air = airs
    BY <1>1 DEF WorldOK, Worlds
<1> HIDE DEF v
<1>3. \A d \in Clients : QueueOK(v.queue[d], v.life) /\ InTheAir(v.grenades[d], v.air[d])
    BY <1>1, <1>2 DEF WorldOK
<1>4. WorldOK(v) /\ v.queue = w.queue
    BY <1>2, <1>3 DEF WorldOK
<1> QED BY <1>4 DEF Armed, v, grenades, airs

\* A grenade is thrown: the lists change, then the event goes.
LEMMA ThrowAdds ==
    ASSUME CombatInv, ProcessThrow
    PROVE  \E u : WorldOK(u) /\ u.queue = world.queue /\ world' = Cleared(u, who)
<1> DEFINE id == Head(Mine).id
           gs == Added(world.grenades[who], id)
           air == [world.air[who] EXCEPT ![id] = @ + 1]
           u == Armed(world, who, gs, air)
<1>1. /\ who # 0 /\ pc.hit = 0 /\ Mine # <<>> /\ Head(Mine).type = "THROW" /\ harm' = {} /\ pc' = pc
      /\ world' = Cleared([world EXCEPT !.grenades[who] = Added(@, id), !.air[who][id] = @ + 1], who)
    BY DEF ProcessThrow, AtHead, Harmless
<1>2. /\ who \in Clients /\ WorldOK(world) /\ pc = [who |-> who, hit |-> 0] /\ who \in 0..NumClients
      /\ Mine \in Seq(Things)
    BY <1>1, Running DEF CombatInv, who
<1>3. id \in Ids
    <2>1. Head(Mine) \in Things
        BY <1>1, <1>2
    <2> QED BY <2>1, <1>1 DEF Things, Events, Hits
<1> HIDE DEF id
<1>4. /\ world.grenades[who] \in Seq(Ids) /\ world.air[who] \in [Ids -> Int]
      /\ InTheAir(world.grenades[who], world.air[who])
    BY <1>2, WorldParts DEF WorldOK
<1>5. gs \in Seq(Ids) /\ InTheAir(gs, air) /\ air \in [Ids -> Int]
    BY <1>3, <1>4, AddedGrenade
<1>6. [world EXCEPT !.grenades[who] = Added(@, id), !.air[who][id] = @ + 1] = u
    BY <1>2 DEF WorldOK, Worlds, Armed
<1> HIDE DEF gs, air
<1>7. WorldOK(u) /\ u.queue = world.queue
    BY <1>2, <1>5, GrenadesChanging
<1> HIDE DEF u
<1> QED BY <1>1, <1>6, <1>7

LEMMA Throwing == ASSUME CombatInv, ProcessThrow PROVE CombatInv'
<1>1. /\ who # 0 /\ pc.hit = 0 /\ Mine # <<>> /\ harm' = {} /\ pc' = pc
    BY DEF ProcessThrow, AtHead, Harmless
<1>2. who \in Clients /\ pc = [who |-> who, hit |-> 0] /\ who \in 0..NumClients
    BY <1>1, Running DEF CombatInv, who
<1>3. PICK u : WorldOK(u) /\ u.queue = world.queue /\ world' = Cleared(u, who)
    BY ThrowAdds
<1>4. WorldOK(world')
    BY <1>1, <1>2, <1>3, Clearing DEF Mine
<1> QED BY <1>1, <1>2, <1>4, RunInv

\* The hits of the event at the head are looked at from the first on.
LEMMA HitsBegin ==
    ASSUME CombatInv, who # 0, Mine # <<>>, Head(Mine).type \in {"SHOT", "EXPLODE"},
           WorldOK(world'), world'.queue = world.queue, harm' = {}, pc' = [who |-> who, hit |-> 1]
    PROVE  CombatInv'
<1>1. who \in Clients /\ Mine \in Seq(Things) /\ who \in 0..NumClients
    BY Running DEF CombatInv, who
<1>2. /\ pc' \in [who : 0..NumClients, hit : 0..MaxHits + 1] /\ pc'.hit = 1
      /\ Mine' = Mine /\ who' = who
    BY <1>1, CombatBoundsAssumption DEF who, Mine
<1>3. AtHit(Mine, 1)
    BY <1>1 DEF AtHit
<1> QED BY <1>2, <1>3 DEF CombatInv, HitsTheLifeAimedAt

LEMMA Shooting == ASSUME CombatInv, ProcessShot PROVE CombatInv'
<1>1. /\ who # 0 /\ Mine # <<>> /\ Head(Mine).type = "SHOT" /\ harm' = {} /\ world' = world
      /\ pc' = [who |-> who, hit |-> 1]
    BY DEF ProcessShot, AtHead, Harmless, At
<1>2. WorldOK(world') /\ world'.queue = world.queue
    BY <1>1, Running
<1> QED BY <1>1, <1>2, HitsBegin

LEMMA Exploding == ASSUME CombatInv, ProcessExplode PROVE CombatInv'
<1> DEFINE id == Head(Mine).id
           gs == Removed(world.grenades[who], id)
           air == [world.air[who] EXCEPT ![id] = @ - 1]
           u == Armed(world, who, gs, air)
<1>1. /\ who # 0 /\ pc.hit = 0 /\ Mine # <<>> /\ Head(Mine).type = "EXPLODE" /\ harm' = {}
      /\ pc' = [who |-> who, hit |-> 1] /\ id \in ToSet(world.grenades[who])
      /\ world' = [world EXCEPT !.grenades[who] = Removed(@, id), !.air[who][id] = @ - 1]
    BY DEF ProcessExplode, AtHead, Harmless, At
<1>2. who \in Clients /\ WorldOK(world)
    BY <1>1, Running
<1> HIDE DEF id
<1>3. /\ world.grenades[who] \in Seq(Ids) /\ world.air[who] \in [Ids -> Int]
      /\ InTheAir(world.grenades[who], world.air[who])
    BY <1>2, WorldParts DEF WorldOK
<1>4. gs \in Seq(Ids) /\ InTheAir(gs, air) /\ air \in [Ids -> Int]
    BY <1>1, <1>3, RemovedGrenade
<1>5. world' = u
    BY <1>1, <1>2 DEF WorldOK, Worlds, Armed
<1> HIDE DEF gs, air
<1>6. WorldOK(u) /\ u.queue = world.queue
    BY <1>2, <1>4, GrenadesChanging
<1> HIDE DEF u
<1>7. WorldOK(world') /\ world'.queue = world.queue
    BY <1>5, <1>6
<1> QED BY <1>1, <1>7, HitsBegin

\* A hit counts only if its target lives the life it names: not an earlier one.
LEMMA Hitting == ASSUME CombatInv, ProcessHit PROVE CombatInv'
<1> DEFINE i == pc.hit + 1
           h == Mine[i]
<1>1. /\ who # 0 /\ pc.hit > 0 /\ IsHit(Mine, i) /\ pc' = [who |-> who, hit |-> i]
      /\ \/ harm' = {} /\ world' = world
         \/ Hittable(i) /\ world' \in Damaged(world, h.target, who) /\ harm' = {h}
    BY DEF ProcessHit, Harmless, At
<1>2. /\ who \in Clients /\ WorldOK(world) /\ Mine \in Seq(Things) /\ QueueOK(Mine, world.life)
      /\ pc.hit \in 0..MaxHits + 1 /\ who \in 0..NumClients /\ world.life \in Lives
    BY <1>1, Running DEF CombatInv, who
<1>3. AtHit(Mine, pc.hit)
    BY <1>1 DEF CombatInv
<1>4. i \in DOMAIN Mine /\ h.type = "HIT" /\ h \in Hits /\ i \in 2..MaxHits + 2
    <2>1. i \in DOMAIN Mine /\ h.type = "HIT" /\ h \in Things
        BY <1>1, <1>2 DEF IsHit
    <2> QED BY <2>1, <1>1, <1>2, HitsAndEvents, CombatBoundsAssumption
<1>5. i \in 0..MaxHits + 1
    <2>1. PICK j \in DOMAIN Mine : j < i /\ i - j <= MaxHits /\ Mine[j].type # "HIT"
        BY <1>2, <1>4 DEF QueueOK, RunsEnd
    <2>2. j = 1
        <3>1. j \in Nat \ {0} /\ j <= pc.hit
            BY <1>2, <2>1
        <3>2. \A k \in 2..pc.hit : IsHit(Mine, k)
            BY <1>3 DEF AtHit
        <3> QED BY <3>1, <3>2, <2>1, <1>2 DEF IsHit
    <2> QED BY <2>1, <2>2, <1>4, CombatBoundsAssumption
<1>6. AtHit(Mine, i)
    <2>1. \A k \in 2..i : IsHit(Mine, k)
        <3>1. \A k \in 2..i : k \in 2..pc.hit \/ k = i
            BY <1>2
        <3> QED BY <3>1, <1>1, <1>3 DEF AtHit
    <2> QED BY <2>1, <1>3 DEF AtHit
<1>7. WorldOK(world') /\ SameRun(world.queue[who], world'.queue[who])
    <2>1. CASE world' = world
        BY <2>1, <1>2, SameQueue
    <2>2. CASE world' \in Damaged(world, h.target, who)
        <3>1. h.target \in Clients
            BY <1>4 DEF Hits
        <3> QED BY <2>2, <3>1, <1>2, Damaging DEF who
    <2> QED BY <2>1, <2>2, <1>1
<1>8. AtHit(world'.queue[who], i)
    <2>1. world'.queue[who] \in Seq(Things) /\ world.queue[who] \in Seq(Things)
        BY <1>2, <1>7, WorldParts
    <2> QED BY <2>1, <1>6, <1>7, RunGoesOn DEF Mine
<1>9. harm' \in SUBSET Hits /\ \A g \in harm' : g.over => g.renewed
    <2>1. CASE harm' = {}
        BY <2>1
    <2>2. CASE Hittable(i) /\ harm' = {h}
        <3>1. h.life = world.life[h.target]
            BY <2>2 DEF Hittable
        <3>2. NotAhead(h, world.life)
            BY <1>2, <1>4 DEF QueueOK
        <3>3. world.life[h.target] \in Int
            <4>1. h.target \in Clients
                BY <1>4 DEF Hits
            <4>2. world.life \in [Clients -> -1..MaxLife] /\ -1..MaxLife \subseteq Int
                BY <1>2 DEF Lives
            <4> QED BY <4>1, <4>2
        <3>4. h.over => h.renewed
            BY <3>1, <3>2, <3>3, <1>4 DEF NotAhead
        <3> QED BY <2>2, <3>4, <1>4
    <2> QED BY <2>1, <2>2, <1>1
<1>10. pc' \in [who : 0..NumClients, hit : 0..MaxHits + 1] /\ pc'.hit = i /\ who' = who /\ Mine' = world'.queue[who]
    BY <1>1, <1>2, <1>5 DEF who, Mine
<1> HIDE DEF i
<1> QED BY <1>1, <1>7, <1>8, <1>9, <1>10 DEF CombatInv, HitsTheLifeAimedAt

LEMMA HitsEnding == ASSUME CombatInv, HitsDone PROVE CombatInv'
<1>1. /\ who # 0 /\ pc.hit > 0 /\ world' = Cleared(world, who) /\ harm' = {}
      /\ pc' = [who |-> who, hit |-> 0]
    BY DEF HitsDone, Harmless, At
<1>2. who \in Clients /\ WorldOK(world) /\ who \in 0..NumClients
    BY <1>1, Running DEF CombatInv, who
<1>3. Mine # <<>>
    BY <1>1 DEF CombatInv, AtHit
<1>4. WorldOK(world')
    BY <1>1, <1>2, <1>3, Clearing DEF Mine
<1> QED BY <1>1, <1>2, <1>4, RunInv

-----------------------------------------------------------------------------
(***************************************************************************)
(* Why processevents comes to an end (the part of SliceEnds that is not    *)
(* about fairness).  Each turn leaves the client for a later one, or makes *)
(* its queue shorter, or goes to the next of its hits; and no turn puts    *)
(* anything into a queue, neither that of the client nor one further on.   *)
(* What could spoil it is clearevent on a queue that was emptied while a   *)
(* shot was looked at: it would make a length of -1, hence Rubble.  But    *)
(* the queue that is run is only ever emptied by its own turns.            *)
(***************************************************************************)

\* No queue gets longer.
NoLonger(w, v) == \A c \in Clients : Len(v.queue[c]) <= Len(w.queue[c])

LEMMA Shrinking ==
    ASSUME NEW u, NEW v, NEW w, WorldOK(u), WorldOK(v), WorldOK(w), NoLonger(u, v), NoLonger(v, w)
    PROVE  NoLonger(u, w)
<1> SUFFICES ASSUME NEW c \in Clients PROVE Len(w.queue[c]) <= Len(u.queue[c])
    BY DEF NoLonger
<1>1. Len(u.queue[c]) \in Nat /\ Len(v.queue[c]) \in Nat /\ Len(w.queue[c]) \in Nat
    <2>1. u.queue[c] \in Seq(Things) /\ v.queue[c] \in Seq(Things) /\ w.queue[c] \in Seq(Things)
        BY WorldParts
    <2> HIDE DEF Things
    <2> QED BY <2>1
<1> QED BY <1>1 DEF NoLonger

LEMMA SameLength ==
    ASSUME NEW w, WorldOK(w), NEW v, v.queue = w.queue
    PROVE  NoLonger(w, v)
<1> SUFFICES ASSUME NEW c \in Clients PROVE Len(w.queue[c]) <= Len(w.queue[c])
    BY DEF NoLonger
<1>1. w.queue[c] \in Seq(Things)
    BY WorldParts
<1> QED BY <1>1

\* A queue with the same places has the same length.
LEMMA LengthOfRun ==
    ASSUME NEW q \in Seq(Things), NEW r \in Seq(Things), SameRun(q, r)
    PROVE  Len(r) = Len(q) /\ Len(q) \in Nat
<1>1. 1..Len(q) = 1..Len(r) /\ Len(q) \in Nat /\ Len(r) \in Nat
    BY DEF SameRun
<1> QED BY <1>1

LEMMA MapChangeShrinks ==
    ASSUME NEW w, WorldOK(w), NEW cs \in SUBSET Clients
    PROVE  NoLonger(w, MapChanged(w, cs))
<1> DEFINE v == MapChanged(w, cs)
<1> SUFFICES ASSUME NEW c \in Clients PROVE Len(v.queue[c]) <= Len(w.queue[c])
    BY DEF NoLonger
<1>1. WorldOK(v) /\ \A d \in Clients \ cs : SameRun(w.queue[d], v.queue[d])
    BY MapChanging
<1>2. v.queue[c] \in Seq(Things) /\ w.queue[c] \in Seq(Things)
    BY <1>1, WorldParts
<1>3. CASE c \in cs
    <2>1. v.queue[c] = <<>>
        BY <1>3 DEF MapChanged, WorldOK, Worlds
    <2> HIDE DEF v
    <2> QED BY <2>1, <1>2
<1>4. CASE c \notin cs
    <2> HIDE DEF v
    <2> QED BY <1>1, <1>2, <1>4, LengthOfRun
<1> QED BY <1>3, <1>4

LEMMA ZapShrinks ==
    ASSUME NEW w, WorldOK(w), NEW c \in Clients
    PROVE  NoLonger(w, Zapped(w, c))
<1> DEFINE u == IF c = pc.who THEN w ELSE MapChange(w, c)
<1>1. Zapped(w, c) = [u EXCEPT !.conn[c] = "empty"]
    BY DEF Zapped
<1>2. WorldOK(u) /\ NoLonger(w, u)
    <2>1. {c} \in SUBSET Clients
        OBVIOUS
    <2> QED BY <2>1, MapChanging, MapChangeShrinks, SameLength DEF MapChange
<1> HIDE DEF u
<1>3. Zapped(w, c).queue = u.queue
    BY <1>1, <1>2 DEF WorldOK, Worlds
<1> QED BY <1>2, <1>3 DEF NoLonger

LEMMA GameShrinks ==
    ASSUME NEW w, WorldOK(w)
    PROVE  NoLonger(w, GameStarted(w))
<1> DEFINE v == [w EXCEPT !.young = TRUE]
           cs == {c \in Clients : w.conn[c] = "in"}
<1>1. /\ v \in Worlds /\ v.queue = w.queue /\ v.life = w.life /\ v.grenades = w.grenades
      /\ v.air = w.air
    BY DEF WorldOK, Worlds
<1>2. GameStarted(w) = MapChanged(v, cs) /\ cs \in SUBSET Clients
    BY DEF GameStarted
<1> HIDE DEF v, cs
<1>3. WorldOK(v)
    BY <1>1, Elsewhere
<1>4. NoLonger(v, MapChanged(v, cs))
    BY <1>2, <1>3, MapChangeShrinks
<1> QED BY <1>1, <1>2, <1>4 DEF NoLonger

LEMMA LeavingShrinks ==
    ASSUME NEW w, WorldOK(w), NEW c \in Clients, NEW v \in Left(w, c)
    PROVE  NoLonger(w, v)
<1> DEFINE gone == Zapped(w, c)
<1>1. WorldOK(gone) /\ NoLonger(w, gone)
    BY Zapping, ZapShrinks
<1>2. \/ v = gone \/ v = GameStarted(gone) \/ \E d \in Clients : v = Zapped(gone, d)
      \/ \E cs \in SUBSET Clients : v = ForcedDead(gone, cs)
    BY DEF Left
<1> HIDE DEF gone
<1>3. CASE v = gone
    BY <1>1, <1>3
<1>4. CASE v = GameStarted(gone)
    BY <1>1, <1>4, GameStarting, GameShrinks, Shrinking
<1>5. ASSUME NEW d \in Clients, v = Zapped(gone, d) PROVE NoLonger(w, v)
    BY <1>1, <1>5, Zapping, ZapShrinks, Shrinking
<1>6. ASSUME NEW cs \in SUBSET Clients, v = ForcedDead(gone, cs) PROVE NoLonger(w, v)
    <2>1. WorldOK(v) /\ v.queue = gone.queue
        BY <1>1, <1>6, ForcingDeaths
    <2>2. NoLonger(gone, v)
        BY <1>1, <2>1, SameLength
    <2> QED BY <1>1, <2>1, <2>2, Shrinking
<1> QED BY <1>2, <1>3, <1>4, <1>5, <1>6

LEMMA DamageShrinks ==
    ASSUME NEW w, WorldOK(w), NEW c \in Clients, pc.who \in Clients, NEW v \in Damaged(w, c, pc.who)
    PROVE  NoLonger(w, v)
<1> DEFINE dead == [w EXCEPT !.state[c] = "DYING"]
<1>1. WorldOK(dead) /\ dead.queue = w.queue
    BY StateChanging
<1>2. v = w \/ v = dead \/ v \in Left(dead, pc.who)
    BY DEF Damaged
<1> HIDE DEF dead
<1>3. CASE v \in Left(dead, pc.who)
    <2>1. NoLonger(dead, v)
        BY <1>1, <1>3, LeavingShrinks
    <2> QED BY <1>1, <2>1 DEF NoLonger
<1> QED BY <1>1, <1>2, <1>3, SameLength

\* clearevent takes at least the event.
LEMMA ClearingShrinks ==
    ASSUME NEW w, WorldOK(w), NEW c \in Clients, w.queue[c] # <<>>
    PROVE  NoLonger(w, Cleared(w, c)) /\ Len(Cleared(w, c).queue[c]) < Len(w.queue[c])
<1> DEFINE q == w.queue[c]
           next == {i \in 2..Len(q) : q[i].type # "HIT"}
           r == IF next = {} THEN <<>> ELSE SubSeq(q, Min(next), Len(q))
<1>1. Cleared(w, c).queue = [w.queue EXCEPT ![c] = r]
    BY DEF Cleared, WorldOK, Worlds
<1>2. w.queue \in [Clients -> Seq(Things)] /\ q \in Seq(Things)
    BY WorldParts
<1>3. Len(r) < Len(q) /\ Len(q) \in Nat
    <2>1. Len(q) \in Nat \ {0} /\ next \subseteq Nat /\ Len(<<>>) = 0
        BY <1>2
    <2>2. CASE next # {}
        <3>1. Min(next) \in next
            BY <2>1, <2>2, MinOfNaturals
        <3>2. Min(next) \in 2..Len(q)
            BY <3>1
        <3> DEFINE m == Min(next)
        <3>3. r = SubSeq(q, m, Len(q)) /\ m \in 2..Len(q)
            BY <2>2, <3>2
        <3> HIDE DEF m, next, r, q
        <3>4. Len(SubSeq(q, m, Len(q))) = Len(q) - m + 1
            BY <3>3, <1>2, <2>1
        <3> QED BY <3>3, <3>4, <2>1
    <2>3. CASE next = {}
        <3>1. r = <<>>
            BY <2>3
        <3> HIDE DEF r, next
        <3> QED BY <3>1, <2>1
    <2> QED BY <2>2, <2>3
<1> HIDE DEF r
<1>4. ASSUME NEW d \in Clients PROVE Len(Cleared(w, c).queue[d]) <= Len(w.queue[d])
    <2>1. w.queue[d] \in Seq(Things)
        BY WorldParts
    <2>2. Len(w.queue[d]) \in Nat
        BY <2>1
    <2>3. Cleared(w, c).queue[d] = IF d = c THEN r ELSE w.queue[d]
        BY <1>1, <1>2
    <2> QED BY <1>3, <2>2, <2>3
<1> QED BY <1>1, <1>2, <1>3, <1>4 DEF NoLonger

\* A turn of processevents brings it nearer to its end.
GoesOn ==
    /\ NoLonger(world, world')
    /\ \/ who' = 0 \/ who' > who
       \/ who' = who /\ Len(Mine') < Len(Mine)
       \/ who' = who /\ Len(Mine') = Len(Mine) /\ pc'.hit > pc.hit /\ pc'.hit <= Len(Mine')

\* The next client is one further on.
LEMMA LaterClient == ASSUME NEW c \in Nat PROVE NextWho(c) = 0 \/ NextWho(c) > c
<1> DEFINE later == {d \in Clients : d > c /\ world.conn[d] = "in"}
<1>1. later \subseteq Nat
    BY SlotsAssumption DEF Clients
<1>2. CASE later # {}
    <2>1. Min(later) \in later
        BY <1>1, <1>2, MinOfNaturals
    <2> QED BY <1>2, <2>1 DEF NextWho
<1> QED BY <1>2 DEF NextWho

LEMMA ClientDone == ASSUME CombatInv, NextClient PROVE GoesOn
<1>1. /\ who # 0 /\ who' = NextWho(who)
      /\ world' = IF world.conn[who] = "in" THEN world ELSE MapChange(world, who)
    BY DEF NextClient, At, who
<1>2. who \in Clients /\ who \in Nat /\ WorldOK(world)
    BY <1>1, Running
<1>3. NoLonger(world, world')
    <2>1. {who} \in SUBSET Clients
        BY <1>2
    <2> QED BY <1>1, <1>2, <2>1, MapChangeShrinks, SameLength DEF MapChange
<1>4. who' = 0 \/ who' > who
    BY <1>1, <1>2, LaterClient
<1> QED BY <1>3, <1>4 DEF GoesOn

\* An event goes, from a world that differs from this one in other things than queues.
LEMMA EventDone ==
    ASSUME CombatInv, who # 0, Mine # <<>>, NEW u, WorldOK(u), u.queue = world.queue,
           world' = Cleared(u, who), who' = who
    PROVE  GoesOn
<1>1. who \in Clients
    BY Running
<1>2. NoLonger(u, world') /\ Len(world'.queue[who]) < Len(u.queue[who])
    BY <1>1, ClearingShrinks DEF Mine
<1>3. Mine' = world'.queue[who]
    BY DEF Mine
<1> QED BY <1>2, <1>3 DEF GoesOn, NoLonger, Mine

LEMMA ThrowDone == ASSUME CombatInv, ProcessThrow PROVE GoesOn
<1>1. who # 0 /\ Mine # <<>> /\ who' = who
    BY DEF ProcessThrow, AtHead, who
<1> QED BY <1>1, ThrowAdds, EventDone

LEMMA PassedOver == ASSUME CombatInv, PassEvent PROVE GoesOn
<1>1. who # 0 /\ Mine # <<>> /\ world' = Cleared(world, who) /\ who' = who /\ WorldOK(world)
    BY DEF PassEvent, CombatInv, who
<1> QED BY <1>1, EventDone

LEMMA SuicideDone == ASSUME CombatInv, ProcessSuicide PROVE GoesOn
<1>1. /\ who # 0 /\ Mine # <<>> /\ who' = who
      /\ world' = Cleared([world EXCEPT !.state[who] = "DYING"], who)
    BY DEF ProcessSuicide, AtHead, Killed, who
<1>2. who \in Clients /\ WorldOK(world)
    BY <1>1, Running
<1>3. PICK u : WorldOK(u) /\ u.queue = world.queue /\ world' = Cleared(u, who)
    BY <1>1, <1>2, StateChanging
<1> QED BY <1>1, <1>3, EventDone

\* The end of the hits: the shot is still at the head, so there is something to remove.
LEMMA ShotDone == ASSUME CombatInv, HitsDone PROVE GoesOn
<1>1. who # 0 /\ Mine # <<>> /\ world' = Cleared(world, who) /\ who' = who /\ WorldOK(world)
    BY DEF HitsDone, At, CombatInv, AtHit, who
<1> QED BY <1>1, EventDone

\* The event or one of its hits is done, and the next hit is not behind the end of the queue.
LEMMA HitDone ==
    ASSUME CombatInv, CombatInv', who # 0, pc' = [who |-> who, hit |-> pc.hit + 1],
           NoLonger(world, world'), SameRun(world.queue[who], world'.queue[who])
    PROVE  GoesOn
<1>1. who \in Clients /\ Mine \in Seq(Things) /\ pc.hit \in Nat /\ WorldOK(world')
    BY Running, CombatBoundsAssumption DEF CombatInv
<1>2. who' = who /\ pc'.hit = pc.hit + 1 /\ Mine' = world'.queue[who]
    BY DEF who, Mine
<1>3. Mine' \in Seq(Things)
    BY <1>1, <1>2, WorldParts
<1>4. Len(Mine') = Len(Mine) /\ Len(Mine) \in Nat
    BY <1>1, <1>2, <1>3, LengthOfRun DEF Mine
<1>5. AtHit(Mine', pc'.hit)
    BY <1>1, <1>2 DEF CombatInv
<1>6. pc'.hit <= Len(Mine')
    <2>1. CASE pc'.hit = 1
        BY <2>1, <1>3, <1>5 DEF AtHit
    <2>2. CASE pc'.hit \in 2..pc'.hit
        BY <2>2, <1>3, <1>5 DEF AtHit, IsHit
    <2> QED BY <2>1, <2>2, <1>1, <1>2
<1> QED BY <1>1, <1>2, <1>4, <1>6 DEF GoesOn

LEMMA ShotBegun == ASSUME CombatInv, ProcessShot PROVE GoesOn
<1>1. who # 0 /\ pc.hit = 0 /\ pc' = [who |-> who, hit |-> 1] /\ world' = world
    BY DEF ProcessShot, AtHead, At
<1>2. CombatInv' /\ WorldOK(world)
    BY Shooting DEF CombatInv
<1> QED BY <1>1, <1>2, SameLength, SameQueue, HitDone

LEMMA ExplosionBegun == ASSUME CombatInv, ProcessExplode PROVE GoesOn
<1>1. who # 0 /\ pc.hit = 0 /\ pc' = [who |-> who, hit |-> 1]
    BY DEF ProcessExplode, AtHead, At
<1>2. CombatInv' /\ WorldOK(world)
    BY Exploding DEF CombatInv
<1>3. world'.queue = world.queue
    BY <1>2 DEF ProcessExplode, WorldOK, Worlds
<1>4. NoLonger(world, world')
    BY <1>2, <1>3, SameLength
<1> QED BY <1>1, <1>2, <1>3, <1>4, SameQueue, HitDone

LEMMA HitLookedAt == ASSUME CombatInv, ProcessHit PROVE GoesOn
<1> DEFINE h == Mine[pc.hit + 1]
<1>1. /\ who # 0 /\ IsHit(Mine, pc.hit + 1) /\ pc' = [who |-> who, hit |-> pc.hit + 1]
      /\ world' = world \/ world' \in Damaged(world, h.target, who)
    BY DEF ProcessHit, At
<1>2. CombatInv' /\ who \in Clients /\ WorldOK(world) /\ Mine \in Seq(Things)
    BY <1>1, Hitting, Running
<1>3. h.target \in Clients
    BY <1>1, <1>2, HitsAndEvents DEF IsHit, Hits
<1> HIDE DEF h
<1>4. NoLonger(world, world') /\ SameRun(world.queue[who], world'.queue[who])
    <2>1. CASE world' = world
        BY <2>1, <1>2, SameLength, SameQueue
    <2>2. CASE world' \in Damaged(world, h.target, who)
        BY <2>2, <1>2, <1>3, Damaging, DamageShrinks DEF who
    <2> QED BY <1>1, <2>1, <2>2
<1> QED BY <1>1, <1>2, <1>4, HitDone

-----------------------------------------------------------------------------
(* The theorems.                                                           *)

LEMMA CombatBegins == Init => CombatInv
<1> SUFFICES ASSUME Init PROVE CombatInv
    OBVIOUS
<1>1. /\ world.conn = [c \in Clients |-> "empty"] /\ world.state = [c \in Clients |-> "DEAD"]
      /\ world.life = [c \in Clients |-> -1] /\ world.awaiting = [c \in Clients |-> FALSE]
      /\ world.grenades = [c \in Clients |-> <<>>] /\ world.queue = [c \in Clients |-> <<>>]
      /\ world.young = TRUE /\ world.air = [c \in Clients |-> [id \in Ids |-> 0]]
      /\ pc = [who |-> 0, hit |-> 0] /\ harm = {}
    BY DEF Init, Idle
<1>2. world = [conn |-> world.conn, state |-> world.state, life |-> world.life, awaiting |-> world.awaiting,
               grenades |-> world.grenades, queue |-> world.queue, young |-> world.young, air |-> world.air]
    BY DEF Init
<1>3. /\ world.conn \in [Clients -> {"empty", "in"}] /\ world.state \in [Clients -> {"ALIVE", "DYING", "DEAD"}]
      /\ world.life \in [Clients -> -1..MaxLife]
      /\ world.grenades \in [Clients -> Seq(Ids)] /\ world.queue \in [Clients -> Seq(Things)]
      /\ world.air \in [Clients -> [Ids -> Int]]
    BY <1>1, CombatBoundsAssumption
<1>4. world.awaiting \in [Clients -> BOOLEAN] /\ world.young \in BOOLEAN
    <2>1. [c \in Clients |-> FALSE] \in [Clients -> BOOLEAN] /\ TRUE \in BOOLEAN
        OBVIOUS
    <2> QED BY <1>1, <2>1, Zenon
<1>5. world \in Worlds
    BY <1>2, <1>3, <1>4, Zenon DEF Worlds, Things
<1>6. ASSUME NEW c \in Clients
      PROVE  QueueOK(world.queue[c], world.life) /\ InTheAir(world.grenades[c], world.air[c])
    <2>1. world.queue[c] = <<>> /\ world.grenades[c] = <<>> /\ world.air[c] = [id \in Ids |-> 0]
        BY <1>1
    <2>2. \A id \in Ids : Places(<<>>, id) = {}
        BY DEF Places
    <2>3. InTheAir(world.grenades[c], world.air[c])
        <3>1. Cardinality({}) = 0
            BY FS_EmptySet, Zenon
        <3>2. \A id \in Ids : [i \in Ids |-> 0][id] = 0
            OBVIOUS
        <3> DEFINE none == [id \in Ids |-> 0]
        <3>3. InTheAir(<<>>, none)
            <4> HIDE DEF none
            <4>1. \A id \in Ids : none[id] = 0
                BY <3>2 DEF none
            <4>2. ASSUME NEW id \in Ids PROVE Cardinality(Places(<<>>, id)) <= none[id]
                <5>1. Cardinality(Places(<<>>, id)) = 0
                    BY <2>2, <3>1, Zenon
                <5> QED BY <5>1, <4>1
            <4> QED BY <4>2 DEF InTheAir
        <3> QED BY <2>1, <3>3
    <2>4. QueueOK(<<>>, world.life)
        BY DEF QueueOK, HitsBehind, RunsEnd
    <2> QED BY <2>1, <2>3, <2>4
<1>7. pc \in [who : 0..NumClients, hit : 0..MaxHits + 1] /\ pc.hit = 0
    BY <1>1, SlotsAssumption, CombatBoundsAssumption
<1> QED BY <1>1, <1>5, <1>6, <1>7 DEF CombatInv, WorldOK, HitsTheLifeAimedAt

LEMMA CombatInvariance == CombatInv /\ [Next]_vars => CombatInv'
<1> SUFFICES ASSUME CombatInv, [Next]_vars PROVE CombatInv'
    OBVIOUS
<1>1. CASE UNCHANGED vars
    BY <1>1 DEF vars, CombatInv, HitsTheLifeAimedAt, Mine, who
<1>2. CASE RunEvents
    BY <1>2, NextClientsTurn, Passing, Suiciding, Throwing, Shooting, Exploding, Hitting, HitsEnding DEF RunEvents
<1> QED BY <1>1, <1>2, Connecting, Disconnecting, FetchingTheMap, StateHandling, Respawning, Sending,
           StartingAGame, TimePassing, StartingSilently, BeginningEvents DEF Next, SendGuns, SendGrenades, SendNoEvent

\* Queues, lives and lists keep their types, and processevents never looks further behind an event
\* than the hits that were sent with it.
THEOREM CombatTypeCorrect == Spec => []TypeOK
<1>1. CombatInv => TypeOK
    BY DEF CombatInv, WorldOK, TypeOK
<1> QED BY CombatBegins, CombatInvariance, <1>1, PTL DEF Spec

\* Every hit is behind the event it was sent with, whatever queues overflow, whoever is kicked and
\* whichever game starts while the queues are run.
THEOREM HitsStayWithTheirEvent == Spec => []QueuesSound
<1>1. CombatInv => QueuesSound
    BY DEF CombatInv, WorldOK, QueueOK, HitsBehind, Behind, QueuesSound
<1> QED BY CombatBegins, CombatInvariance, <1>1, PTL DEF Spec

\* No hit harms a target that was spawned again since it was sent.
THEOREM NoHitOnALaterLife == Spec => []HitsTheLifeAimedAt
<1>1. CombatInv => HitsTheLifeAimedAt
    BY DEF CombatInv
<1> QED BY CombatBegins, CombatInvariance, <1>1, PTL DEF Spec

\* No grenade explodes more often than it was thrown, whatever becomes of the list.
THEOREM GrenadesExplodeOnce == Spec => []NoExplosionWithoutThrow
<1>1. CombatInv => NoExplosionWithoutThrow
    <2> SUFFICES ASSUME CombatInv, NEW c \in Clients, NEW id \in Ids PROVE world.air[c][id] >= 0
        BY DEF NoExplosionWithoutThrow
    <2>1. WorldOK(world)
        BY DEF CombatInv
    <2>2. world.grenades[c] \in Seq(Ids) /\ world.air[c] \in [Ids -> Int]
        BY <2>1, WorldParts
    <2>3. Cardinality(Places(world.grenades[c], id)) <= world.air[c][id]
        BY <2>1 DEF WorldOK, InTheAir
    <2>4. Cardinality(Places(world.grenades[c], id)) \in Nat
        BY <2>2, FinitePlaces
    <2> QED BY <2>2, <2>3, <2>4
<1> QED BY CombatBegins, CombatInvariance, <1>1, PTL DEF Spec

\* Once processevents has begun nothing else runs, and each of its turns brings it nearer to its end, whatever
\* its events undo: a slice with any queues of any clients has finitely many turns.
THEOREM EachTurnGoesOn == Spec => [][pc # Idle => RunEvents /\ GoesOn]_vars
<1>1. CombatInv /\ [Next]_vars => [pc # Idle => RunEvents /\ GoesOn]_vars
    <2> SUFFICES ASSUME CombatInv, Next, pc # Idle PROVE RunEvents /\ GoesOn
        OBVIOUS
    <2>1. RunEvents
        BY DEF Next, SendGuns, SendGrenades, SendNoEvent, Shoot, Suicide, Throw, Explode, Queue, Connect, Disconnect,
               ReceiveMap, Tick, Respawn, Spawn, ForceDeath, StartGame, GameGoesOn, StartSilently, BeginEvents, Handled
    <2>2. GoesOn
        BY <2>1, ClientDone, PassedOver, SuicideDone, ThrowDone, ShotBegun, ExplosionBegun, HitLookedAt, ShotDone
           DEF RunEvents
    <2> QED BY <2>1, <2>2
<1> QED BY CombatBegins, CombatInvariance, <1>1, PTL DEF Spec

-----------------------------------------------------------------------------
(***************************************************************************)
(* ITEMS, for any clients, items, sizes and times; and the composition of  *)
(* Items with Combat.                                                      *)
(*                                                                         *)
(* The argument.  A round in a magazine or in stock was given; a box       *)
(* gives what it gives even if less fits.  Of an item we count how often   *)
(* it was taken: each time costs the shortest time it may need to come     *)
(* back, and what is left of that is no more than spawntime (PaidFor).  A  *)
(* round of an arena brings all items back, because none can be further    *)
(* off than RoundTime (NearEnough).                                        *)
(***************************************************************************)

Has(c, k) ==
    /\ mag[c][k] + ammo[c][k] <= given[c][k]
    /\ ammo[c][k] <= Most[k] /\ mag[c][k] <= IF k = "gun" THEN Size ELSE Most[k]

NearEnough(e) == sents[e].spawntime <= RoundTime
PaidFor(e) == taken[e] * Shortest(e) <= gamemillis - since + sents[e].spawntime
Lies(e) ==
    /\ sents[e].spawned <=> sents[e].spawntime = 0
    /\ taken[e] = 0 => sents[e].spawned
    /\ (taken[e] - 1) * Shortest(e) <= gamemillis - since

\* The rounds of clients, the items, and the rest of the state.
RoundsOK ==
    /\ ammo \in Rounds /\ mag \in Rounds /\ given \in Rounds
    /\ \A c \in Cls, k \in Kinds : Has(c, k)
Sents == [spawned : BOOLEAN, spawntime : Nat]
EntitiesOK ==
    /\ m_lss \in BOOLEAN
    /\ sents \in [Entities -> Sents] /\ taken \in [Entities -> Nat]
    /\ gamemillis \in 0..MaxTime /\ since \in 0..gamemillis
    /\ \A e \in Entities : Lies(e) /\ NearEnough(e) /\ PaidFor(e)
RestOK == items_blocked \in BOOLEAN /\ state \in [Cls -> {"ALIVE", "DEAD"}]

ItemsInv == RoundsOK /\ EntitiesOK /\ RestOK

-----------------------------------------------------------------------------
(* The helpers.                                                            *)

LEMMA KindOfItem == ASSUME NEW e PROVE kind(e) \in Kinds
BY DEF kind, Kinds

LEMMA ShortestOfKind ==
    ASSUME NEW k \in Kinds
    PROVE  LET s == CHOOSE t \in SpawnTimes[k] : \A u \in SpawnTimes[k] : t <= u
           IN s \in Nat \ {0} /\ \A t \in SpawnTimes[k] : s <= t /\ t \in Nat \ {0} /\ t <= RoundTime
<1> DEFINE S == SpawnTimes[k]
<1>1. S \subseteq Nat \ {0} /\ S # {} /\ \A t \in S : t <= RoundTime
    BY ItemTimesAssumption
<1>2. \E t \in S : \A u \in S : t <= u
    BY <1>1, MinOfNaturals
<1> QED BY <1>1, <1>2

LEMMA ShortestTime ==
    ASSUME NEW e
    PROVE  /\ Shortest(e) \in Nat \ {0}
           /\ \A t \in SpawnTimes[kind(e)] : Shortest(e) <= t /\ t \in Nat \ {0} /\ t <= RoundTime
BY ShortestOfKind, KindOfItem DEF Shortest

LEMMA ShortestNext ==
    ASSUME NEW e
    PROVE  /\ Shortest(e)' \in Nat \ {0}
           /\ m_lss' = m_lss => Shortest(e)' = Shortest(e)
<1>1. kind(e)' \in Kinds
    BY DEF kind, Kinds
<1>2. Shortest(e)' \in Nat \ {0}
    BY <1>1, ShortestOfKind DEF Shortest
<1> QED BY <1>2 DEF Shortest, kind

\* One more time is one more Shortest.
LEMMA OneMore == ASSUME NEW n \in Int, NEW s \in Int PROVE (n + 1) * s = n * s + s /\ n * s \in Int /\ (n - 1) * s = n * s - s
OBVIOUS

LEMMA NatMax == MaxTime \in Nat /\ RoundTime \in Nat /\ MaxDiff \in Nat
BY ItemTimesAssumption

\* What checkitemspawns makes of an item.
LEMMA Growing ==
    ASSUME NEW se \in Sents, NEW diff \in Nat,
           se.spawned <=> se.spawntime = 0
    PROVE  /\ Grown(se, diff) \in Sents
           /\ Grown(se, diff).spawned <=> Grown(se, diff).spawntime = 0
           /\ Grown(se, diff).spawntime <= se.spawntime
           /\ se.spawntime <= diff + Grown(se, diff).spawntime
           /\ se.spawned => Grown(se, diff).spawned
           /\ se.spawntime <= diff => Grown(se, diff).spawned
<1>1. CASE se.spawntime = 0
    BY <1>1 DEF Grown, Sents
<1>2. CASE se.spawntime # 0 /\ se.spawntime <= diff
    <2>1. Grown(se, diff) = [spawned |-> TRUE, spawntime |-> 0]
        BY <1>2 DEF Grown
    <2> QED BY <2>1, <1>2 DEF Sents
<1>3. CASE se.spawntime # 0 /\ ~(se.spawntime <= diff)
    <2> DEFINE left == se.spawntime - diff
    <2>1. left \in Nat /\ left # 0
        BY <1>3 DEF Sents
    <2>2. Grown(se, diff) = [spawned |-> se.spawned, spawntime |-> left]
        BY <1>3 DEF Grown, Sents
    <2>3. se.spawned \in BOOLEAN /\ ~se.spawned
        BY <1>3 DEF Sents
    <2> QED BY <2>1, <2>2, <2>3, <1>3 DEF Sents
<1> QED BY <1>1, <1>2, <1>3

\* Whatever leaves the rounds, or the items, alone.
LEMMA RoundsStay == ASSUME RoundsOK, UNCHANGED <<ammo, mag, given>> PROVE RoundsOK'
BY DEF RoundsOK, Has

LEMMA EntitiesStay ==
    ASSUME EntitiesOK, UNCHANGED <<m_lss, sents, gamemillis, taken, since>>
    PROVE  EntitiesOK'
BY DEF EntitiesOK, Lies, NearEnough, PaidFor, Shortest, kind

\* A client gets new rounds, all of which are given to it: none, or those of a new life.
Fresh(a, m, g) ==
    /\ a \in [Kinds -> Nat] /\ m \in [Kinds -> Nat] /\ g \in [Kinds -> Nat]
    /\ \A k \in Kinds : m[k] + a[k] <= g[k] /\ a[k] <= Most[k] /\ m[k] <= IF k = "gun" THEN Size ELSE Most[k]

LEMMA NoneIsFresh == Fresh(NoRounds, NoRounds, NoRounds)
BY ItemsAssumption DEF Fresh, NoRounds, Kinds

LEMMA ALifeIsFresh == ASSUME NEW lss \in BOOLEAN PROVE Fresh(SpawnAmmo(lss), SpawnMag(lss), SpawnGiven(lss))
BY ItemsAssumption DEF Fresh, SpawnAmmo, SpawnMag, SpawnGiven, NoRounds, Kinds

\* Some clients get new rounds, the others keep theirs.
LEMMA FreshRounds ==
    ASSUME RoundsOK, NEW cs, NEW a, NEW m, NEW g, Fresh(a, m, g),
           ammo' = [c \in Cls |-> IF c \in cs THEN a ELSE ammo[c]],
           mag' = [c \in Cls |-> IF c \in cs THEN m ELSE mag[c]],
           given' = [c \in Cls |-> IF c \in cs THEN g ELSE given[c]]
    PROVE  RoundsOK'
BY DEF RoundsOK, Rounds, Fresh, Has

\* One client's rounds of one kind change.
LEMMA RoundsChange ==
    ASSUME RoundsOK, NEW d \in Cls, NEW l \in Kinds, NEW a \in Nat, NEW m \in Nat, NEW g \in Nat,
           m + a <= g, a <= Most[l], m <= IF l = "gun" THEN Size ELSE Most[l],
           ammo' = [ammo EXCEPT ![d][l] = a], mag' = [mag EXCEPT ![d][l] = m],
           given' = [given EXCEPT ![d][l] = g]
    PROVE  RoundsOK'
<1>1. \A c \in Cls, k \in Kinds :
        /\ ammo'[c][k] = (IF c = d /\ k = l THEN a ELSE ammo[c][k])
        /\ mag'[c][k] = (IF c = d /\ k = l THEN m ELSE mag[c][k])
        /\ given'[c][k] = (IF c = d /\ k = l THEN g ELSE given[c][k])
    BY DEF RoundsOK, Rounds
<1>2. ammo' \in Rounds /\ mag' \in Rounds /\ given' \in Rounds
    BY DEF RoundsOK, Rounds
<1> QED BY <1>1, <1>2 DEF RoundsOK, Has

-----------------------------------------------------------------------------
(* Each step keeps the invariant.                                          *)

LEMMA NewGameKeeps == ASSUME ItemsInv, NewGame PROVE ItemsInv'
<1>1. EntitiesOK'
    <2>1. /\ m_lss' \in BOOLEAN /\ gamemillis' = 0 /\ since' = 0
          /\ sents' = [e \in Entities |-> [spawned |-> TRUE, spawntime |-> 0]]
          /\ taken' = [e \in Entities |-> 0]
        BY DEF NewGame, AllLie
    <2>2. ASSUME NEW e \in Entities PROVE (Lies(e) /\ NearEnough(e) /\ PaidFor(e))'
        <3>1. sents'[e].spawned /\ sents'[e].spawntime = 0 /\ taken'[e] = 0
            BY <2>1
        <3>2. Shortest(e)' \in Nat
            BY ShortestNext
        <3> QED BY <2>1, <3>1, <3>2, NatMax DEF Lies, NearEnough, PaidFor
    <2> QED BY <2>1, <2>2, NatMax DEF EntitiesOK, Sents
<1>2. RoundsOK'
    <2>1. CASE AllFresh
        <3>1. /\ ammo' = [c \in Cls |-> IF c \in Cls THEN NoRounds ELSE ammo[c]]
              /\ mag' = [c \in Cls |-> IF c \in Cls THEN NoRounds ELSE mag[c]]
              /\ given' = [c \in Cls |-> IF c \in Cls THEN NoRounds ELSE given[c]]
            BY <2>1 DEF AllFresh, NoRoundsAtAll
        <3> QED BY <3>1, NoneIsFresh, FreshRounds DEF ItemsInv
    <2>2. CASE UNCHANGED <<ammo, mag, given, state>>
        BY <2>2, RoundsStay DEF ItemsInv
    <2> QED BY <2>1, <2>2 DEF NewGame
<1>3. RestOK'
    BY DEF NewGame, AllFresh, ItemsInv, RestOK
<1> QED BY <1>1, <1>2, <1>3 DEF ItemsInv

LEMMA ItemsGrowKeeps == ASSUME ItemsInv, NEW diff \in 1..MaxDiff, ItemsGrow(diff) PROVE ItemsInv'
<1>1. RoundsOK' /\ RestOK'
    BY RoundsStay DEF ItemsInv, ItemsGrow, RestOK
<1>2. /\ gamemillis' = gamemillis + diff /\ gamemillis' <= MaxTime
      /\ sents' = [e \in Entities |-> Grown(sents[e], diff)]
      /\ m_lss' = m_lss /\ taken' = taken /\ since' = since
    BY DEF ItemsGrow
<1>3. diff \in Nat /\ gamemillis \in Nat /\ since \in Nat /\ EntitiesOK
    BY NatMax DEF ItemsInv, EntitiesOK
<1>4. ASSUME NEW e \in Entities PROVE sents'[e] \in Sents /\ (Lies(e) /\ NearEnough(e) /\ PaidFor(e))'
    <2>1. sents[e] \in Sents /\ taken[e] \in Nat /\ Lies(e) /\ NearEnough(e) /\ PaidFor(e)
        BY <1>3 DEF EntitiesOK
    <2>2. sents'[e] = Grown(sents[e], diff)
        BY <1>2
    <2>3. /\ sents'[e] \in Sents
          /\ sents'[e].spawned <=> sents'[e].spawntime = 0
          /\ sents'[e].spawntime <= sents[e].spawntime
          /\ sents[e].spawntime <= diff + sents'[e].spawntime
          /\ sents[e].spawned => sents'[e].spawned
        <3> DEFINE se == sents[e]
        <3>1. se \in Sents /\ (se.spawned <=> se.spawntime = 0)
            BY <2>1 DEF Lies
        <3> HIDE DEF se
        <3>2. Grown(se, diff) \in Sents /\ sents'[e] = Grown(se, diff)
            BY <1>3, <2>2, <3>1, Growing DEF se
        <3>3. /\ Grown(se, diff).spawned <=> Grown(se, diff).spawntime = 0
              /\ Grown(se, diff).spawntime <= se.spawntime
              /\ se.spawntime <= diff + Grown(se, diff).spawntime
              /\ se.spawned => Grown(se, diff).spawned
            BY <1>3, <3>1, Growing
        <3> QED BY <3>2, <3>3 DEF se
    <2> DEFINE s == Shortest(e)
               paid == taken[e] * s
               before == (taken[e] - 1) * s
    <2>4. Shortest(e)' = s /\ s \in Nat /\ paid \in Int /\ before \in Int
        <3>1. Shortest(e)' = s /\ s \in Nat /\ taken[e] \in Int
            BY <1>2, <2>1, ShortestTime, ShortestNext
        <3> QED BY <3>1, OneMore
    <2>5. /\ paid <= gamemillis - since + sents[e].spawntime /\ before <= gamemillis - since
          /\ PaidFor(e)' <=> paid <= gamemillis' - since + sents'[e].spawntime
          /\ Lies(e)' <=> /\ sents'[e].spawned <=> sents'[e].spawntime = 0
                          /\ taken[e] = 0 => sents'[e].spawned
                          /\ before <= gamemillis' - since
        BY <1>2, <2>1, <2>4 DEF PaidFor, Lies
    <2>6. sents[e].spawntime \in Nat /\ sents'[e].spawntime \in Nat
        BY <2>1, <2>3 DEF Sents
    <2> HIDE DEF s, paid, before
    <2>7. PaidFor(e)'
        BY <1>2, <1>3, <2>3, <2>4, <2>5, <2>6
    <2>8. Lies(e)'
        BY <1>2, <1>3, <2>1, <2>3, <2>4, <2>5 DEF Lies
    <2>9. NearEnough(e)'
        BY <2>1, <2>3, <2>6, NatMax DEF NearEnough
    <2> QED BY <2>3, <2>7, <2>8, <2>9
<1>5. EntitiesOK'
    BY <1>2, <1>3, <1>4, NatMax DEF EntitiesOK
<1> QED BY <1>1, <1>5 DEF ItemsInv

LEMMA RoundWonKeeps == ASSUME ItemsInv, RoundWon PROVE ItemsInv'
BY RoundsStay, EntitiesStay DEF ItemsInv, RoundWon, RestOK

\* All items are back, for RoundTime is not too short.
LEMMA NewRoundKeeps == ASSUME ItemsInv, NEW cs \in SUBSET Cls, NewRound(cs) PROVE ItemsInv'
<1>1. RestOK'
    BY DEF ItemsInv, NewRound, RestOK
<1>2. RoundsOK'
    <2>1. Fresh(SpawnAmmo(m_lss), SpawnMag(m_lss), SpawnGiven(m_lss))
        BY ALifeIsFresh DEF ItemsInv, EntitiesOK
    <2> DEFINE a == SpawnAmmo(m_lss)
               m == SpawnMag(m_lss)
               g == SpawnGiven(m_lss)
    <2>2. /\ ammo' = [c \in Cls |-> IF c \in cs THEN a ELSE ammo[c]]
          /\ mag' = [c \in Cls |-> IF c \in cs THEN m ELSE mag[c]]
          /\ given' = [c \in Cls |-> IF c \in cs THEN g ELSE given[c]]
        BY DEF NewRound
    <2> HIDE DEF a, m, g
    <2>3. Fresh(a, m, g)
        BY <2>1 DEF a, m, g
    <2> QED BY <2>2, <2>3, FreshRounds DEF ItemsInv
<1>3. /\ gamemillis' = gamemillis /\ since' = gamemillis /\ m_lss' = m_lss
      /\ sents' = [e \in Entities |-> Grown(sents[e], RoundTime)]
      /\ taken' = [e \in Entities |-> 0]
    BY DEF NewRound
<1>4. gamemillis \in 0..MaxTime /\ EntitiesOK
    BY DEF ItemsInv, EntitiesOK
<1>5. ASSUME NEW e \in Entities PROVE sents'[e] \in Sents /\ (Lies(e) /\ NearEnough(e) /\ PaidFor(e))'
    <2>1. sents[e] \in Sents /\ Lies(e) /\ NearEnough(e)
        BY <1>4 DEF EntitiesOK
    <2>2. sents'[e] = Grown(sents[e], RoundTime)
        BY <1>3
    <2>3. sents'[e] \in Sents /\ sents'[e].spawned /\ sents'[e].spawntime = 0
        BY <2>1, <2>2, Growing, NatMax DEF Lies, NearEnough
    <2>4. Shortest(e)' \in Nat /\ taken'[e] = 0
        BY <1>3, ShortestNext
    <2> QED BY <1>3, <1>4, <2>3, <2>4, NatMax DEF Lies, NearEnough, PaidFor
<1>6. EntitiesOK'
    BY <1>3, <1>4, <1>5, NatMax DEF EntitiesOK
<1> QED BY <1>1, <1>2, <1>6 DEF ItemsInv

\* One client's rounds become those of a, m and g.
LEMMA OneFresh ==
    ASSUME RoundsOK, NEW d \in Cls, NEW a, NEW m, NEW g, Fresh(a, m, g),
           ammo' = [ammo EXCEPT ![d] = a], mag' = [mag EXCEPT ![d] = m], given' = [given EXCEPT ![d] = g]
    PROVE  RoundsOK'
<1>1. /\ ammo' = [c \in Cls |-> IF c \in {d} THEN a ELSE ammo[c]]
      /\ mag' = [c \in Cls |-> IF c \in {d} THEN m ELSE mag[c]]
      /\ given' = [c \in Cls |-> IF c \in {d} THEN g ELSE given[c]]
    BY DEF RoundsOK, Rounds
<1> QED BY <1>1, FreshRounds

LEMMA OfferedKeeps == ASSUME ItemsInv, NEW c \in Cls, Offered(c) PROVE ItemsInv'
<1> DEFINE a == SpawnAmmo(m_lss)
           m == SpawnMag(m_lss)
           g == SpawnGiven(m_lss)
<1>1. ammo' = [ammo EXCEPT ![c] = a] /\ mag' = [mag EXCEPT ![c] = m] /\ given' = [given EXCEPT ![c] = g]
    BY DEF Offered
<1>2. Fresh(a, m, g)
    BY ALifeIsFresh DEF ItemsInv, EntitiesOK
<1> HIDE DEF a, m, g
<1>3. RoundsOK'
    BY <1>1, <1>2, OneFresh DEF ItemsInv
<1>4. EntitiesOK' /\ RestOK'
    BY EntitiesStay DEF ItemsInv, Offered, RestOK
<1> QED BY <1>3, <1>4 DEF ItemsInv

LEMMA ForcedKeeps == ASSUME ItemsInv, NEW c \in Cls, Forced(c) PROVE ItemsInv'
<1>1. RoundsOK'
    BY NoneIsFresh, OneFresh DEF ItemsInv, Forced
<1>2. EntitiesOK' /\ RestOK'
    BY EntitiesStay DEF ItemsInv, Forced, RestOK
<1> QED BY <1>1, <1>2 DEF ItemsInv

LEMMA LivesKeep == ASSUME ItemsInv, NEW c \in Cls, Spawns(c) \/ LosesLife(c) PROVE ItemsInv'
<1>1. /\ UNCHANGED <<ammo, mag, given>> /\ UNCHANGED <<m_lss, sents, gamemillis, taken, since>>
      /\ items_blocked' = items_blocked /\ state' \in [Cls -> {"ALIVE", "DEAD"}]
    BY DEF ItemsInv, RestOK, Spawns, LosesLife
<1> QED BY <1>1, RoundsStay, EntitiesStay DEF ItemsInv, RestOK

LEMMA ShotKeeps == ASSUME ItemsInv, NEW c \in Cls, NEW k \in Kinds, Shot(c, k) PROVE ItemsInv'
<1>1. EntitiesOK' /\ RestOK'
    BY EntitiesStay DEF ItemsInv, Shot, RestOK
<1>2. /\ ammo \in Rounds /\ mag \in Rounds /\ given \in Rounds /\ Has(c, k) /\ mag[c][k] > 0
    BY DEF ItemsInv, RoundsOK, Shot
<1>3. ammo[c][k] \in Nat /\ mag[c][k] - 1 \in Nat /\ given[c][k] - 1 \in Nat
    BY <1>2 DEF Rounds, Has
<1>4. /\ ammo' = [ammo EXCEPT ![c][k] = ammo[c][k]] /\ mag' = [mag EXCEPT ![c][k] = mag[c][k] - 1]
      /\ given' = [given EXCEPT ![c][k] = given[c][k] - 1]
    BY <1>2 DEF Shot, Rounds
<1>5. /\ mag[c][k] - 1 + ammo[c][k] <= given[c][k] - 1 /\ ammo[c][k] <= Most[k]
      /\ mag[c][k] - 1 <= IF k = "gun" THEN Size ELSE Most[k]
    BY <1>2, <1>3, ItemsAssumption DEF Has, Rounds
<1>6. RoundsOK'
    <2> DEFINE a == ammo[c][k]
               m == mag[c][k] - 1
               g == given[c][k] - 1
    <2>1. /\ a \in Nat /\ m \in Nat /\ g \in Nat /\ m + a <= g /\ a <= Most[k]
          /\ m <= IF k = "gun" THEN Size ELSE Most[k]
        BY <1>3, <1>5
    <2>2. ammo' = [ammo EXCEPT ![c][k] = a] /\ mag' = [mag EXCEPT ![c][k] = m] /\ given' = [given EXCEPT ![c][k] = g]
        BY <1>4
    <2> HIDE DEF a, m, g
    <2> QED BY <2>1, <2>2, RoundsChange DEF ItemsInv
<1> QED BY <1>1, <1>6 DEF ItemsInv

LEMMA ReloadedKeeps == ASSUME ItemsInv, NEW c \in Cls, Reloaded(c) PROVE ItemsInv'
<1> DEFINE n == Lowest(ammo[c]["gun"], Size - mag[c]["gun"])
           a == ammo[c]["gun"] - n
           m == mag[c]["gun"] + n
           g == given[c]["gun"]
<1>1. EntitiesOK' /\ RestOK'
    BY EntitiesStay DEF ItemsInv, Reloaded, RestOK
<1>2. /\ "gun" \in Kinds /\ ammo \in Rounds /\ mag \in Rounds /\ given \in Rounds /\ Has(c, "gun")
    BY DEF ItemsInv, RoundsOK, Kinds
<1>3. ammo[c]["gun"] \in Nat /\ mag[c]["gun"] \in Nat /\ g \in Nat /\ Size \in Nat /\ Most["gun"] \in Nat
    BY <1>2, ItemsAssumption DEF Rounds
<1>4. n \in Nat /\ n <= ammo[c]["gun"] /\ mag[c]["gun"] + n <= Size
    BY <1>2, <1>3 DEF Has, Lowest
<1>5. ammo' = [ammo EXCEPT ![c]["gun"] = a] /\ mag' = [mag EXCEPT ![c]["gun"] = m] /\ given' = [given EXCEPT ![c]["gun"] = g]
    BY <1>2 DEF Reloaded, Rounds
<1> HIDE DEF n
<1>6. /\ a \in Nat /\ m \in Nat /\ m + a <= g /\ a <= Most["gun"] /\ m <= Size
    BY <1>2, <1>3, <1>4 DEF Has
<1> HIDE DEF a, m, g
<1>7. RoundsOK'
    BY <1>2, <1>3, <1>5, <1>6, RoundsChange DEF ItemsInv
<1> QED BY <1>1, <1>7 DEF ItemsInv

\* The rounds that a client gets from an item.
LEMMA PickedUp == ASSUME RoundsOK, NEW c \in Cls, NEW k \in Kinds, canpickup(c, k), pickup(c, k) PROVE RoundsOK'
<1> DEFINE more(i) == Lowest(i + Times * Add[k], Most[k])
           a == IF k = "gun" THEN more(ammo[c][k]) ELSE ammo[c][k]
           m == IF k = "gun" THEN mag[c][k] ELSE more(mag[c][k])
           g == given[c][k] + Times * Add[k]
<1>1. ammo \in Rounds /\ mag \in Rounds /\ given \in Rounds /\ Has(c, k)
    BY DEF RoundsOK
<1>2. ammo[c][k] \in Nat /\ mag[c][k] \in Nat /\ given[c][k] \in Nat /\ Most[k] \in Nat
    BY <1>1, ItemsAssumption DEF Rounds
<1>3. Times * Add[k] \in Nat
    BY ItemsAssumption DEF Times
<1>4. ASSUME NEW i \in Nat
      PROVE  more(i) \in Nat /\ more(i) <= Most[k] /\ more(i) <= i + Times * Add[k]
    <2> DEFINE t == Times * Add[k]
    <2>1. t \in Nat
        BY <1>3
    <2> HIDE DEF t
    <2>2. Lowest(i + t, Most[k]) \in Nat /\ Lowest(i + t, Most[k]) <= Most[k] /\ Lowest(i + t, Most[k]) <= i + t
        BY <1>2, <2>1 DEF Lowest
    <2> QED BY <2>2 DEF t
<1>5. ammo' = [ammo EXCEPT ![c][k] = a] /\ mag' = [mag EXCEPT ![c][k] = m] /\ given' = [given EXCEPT ![c][k] = g]
    BY <1>1 DEF pickup, Rounds
<1>6. a \in Nat /\ m \in Nat /\ g \in Nat /\ a <= Most[k] /\ m <= (IF k = "gun" THEN Size ELSE Most[k])
    BY <1>1, <1>2, <1>3, <1>4 DEF Has
<1>7. m + a <= g
    BY <1>1, <1>2, <1>3, <1>4 DEF Has
<1> HIDE DEF a, m, g
<1> QED BY <1>5, <1>6, <1>7, RoundsChange

LEMMA PickupKeeps == ASSUME ItemsInv, NEW c \in Cls, NEW e \in Entities, serverpickup(c, e) PROVE ItemsInv'
<1>1. RestOK'
    BY DEF ItemsInv, serverpickup, RestOK
<1>2. RoundsOK'
    BY PickedUp, KindOfItem DEF serverpickup, ItemsInv
<1>3. PICK t \in SpawnTimes[kind(e)] : sents' = [sents EXCEPT ![e] = [spawned |-> FALSE, spawntime |-> t]]
    BY DEF serverpickup
<1>4. /\ sents[e].spawned /\ taken' = [taken EXCEPT ![e] = @ + 1] /\ m_lss' = m_lss
      /\ gamemillis' = gamemillis /\ since' = since /\ EntitiesOK
    BY DEF serverpickup, ItemsInv
<1>5. t \in Nat \ {0} /\ Shortest(e) <= t /\ t <= RoundTime /\ Shortest(e) \in Nat
    BY ShortestTime
<1>6. sents' \in [Entities -> Sents] /\ taken' \in [Entities -> Nat]
    BY <1>3, <1>4, <1>5 DEF EntitiesOK, Sents
<1>7. ASSUME NEW d \in Entities, d # e PROVE (Lies(d) /\ NearEnough(d) /\ PaidFor(d))'
    <2>1. sents'[d] = sents[d] /\ taken'[d] = taken[d] /\ Shortest(d)' = Shortest(d)
        BY <1>3, <1>4, <1>7, ShortestNext DEF EntitiesOK
    <2>2. Lies(d) /\ NearEnough(d) /\ PaidFor(d)
        BY <1>4 DEF EntitiesOK
    <2> QED BY <1>4, <2>1, <2>2 DEF Lies, NearEnough, PaidFor
<1>8. (Lies(e) /\ NearEnough(e) /\ PaidFor(e))'
    <2> DEFINE s == Shortest(e)
               paid == taken[e] * s
    <2>1. Lies(e) /\ PaidFor(e) /\ taken[e] \in Nat /\ sents[e] \in Sents /\ gamemillis \in Nat /\ since \in Nat
        BY <1>4, NatMax DEF EntitiesOK
    <2>2. paid <= gamemillis - since /\ paid \in Int
        <3>1. sents[e].spawntime = 0
            BY <1>4, <2>1 DEF Lies
        <3>2. paid \in Int
            BY <1>5, <2>1, OneMore
        <3> HIDE DEF paid
        <3> QED BY <3>1, <3>2, <2>1 DEF PaidFor, paid
    <2>3. (taken[e] + 1) * s = paid + s /\ (taken[e] + 1 - 1) * s = paid
        <3>1. (taken[e] + 1) * s = paid + s
            BY <1>5, <2>1, OneMore
        <3>2. taken[e] + 1 - 1 = taken[e]
            BY <2>1
        <3> QED BY <3>1, <3>2
    <2>4. /\ sents'[e] = [spawned |-> FALSE, spawntime |-> t] /\ taken'[e] = taken[e] + 1
          /\ Shortest(e)' = s
        BY <1>3, <1>4, ShortestNext DEF EntitiesOK
    <2> HIDE DEF paid
    <2>5. PaidFor(e)'
        <3>1. PaidFor(e)' <=> paid + s <= gamemillis - since + t
            BY <1>4, <2>3, <2>4 DEF PaidFor
        <3> QED BY <3>1, <1>5, <2>1, <2>2
    <2>6. Lies(e)'
        <3>1. taken'[e] # 0 /\ ~sents'[e].spawned /\ sents'[e].spawntime # 0
            BY <1>5, <2>1, <2>4
        <3>2. (taken'[e] - 1) * Shortest(e)' <= gamemillis' - since'
            <4>1. taken'[e] - 1 = taken[e] /\ Shortest(e)' = s
                BY <2>1, <2>4
            <4>2. (taken'[e] - 1) * Shortest(e)' = paid
                BY <4>1, Zenon DEF paid
            <4> QED BY <1>4, <2>2, <4>2
        <3> QED BY <3>1, <3>2 DEF Lies
    <2>7. NearEnough(e)'
        BY <1>5, <2>4 DEF NearEnough
    <2> QED BY <2>5, <2>6, <2>7
<1>9. EntitiesOK'
    BY <1>4, <1>6, <1>7, <1>8 DEF EntitiesOK
<1> QED BY <1>1, <1>2, <1>9 DEF ItemsInv

-----------------------------------------------------------------------------
(* The theorems.                                                           *)

LEMMA ItemsBegin == ItemsInit => ItemsInv
<1> SUFFICES ASSUME ItemsInit PROVE ItemsInv
    OBVIOUS
<1>1. RestOK
    BY DEF ItemsInit, RestOK
<1>2. RoundsOK
    <2>1. \A c \in Cls : ammo[c] = NoRounds /\ mag[c] = NoRounds /\ given[c] = NoRounds
        BY DEF ItemsInit, NoRoundsAtAll
    <2>2. ammo \in Rounds /\ mag \in Rounds /\ given \in Rounds
        BY DEF ItemsInit, NoRoundsAtAll, NoRounds, Rounds
    <2> QED BY <2>1, <2>2, NoneIsFresh DEF RoundsOK, Fresh, Has
<1>3. ASSUME NEW e \in Entities PROVE Lies(e) /\ NearEnough(e) /\ PaidFor(e)
    <2>1. /\ sents[e].spawned /\ sents[e].spawntime = 0 /\ taken[e] = 0 /\ gamemillis = 0 /\ since = 0
          /\ Shortest(e) \in Nat
        BY ShortestTime DEF ItemsInit, AllLie
    <2> QED BY <2>1, NatMax DEF Lies, NearEnough, PaidFor
<1>4. EntitiesOK
    BY <1>3, NatMax DEF ItemsInit, AllLie, EntitiesOK, Sents
<1> QED BY <1>1, <1>2, <1>4 DEF ItemsInv

LEMMA ItemsInvariance == ItemsInv /\ [ItemsNext]_itemVars => ItemsInv'
<1> SUFFICES ASSUME ItemsInv, [ItemsNext]_itemVars PROVE ItemsInv'
    OBVIOUS
<1>1. CASE UNCHANGED itemVars
    BY <1>1, RoundsStay, EntitiesStay DEF itemVars, ItemsInv, RestOK
<1> QED BY <1>1, NewGameKeeps, ItemsGrowKeeps, RoundWonKeeps, NewRoundKeeps, OfferedKeeps, ForcedKeeps, LivesKeep,
           ShotKeeps, ReloadedKeeps, PickupKeeps DEF ItemsNext

LEMMA WhatItemsInvSays == ItemsInv => ItemsTypeOK /\ SuppliesAccounted
BY DEF ItemsInv, RoundsOK, EntitiesOK, RestOK, ItemsTypeOK, SuppliesAccounted, Has, Lies, Sents

\* Rounds are never fewer than none, and neither is what an item needs to come back: checkitemspawns and the
\* functions for rounds subtract.
THEOREM ItemsTypeCorrect == ItemsSpec => []ItemsTypeOK
BY ItemsBegin, ItemsInvariance, WhatItemsInvSays, PTL DEF ItemsSpec

\* Nobody has more rounds than it was given, and no item is taken twice for one time that it came back:
\* whatever clients, rounds and games come in between, and however long slices take.
THEOREM NothingForNothing == ItemsSpec => []SuppliesAccounted
BY ItemsBegin, ItemsInvariance, WhatItemsInvSays, PTL DEF ItemsSpec

\* A behaviour of the composition that is model-checked is a behaviour of both parts, so the theorems
\* above hold of it.
THEOREM FightsAreTheirParts == MCSpec => Spec /\ ItemsSpec
<1>1. MCInit => Init /\ ItemsInit
    BY DEF MCInit
<1>2. [MCNext]_allVars => [Next]_vars /\ [ItemsNext]_itemVars
    BY DEF MCNext, allVars, Next
<1> QED BY <1>1, <1>2, PTL DEF MCSpec, Spec, ItemsSpec

\* Both parts stay well-typed, whichever of them runs.
THEOREM PartsTypeCorrect == MCSpec => []PartsTypeOK
<1>1. TypeOK /\ ItemsTypeOK => PartsTypeOK
    BY DEF PartsTypeOK
<1> QED BY <1>1, FightsAreTheirParts, CombatTypeCorrect, ItemsTypeCorrect, PTL
=============================================================================
