-------------------------- MODULE ConnectionsProofs --------------------------
(***************************************************************************)
(* That seats, bans and scores hold for any number of clients, peers,      *)
(* names and points; and the composition of Connections with WorldState.   *)
(*                                                                         *)
(* A point has places: the clients that have it and the valid saved scores *)
(* that do.  Every handler is followed from table to table [cs, saved], as *)
(* the code saves, restores and frees in its middle: a client that leaves  *)
(* moves its points to one place (PlacesMove), duplicates leave one after  *)
(* the other (Departed, by induction over the loop), a score is restored   *)
(* from one place or copied from a twin (Restoring).  What a departure     *)
(* overwrites on the way was there at the beginning (Origins).             *)
(***************************************************************************)
EXTENDS WorldStateProofs, MCConnections, Loops

-----------------------------------------------------------------------------
(* Sets as sequences.                                                      *)

LEMMA ArraysAreSequences == ASSUME NEW S, NEW n \in Nat, NEW f \in [1..n -> S] PROVE f \in Seq(S)
OBVIOUS

LEMMA SeqOfSet ==
    ASSUME NEW S, IsFiniteSet(S), NEW ds, ds = SetToSeq(S)
    PROVE  /\ ds \in Seq(S) /\ Len(ds) \in Nat /\ DOMAIN ds = 1..Len(ds)
           /\ \A i, j \in 1..Len(ds) : ds[i] = ds[j] => i = j
           /\ \A d \in S : \E i \in 1..Len(ds) : ds[i] = d
<1> DEFINE k == Cardinality(S)
<1>1. k \in Nat /\ ExistsBijection(1..k, S)
    BY FS_CardinalityType
<1> HIDE DEF k
<1>2. \E f \in [1..k -> S] : IsInjective(f)
    BY <1>1 DEF ExistsBijection, Bijection, Injection
<1>3. ds \in [1..k -> S] /\ IsInjective(ds)
    BY <1>2 DEF SetToSeq, k
<1>4. ds \in Seq(S) /\ Len(ds) = k
    BY <1>1, <1>3
<1>5. ds \in Injection(1..k, S)
    BY <1>3 DEF Injection
<1>6. IsFiniteSet(1..k) /\ Cardinality(1..k) = k
    <2>1. IsFiniteSet(1..k) /\ Cardinality(1..k) = IF 1 > k THEN 0 ELSE k - 1 + 1
        BY <1>1, FS_Interval
    <2> QED BY <2>1, <1>1
<1>7. ds \in Surjection(1..k, S)
    BY <1>5, <1>6, FS_Injection DEF k
<1>8. \A d \in S : \E i \in 1..k : ds[i] = d
    BY <1>7 DEF Surjection
<1>9. \A i, j \in 1..k : ds[i] = ds[j] => i = j
    BY <1>3 DEF IsInjective
<1> QED BY <1>1, <1>4, <1>3, <1>8, <1>9

-----------------------------------------------------------------------------
(* Saving and leaving.                                                     *)

ClientOK(x) ==
    /\ x \in Client
    /\ x.conn # "empty" => x.peer \in Peers
    /\ x.conn = "authed" => x.name \in Names
    /\ x.conn # "authed" => x.score = {}
Tables == [cs : [Slots -> Client], saved : Seq(Saves)]
TableOK(t) == t \in Tables /\ \A c \in Slots : ClientOK(t.cs[c])

\* The saved scores old have become new, as client c of the table t has saved its score as the ith.
Entry(old, new, x, i) ==
    /\ DOMAIN new \ {i} = DOMAIN old \ {i} /\ i \in DOMAIN new
    /\ \A j \in DOMAIN old \ {i} : new[j] = old[j]
    /\ new[i].valid /\ new[i].score = x.score
    /\ new[i].name = x.name /\ Belongs(new[i], x.name, Host[x.peer])
    /\ i \in DOMAIN old => Belongs(old[i], x.name, Host[x.peer])

LEMMA Appending ==
    ASSUME NEW saved \in Seq(Saves), NEW x, ClientOK(x), x.conn = "authed", NEW new,
           new = Append(saved, [name |-> x.name, host |-> Host[x.peer], score |-> x.score, valid |-> TRUE])
    PROVE  new \in Seq(Saves) /\ \E i \in DOMAIN new : Entry(saved, new, x, i)
<1> DEFINE sc == [name |-> x.name, host |-> Host[x.peer], score |-> x.score, valid |-> TRUE]
           n == Len(saved) + 1
<1>1. sc \in Saves
    BY AddressesAssumption DEF ClientOK, Client, Saves
<1>2. sc.name = x.name /\ sc.valid /\ sc.score = x.score /\ Belongs(sc, x.name, Host[x.peer])
    BY DEF Belongs
<1> HIDE DEF sc
<1>3. new \in Seq(Saves) /\ DOMAIN new = 1..n /\ new[n] = sc /\ \A j \in 1..n - 1 : new[j] = saved[j]
    BY <1>1 DEF sc
<1>4. DOMAIN saved = 1..n - 1 /\ n \in Nat /\ n >= 1
    OBVIOUS
<1> HIDE DEF n
<1>5. n \in DOMAIN new /\ n \notin DOMAIN saved /\ DOMAIN new \ {n} = DOMAIN saved \ {n}
    BY <1>3, <1>4
<1>6. \A j \in DOMAIN saved \ {n} : new[j] = saved[j]
    BY <1>3, <1>4
<1>7. Entry(saved, new, x, n)
    BY <1>2, <1>3, <1>5, <1>6, Zenon DEF Entry
<1> QED BY <1>3, <1>5, <1>7

LEMMA Overwriting ==
    ASSUME NEW saved \in Seq(Saves), NEW x, ClientOK(x), x.conn = "authed", NEW i \in DOMAIN saved,
           Belongs(saved[i], x.name, Host[x.peer]), NEW new,
           new = [saved EXCEPT ![i].score = x.score, ![i].valid = TRUE]
    PROVE  new \in Seq(Saves) /\ Entry(saved, new, x, i)
<1> DEFINE sc == [saved[i] EXCEPT !.score = x.score, !.valid = TRUE]
<1>1. saved[i] \in Saves /\ x.score \in SUBSET Points
    BY DEF ClientOK, Client
<1>2. /\ sc \in Saves /\ sc.name = saved[i].name /\ sc.host = saved[i].host /\ sc.score = x.score /\ sc.valid
    BY <1>1 DEF Saves
<1>3. new = [saved EXCEPT ![i] = sc]
    BY <1>1 DEF Saves
<1> HIDE DEF sc
<1>4. new \in Seq(Saves) /\ DOMAIN new = DOMAIN saved /\ new[i] = sc /\ \A j \in DOMAIN saved \ {i} : new[j] = saved[j]
    <2>1. sc \in Saves
        BY <1>2
    <2>2. DOMAIN new = DOMAIN saved /\ new[i] = sc /\ \A j \in DOMAIN saved \ {i} : new[j] = saved[j]
        BY <1>3
    <2>3. new \in Seq(Saves)
        <3>1. saved \in [1..Len(saved) -> Saves] /\ Len(saved) \in Nat /\ i \in 1..Len(saved)
            OBVIOUS
        <3>2. new \in [1..Len(saved) -> Saves]
            BY <1>3, <2>1, <3>1
        <3> QED BY <3>1, <3>2, ArraysAreSequences, Zenon
    <2> QED BY <2>2, <2>3
<1>5. sc.name = x.name /\ Belongs(sc, x.name, Host[x.peer])
    BY <1>2 DEF Belongs
<1> QED BY <1>2, <1>4, <1>5, Zenon DEF Entry

LEMMA Saving ==
    ASSUME NEW t, TableOK(t), NEW c \in Slots, t.cs[c].conn = "authed", NEW r, r = Saved(t, c)
    PROVE  /\ TableOK(r) /\ r.cs = t.cs
           /\ \E i \in DOMAIN r.saved : Entry(t.saved, r.saved, t.cs[c], i)
<1> DEFINE x == t.cs[c]
           found == SavedOf(t, c)
           first == CHOOSE i \in found : \A j \in found : i <= j
<1>1. t = [cs |-> t.cs, saved |-> t.saved] /\ t.saved \in Seq(Saves) /\ t.cs \in [Slots -> Client] /\ ClientOK(x)
    BY DEF TableOK, Tables
<1>2. CASE found = {}
    <2> DEFINE new == Append(t.saved, [name |-> x.name, host |-> Host[x.peer], score |-> x.score, valid |-> TRUE])
    <2>1. r = [t EXCEPT !.saved = new]
        BY <1>2 DEF Saved, HostOf
    <2>2. new \in Seq(Saves) /\ \E i \in DOMAIN new : Entry(t.saved, new, x, i)
        BY <1>1, Appending
    <2> HIDE DEF new
    <2>3. r = [cs |-> t.cs, saved |-> new]
        BY <1>1, <2>1
    <2>4. TableOK(r)
        BY <2>2, <2>3, <1>1 DEF TableOK, Tables
    <2> QED BY <2>2, <2>3, <2>4
<1>3. CASE found # {}
    <2>1. found \subseteq DOMAIN t.saved /\ found \subseteq Nat
        BY <1>1 DEF SavedOf
    <2>2. first \in found
        <3> HIDE DEF found
        <3>1. \E i \in found : \A j \in found : i <= j
            BY <1>3, <2>1, MinOfNaturals
        <3> QED BY <3>1
    <2>3. first \in DOMAIN t.saved /\ Belongs(t.saved[first], x.name, Host[x.peer])
        BY <2>2 DEF SavedOf, HostOf
    <2> DEFINE new == [t.saved EXCEPT ![first].score = x.score, ![first].valid = TRUE]
    <2>4. r = [t EXCEPT !.saved = new]
        BY <1>3 DEF Saved
    <2> HIDE DEF first, found
    <2>5. new \in Seq(Saves) /\ Entry(t.saved, new, x, first)
        BY <1>1, <2>3, Overwriting
    <2>6. first \in DOMAIN new
        BY <2>5 DEF Entry
    <2> HIDE DEF new
    <2>7. r = [cs |-> t.cs, saved |-> new]
        BY <1>1, <2>4
    <2>8. TableOK(r)
        BY <2>5, <2>7, <1>1 DEF TableOK, Tables
    <2> QED BY <2>5, <2>6, <2>7, <2>8
<1> QED BY <1>2, <1>3

\* disconnect_client.
LEMMA ClientLeaves ==
    ASSUME NEW t, TableOK(t), NEW c \in Slots, NEW r, r = Left(t, c)
    PROVE  /\ TableOK(r) /\ r.cs = [t.cs EXCEPT ![c] = Free]
           /\ t.cs[c].conn # "authed" => r.saved = t.saved
           /\ t.cs[c].conn = "authed" => \E i \in DOMAIN r.saved : Entry(t.saved, r.saved, t.cs[c], i)
<1> DEFINE u == IF t.cs[c].conn = "authed" THEN Saved(t, c) ELSE t
<1>1. /\ TableOK(u) /\ u.cs = t.cs
      /\ t.cs[c].conn # "authed" => u.saved = t.saved
      /\ t.cs[c].conn = "authed" => \E i \in DOMAIN u.saved : Entry(t.saved, u.saved, t.cs[c], i)
    BY Saving
<1>2. r = [u EXCEPT !.cs[c] = Free]
    BY DEF Left
<1> HIDE DEF u
<1>3. ClientOK(Free)
    BY DEF ClientOK, Client, Free
<1>4. r = [cs |-> [u.cs EXCEPT ![c] = Free], saved |-> u.saved]
    BY <1>1, <1>2 DEF TableOK, Tables
<1>5. TableOK(r)
    BY <1>1, <1>3, <1>4 DEF TableOK, Tables, ClientOK
<1> QED BY <1>1, <1>4, <1>5

-----------------------------------------------------------------------------
(* Where points are.                                                       *)

CopiesAt(t, p) == Copies(t.cs, t.saved, p)
Held(t, p) == With(t.cs, p) # {} \/ In(t.saved, p) # {}

LEMMA FinitePlaces ==
    ASSUME NEW t, TableOK(t), NEW p
    PROVE  /\ IsFiniteSet(With(t.cs, p)) /\ Cardinality(With(t.cs, p)) \in Nat
           /\ IsFiniteSet(In(t.saved, p)) /\ Cardinality(In(t.saved, p)) \in Nat
           /\ CopiesAt(t, p) = Cardinality(With(t.cs, p)) + Cardinality(In(t.saved, p))
           /\ CopiesAt(t, p) \in Nat /\ (CopiesAt(t, p) > 0 <=> Held(t, p))
<1>1. IsFiniteSet(Slots) /\ With(t.cs, p) \in SUBSET Slots
    BY SeatsAssumption DEF With, Authed
<1>2. IsFiniteSet(With(t.cs, p))
    BY <1>1, FS_Subset
<1>3. t.saved \in Seq(Saves)
    BY DEF TableOK, Tables
<1>4. IsFiniteSet(DOMAIN t.saved) /\ In(t.saved, p) \in SUBSET DOMAIN t.saved
    <2>1. DOMAIN t.saved = 1..Len(t.saved) /\ 1 \in Int /\ Len(t.saved) \in Int
        BY <1>3
    <2>2. IsFiniteSet(1..Len(t.saved))
        BY <2>1, FS_Interval
    <2> QED BY <2>1, <2>2 DEF In
<1>5. IsFiniteSet(In(t.saved, p))
    BY <1>4, FS_Subset
<1>6. /\ Cardinality(With(t.cs, p)) \in Nat /\ (Cardinality(With(t.cs, p)) = 0 <=> With(t.cs, p) = {})
      /\ Cardinality(In(t.saved, p)) \in Nat /\ (Cardinality(In(t.saved, p)) = 0 <=> In(t.saved, p) = {})
    BY <1>2, <1>5, FS_CardinalityType, FS_EmptySet
<1>7. CopiesAt(t, p) = Cardinality(With(t.cs, p)) + Cardinality(In(t.saved, p))
    BY DEF CopiesAt, Copies
<1>8. CopiesAt(t, p) \in Nat
    BY <1>6, <1>7
<1>9. CopiesAt(t, p) > 0 <=> ~(Cardinality(With(t.cs, p)) = 0 /\ Cardinality(In(t.saved, p)) = 0)
    BY <1>6, <1>7
<1> QED BY <1>2, <1>5, <1>6, <1>7, <1>8, <1>9 DEF Held

\* If the places of a point are some of those there were, and one more where one is gone, it has no
\* more copies.
LEMMA Fewer ==
    ASSUME NEW S, NEW T, NEW U, NEW V, IsFiniteSet(S), IsFiniteSet(T), NEW c, NEW i,
           \/ U \subseteq S /\ V \subseteq T
           \/ c \in S /\ U \subseteq S \ {c} /\ V \subseteq T \cup {i}
           \/ i \in T /\ U \subseteq S \cup {c} /\ V \subseteq T \ {i}
    PROVE  /\ IsFiniteSet(U) /\ IsFiniteSet(V)
           /\ Cardinality(U) + Cardinality(V) <= Cardinality(S) + Cardinality(T)
<1>1. Cardinality(S) \in Nat /\ Cardinality(T) \in Nat
    BY FS_CardinalityType
<1>2. CASE U \subseteq S /\ V \subseteq T
    <2>1. /\ IsFiniteSet(U) /\ Cardinality(U) <= Cardinality(S)
          /\ IsFiniteSet(V) /\ Cardinality(V) <= Cardinality(T)
        BY <1>2, FS_Subset
    <2>2. Cardinality(U) \in Nat /\ Cardinality(V) \in Nat
        BY <2>1, FS_CardinalityType
    <2> QED BY <1>1, <2>1, <2>2
<1>3. CASE c \in S /\ U \subseteq S \ {c} /\ V \subseteq T \cup {i}
    <2>1. IsFiniteSet(S \ {c}) /\ Cardinality(S \ {c}) = Cardinality(S) - 1
        BY <1>3, FS_RemoveElement
    <2>2. /\ IsFiniteSet(T \cup {i}) /\ Cardinality(T \cup {i}) \in Nat
          /\ Cardinality(T \cup {i}) <= Cardinality(T) + 1
        BY <1>1, FS_AddElement
    <2>3. /\ IsFiniteSet(U) /\ Cardinality(U) <= Cardinality(S \ {c})
          /\ IsFiniteSet(V) /\ Cardinality(V) <= Cardinality(T \cup {i})
        BY <1>3, <2>1, <2>2, FS_Subset
    <2>4. Cardinality(U) \in Nat /\ Cardinality(V) \in Nat
        BY <2>3, FS_CardinalityType
    <2> QED BY <1>1, <2>1, <2>2, <2>3, <2>4
<1>4. CASE i \in T /\ U \subseteq S \cup {c} /\ V \subseteq T \ {i}
    <2>1. IsFiniteSet(T \ {i}) /\ Cardinality(T \ {i}) = Cardinality(T) - 1
        BY <1>4, FS_RemoveElement
    <2>2. /\ IsFiniteSet(S \cup {c}) /\ Cardinality(S \cup {c}) \in Nat
          /\ Cardinality(S \cup {c}) <= Cardinality(S) + 1
        BY <1>1, FS_AddElement
    <2>3. /\ IsFiniteSet(V) /\ Cardinality(V) <= Cardinality(T \ {i})
          /\ IsFiniteSet(U) /\ Cardinality(U) <= Cardinality(S \cup {c})
        BY <1>4, <2>1, <2>2, FS_Subset
    <2>4. Cardinality(U) \in Nat /\ Cardinality(V) \in Nat
        BY <2>3, FS_CardinalityType
    <2> QED BY <1>1, <2>1, <2>2, <2>3, <2>4
<1> QED BY <1>2, <1>3, <1>4

\* Where points are once client c with the data x has left: its own are in the saved score it has written.
PlacesMove(t, r, c, x, p) ==
    /\ With(r.cs, p) = With(t.cs, p) \ {c}
    /\ x.conn # "authed" => With(r.cs, p) = With(t.cs, p) /\ In(r.saved, p) = In(t.saved, p)
    /\ x.conn = "authed" => \E i \in DOMAIN r.saved :
           /\ Entry(t.saved, r.saved, x, i)
           /\ In(r.saved, p) = IF p \in x.score THEN In(t.saved, p) \cup {i} ELSE In(t.saved, p) \ {i}

LEMMA EntryPlaces ==
    ASSUME NEW old, NEW new, NEW x, NEW i, Entry(old, new, x, i), NEW p
    PROVE  In(new, p) = IF p \in x.score THEN In(old, p) \cup {i} ELSE In(old, p) \ {i}
<1>1. /\ \A j : j # i => (j \in DOMAIN new <=> j \in DOMAIN old)
      /\ \A j \in DOMAIN old : j # i => new[j] = old[j]
      /\ i \in DOMAIN new /\ new[i].valid /\ new[i].score = x.score
    BY DEF Entry
<1>2. \A j : j # i => (j \in In(new, p) <=> j \in In(old, p))
    BY <1>1 DEF In
<1>3. i \in In(new, p) <=> p \in x.score
    BY <1>1 DEF In
<1> QED BY <1>2, <1>3

LEMMA PlacesLeft ==
    ASSUME NEW t, TableOK(t), NEW c \in Slots, NEW r, r = Left(t, c), NEW p
    PROVE  PlacesMove(t, r, c, t.cs[c], p)
<1>1. /\ TableOK(r) /\ r.cs = [t.cs EXCEPT ![c] = Free]
      /\ t.cs[c].conn # "authed" => r.saved = t.saved
      /\ t.cs[c].conn = "authed" => \E i \in DOMAIN r.saved : Entry(t.saved, r.saved, t.cs[c], i)
    BY ClientLeaves
<1>2. t.cs \in [Slots -> Client] /\ Free.conn = "empty"
    BY DEF TableOK, Tables, Free
<1>3. With(r.cs, p) = With(t.cs, p) \ {c}
    BY <1>1, <1>2 DEF With, Authed
<1>4. ASSUME t.cs[c].conn # "authed" PROVE With(r.cs, p) = With(t.cs, p) /\ In(r.saved, p) = In(t.saved, p)
    <2>1. c \notin With(t.cs, p)
        BY <1>4 DEF With, Authed
    <2> QED BY <1>1, <1>3, <1>4, <2>1
<1>5. ASSUME NEW i \in DOMAIN r.saved, Entry(t.saved, r.saved, t.cs[c], i)
      PROVE  In(r.saved, p) = IF p \in t.cs[c].score THEN In(t.saved, p) \cup {i} ELSE In(t.saved, p) \ {i}
    <2> DEFINE x == t.cs[c]
               old == t.saved
               new == r.saved
    <2>1. Entry(old, new, x, i)
        BY <1>5
    <2> HIDE DEF x, old, new
    <2>2. In(new, p) = IF p \in x.score THEN In(old, p) \cup {i} ELSE In(old, p) \ {i}
        BY <2>1, EntryPlaces
    <2> QED BY <2>2 DEF x, old, new
<1> QED BY <1>1, <1>3, <1>4, <1>5 DEF PlacesMove

\* Such a move makes no point more, and loses only what was in the saved score that is overwritten.
LEMMA MoveKeeps ==
    ASSUME NEW t, TableOK(t), NEW r, TableOK(r), NEW c \in Slots, NEW p, PlacesMove(t, r, c, t.cs[c], p)
    PROVE  /\ CopiesAt(r, p) <= CopiesAt(t, p)
           /\ Held(t, p) /\ ~Held(r, p) =>
                 /\ t.cs[c].conn = "authed"
                 /\ \E i \in DOMAIN t.saved : /\ t.saved[i].valid /\ p \in t.saved[i].score
                                              /\ Belongs(t.saved[i], t.cs[c].name, HostOf(t.cs, c))
<1> DEFINE x == t.cs[c]
<1>1. /\ With(r.cs, p) = With(t.cs, p) \ {c}
      /\ x.conn # "authed" => With(r.cs, p) = With(t.cs, p) /\ In(r.saved, p) = In(t.saved, p)
      /\ x.conn = "authed" => \E i \in DOMAIN r.saved :
             /\ Entry(t.saved, r.saved, x, i)
             /\ In(r.saved, p) = IF p \in x.score THEN In(t.saved, p) \cup {i} ELSE In(t.saved, p) \ {i}
    BY DEF PlacesMove
<1>2. CopiesAt(r, p) <= CopiesAt(t, p)
    <2>1. /\ IsFiniteSet(With(t.cs, p)) /\ IsFiniteSet(In(t.saved, p))
          /\ CopiesAt(t, p) = Cardinality(With(t.cs, p)) + Cardinality(In(t.saved, p))
          /\ CopiesAt(r, p) = Cardinality(With(r.cs, p)) + Cardinality(In(r.saved, p))
        BY FinitePlaces
    <2>2. \E i : \/ With(r.cs, p) \subseteq With(t.cs, p) /\ In(r.saved, p) \subseteq In(t.saved, p)
                 \/ /\ c \in With(t.cs, p) /\ With(r.cs, p) \subseteq With(t.cs, p) \ {c}
                    /\ In(r.saved, p) \subseteq In(t.saved, p) \cup {i}
        <3>1. CASE x.conn # "authed"
            BY <1>1, <3>1
        <3>2. CASE x.conn = "authed"
            <4>1. PICK i : In(r.saved, p) = IF p \in x.score THEN In(t.saved, p) \cup {i} ELSE In(t.saved, p) \ {i}
                BY <1>1, <3>2
            <4>2. CASE p \in x.score
                <5>1. c \in With(t.cs, p)
                    BY <3>2, <4>2 DEF With, Authed
                <5> QED BY <1>1, <4>1, <4>2, <5>1
            <4>3. CASE p \notin x.score
                BY <1>1, <4>1, <4>3
            <4> QED BY <4>2, <4>3
        <3> QED BY <3>1, <3>2
    <2>3. Cardinality(With(r.cs, p)) + Cardinality(In(r.saved, p))
             <= Cardinality(With(t.cs, p)) + Cardinality(In(t.saved, p))
        BY <2>1, <2>2, Fewer
    <2> QED BY <2>1, <2>3
<1>3. ASSUME Held(t, p), ~Held(r, p)
      PROVE  /\ x.conn = "authed"
             /\ \E i \in DOMAIN t.saved : /\ t.saved[i].valid /\ p \in t.saved[i].score
                                          /\ Belongs(t.saved[i], x.name, HostOf(t.cs, c))
    <2>1. With(t.cs, p) \ {c} = {} /\ In(r.saved, p) = {}
        BY <1>1, <1>3 DEF Held
    <2>2. x.conn = "authed"
        BY <1>1, <1>3 DEF Held
    <2>3. PICK i : /\ Entry(t.saved, r.saved, x, i)
                   /\ In(r.saved, p) = IF p \in x.score THEN In(t.saved, p) \cup {i} ELSE In(t.saved, p) \ {i}
        BY <1>1, <2>2
    <2>4. p \notin x.score /\ In(t.saved, p) \subseteq {i}
        BY <2>1, <2>3
    <2>5. With(t.cs, p) = {}
        BY <2>1, <2>4 DEF With
    <2>6. i \in In(t.saved, p)
        BY <1>3, <2>4, <2>5 DEF Held
    <2>7. i \in DOMAIN t.saved /\ t.saved[i].valid /\ p \in t.saved[i].score
        BY <2>6 DEF In
    <2>8. Belongs(t.saved[i], x.name, HostOf(t.cs, c))
        BY <2>3, <2>7 DEF Entry, HostOf
    <2> QED BY <2>2, <2>7, <2>8
<1> QED BY <1>2, <1>3

-----------------------------------------------------------------------------
(* Clients that leave one after the other.                                 *)

\* p is in what client c overwrites if it leaves the table t with the name n.
Shades(t, c, n, p) ==
    \/ \E j \in DOMAIN t.saved : /\ t.saved[j].valid /\ Belongs(t.saved[j], n, HostOf(t.cs, c))
                                 /\ p \in t.saved[j].score
    \/ \E d \in Authed(t.cs) \ {c} : /\ Belongs([name |-> t.cs[d].name, host |-> HostOf(t.cs, d)], n, HostOf(t.cs, c))
                                     /\ p \in t.cs[d].score
Overwritten(t, D, p) == \E d \in D : t.cs[d].conn = "authed" /\ Shades(t, d, t.cs[d].name, p)

\* A score that was saved by a client of D on its way from table t.
SavedBy(t, D, sc) ==
    \E d \in D : /\ t.cs[d].conn = "authed" /\ sc.score = t.cs[d].score /\ sc.name = t.cs[d].name
                 /\ Belongs(sc, t.cs[d].name, HostOf(t.cs, d))
Origins(t, u, D) ==
    \A i \in DOMAIN u.saved : u.saved[i].valid =>
        (\E j \in DOMAIN t.saved : t.saved[j] = u.saved[i]) \/ SavedBy(t, D, u.saved[i])

\* u is the table t after the clients of D have left.
Departed(t, u, D) ==
    /\ TableOK(u) /\ D \subseteq Slots
    /\ \A d \in Slots : u.cs[d] = IF d \in D THEN Free ELSE t.cs[d]
    /\ \A p \in Points : CopiesAt(u, p) <= CopiesAt(t, p)
    /\ \A p \in Points : Held(t, p) /\ ~Held(u, p) => Overwritten(t, D, p)
    /\ Origins(t, u, D)

LEMMA NobodyDeparts == ASSUME NEW t, TableOK(t) PROVE Departed(t, t, {})
<1>1. \A p \in Points : CopiesAt(t, p) <= CopiesAt(t, p)
    BY FinitePlaces
<1>2. Origins(t, t, {})
    BY DEF Origins
<1> QED BY <1>1, <1>2 DEF Departed

\* What one more client overwrites was there at the beginning, in a saved score or with a client that has
\* left by now.
LEMMA OverwrittenOnTheWay ==
    ASSUME NEW t, NEW u, NEW D, Departed(t, u, D), NEW d \in Slots \ D, NEW p,
           NEW i \in DOMAIN u.saved, u.saved[i].valid, p \in u.saved[i].score,
           Belongs(u.saved[i], t.cs[d].name, HostOf(t.cs, d))
    PROVE  Shades(t, d, t.cs[d].name, p)
<1> DEFINE sc == u.saved[i]
<1>1. (\E j \in DOMAIN t.saved : t.saved[j] = sc) \/ SavedBy(t, D, sc)
    BY DEF Departed, Origins
<1>2. CASE \E j \in DOMAIN t.saved : t.saved[j] = sc
    BY <1>2 DEF Shades
<1>3. CASE SavedBy(t, D, sc)
    <2>1. PICK e \in D : /\ t.cs[e].conn = "authed" /\ sc.score = t.cs[e].score /\ sc.name = t.cs[e].name
                         /\ Belongs(sc, t.cs[e].name, HostOf(t.cs, e))
        BY <1>3 DEF SavedBy
    <2>2. e \in Authed(t.cs) \ {d}
        BY <2>1 DEF Authed, Departed
    <2>3. Belongs([name |-> t.cs[e].name, host |-> HostOf(t.cs, e)], t.cs[d].name, HostOf(t.cs, d))
        BY <2>1 DEF Belongs
    <2>4. p \in t.cs[e].score
        BY <2>1
    <2> QED BY <2>2, <2>3, <2>4 DEF Shades
<1> QED BY <1>1, <1>2, <1>3

LEMMA OneMoreDeparts ==
    ASSUME NEW t, TableOK(t), NEW u, NEW D, Departed(t, u, D), NEW d \in Slots \ D, NEW v, v = Left(u, d)
    PROVE  Departed(t, v, D \cup {d})
<1> DEFINE E == D \cup {d}
           x == t.cs[d]
<1>1. /\ TableOK(u) /\ D \subseteq Slots /\ Origins(t, u, D) /\ u.cs[d] = x
      /\ \A c \in Slots : u.cs[c] = IF c \in D THEN Free ELSE t.cs[c]
      /\ \A p \in Points : CopiesAt(u, p) <= CopiesAt(t, p)
      /\ \A p \in Points : Held(t, p) /\ ~Held(u, p) => Overwritten(t, D, p)
    BY DEF Departed
<1>2. /\ TableOK(v) /\ v.cs = [u.cs EXCEPT ![d] = Free]
      /\ x.conn # "authed" => v.saved = u.saved
      /\ x.conn = "authed" => \E i \in DOMAIN v.saved : Entry(u.saved, v.saved, x, i)
    <2>1. TableOK(u) /\ u.cs[d] = x
        BY <1>1
    <2>2. /\ TableOK(v) /\ v.cs = [u.cs EXCEPT ![d] = Free]
          /\ u.cs[d].conn # "authed" => v.saved = u.saved
          /\ u.cs[d].conn = "authed" => \E i \in DOMAIN v.saved : Entry(u.saved, v.saved, u.cs[d], i)
        BY <2>1, ClientLeaves, SMTT(60)
    <2> HIDE DEF x
    <2> QED BY <2>1, <2>2
<1>3. ASSUME NEW p PROVE PlacesMove(u, v, d, x, p)
    <2>1. d \in Slots /\ TableOK(u)
        BY <1>1
    <2>2. PlacesMove(u, v, d, u.cs[d], p)
        BY <2>1, PlacesLeft
    <2> QED BY <1>1, <2>2
<1> HIDE DEF x
<1>4. \A c \in Slots : v.cs[c] = IF c \in E THEN Free ELSE t.cs[c]
    <2>1. u.cs \in [Slots -> Client]
        BY <1>1 DEF TableOK, Tables
    <2> QED BY <1>1, <1>2, <2>1
<1>5. Origins(t, v, E)
    <2> SUFFICES ASSUME NEW k \in DOMAIN v.saved, v.saved[k].valid
                 PROVE  (\E j \in DOMAIN t.saved : t.saved[j] = v.saved[k]) \/ SavedBy(t, E, v.saved[k])
        BY DEF Origins
    <2>1. ASSUME k \in DOMAIN u.saved, v.saved[k] = u.saved[k]
          PROVE  (\E j \in DOMAIN t.saved : t.saved[j] = v.saved[k]) \/ SavedBy(t, E, v.saved[k])
        <3>1. (\E j \in DOMAIN t.saved : t.saved[j] = u.saved[k]) \/ SavedBy(t, D, u.saved[k])
            BY <1>1, <2>1 DEF Origins
        <3> QED BY <2>1, <3>1 DEF SavedBy
    <2>2. CASE x.conn # "authed"
        BY <1>2, <2>1, <2>2
    <2>3. CASE x.conn = "authed"
        <3>1. PICK i \in DOMAIN v.saved : Entry(u.saved, v.saved, x, i)
            BY <1>2, <2>3
        <3>2. CASE k = i
            <4>1. /\ v.saved[k].score = x.score /\ v.saved[k].name = x.name
                  /\ Belongs(v.saved[k], x.name, HostOf(t.cs, d))
                BY <3>1, <3>2 DEF Entry, HostOf, x
            <4> QED BY <4>1, <2>3 DEF SavedBy, x
        <3>3. CASE k # i
            <4>1. k \in DOMAIN u.saved /\ v.saved[k] = u.saved[k]
                BY <3>1, <3>3 DEF Entry
            <4> QED BY <2>1, <4>1
        <3> QED BY <3>2, <3>3
    <2> QED BY <2>2, <2>3
<1>6. ASSUME NEW p \in Points PROVE CopiesAt(v, p) <= CopiesAt(t, p)
    <2>1. CopiesAt(v, p) <= CopiesAt(u, p)
        BY <1>1, <1>2, <1>3, MoveKeeps DEF x
    <2>2. CopiesAt(u, p) <= CopiesAt(t, p) /\ CopiesAt(v, p) \in Nat /\ CopiesAt(u, p) \in Nat /\ CopiesAt(t, p) \in Nat
        BY <1>1, <1>2, FinitePlaces
    <2> QED BY <2>1, <2>2
<1>7. ASSUME NEW p \in Points, Held(t, p), ~Held(v, p) PROVE Overwritten(t, E, p)
    <2>1. CASE ~Held(u, p)
        <3>1. Overwritten(t, D, p)
            BY <1>1, <1>7, <2>1
        <3> QED BY <3>1 DEF Overwritten
    <2>2. CASE Held(u, p)
        <3>1. /\ u.cs[d].conn = "authed"
              /\ \E i \in DOMAIN u.saved : /\ u.saved[i].valid /\ p \in u.saved[i].score
                                           /\ Belongs(u.saved[i], u.cs[d].name, HostOf(u.cs, d))
            BY <1>1, <1>2, <1>3, <1>7, <2>2, MoveKeeps DEF x
        <3>2. PICK i \in DOMAIN u.saved : /\ u.saved[i].valid /\ p \in u.saved[i].score
                                         /\ Belongs(u.saved[i], t.cs[d].name, HostOf(t.cs, d))
            BY <1>1, <3>1 DEF HostOf, x
        <3>3. Shades(t, d, t.cs[d].name, p)
            BY <3>2, OverwrittenOnTheWay
        <3> QED BY <1>1, <3>1, <3>3 DEF Overwritten, x
    <2> QED BY <2>1, <2>2
<1>8. E \subseteq Slots
    BY <1>1
<1> HIDE DEF E
<1>9. Departed(t, v, E)
    BY <1>2, <1>4, <1>5, <1>6, <1>7, <1>8 DEF Departed
<1> QED BY <1>9 DEF E

\* SV_CONNECT: one duplicate after the other.
LEMMA DuplicatesDepart ==
    ASSUME NEW t, TableOK(t), NEW u, NEW D, Departed(t, u, D), NEW c, NEW w, w = WithoutDuplicates(u, c)
    PROVE  Departed(t, w, D \cup Duplicates(u.cs, c))
<1> DEFINE S == {q \in Tables : TableOK(q)}
           Dups == Duplicates(u.cs, c)
           ds == SetToSeq(Dups)
           k == Len(ds)
           rest == CHOOSE f : f = [i \in 0..k |-> IF i = 0 THEN u ELSE Left(f[i - 1], ds[i])]
           step == [i \in 1..k |-> [q \in S |-> Left(q, ds[i])]]
<1>1. w = rest[k]
    BY Zenon DEF WithoutDuplicates
<1>2. /\ ds \in Seq(Dups) /\ k \in Nat /\ DOMAIN ds = 1..k
      /\ \A i, j \in 1..k : ds[i] = ds[j] => i = j
      /\ \A d \in Dups : \E i \in 1..k : ds[i] = d
    <2>1. IsFiniteSet(Slots) /\ Dups \in SUBSET Slots
        BY SeatsAssumption DEF Duplicates
    <2>2. IsFiniteSet(Dups)
        BY <2>1, FS_Subset
    <2> HIDE DEF Dups
    <2> QED BY <2>2, SeqOfSet
<1>3. TableOK(u) /\ u \in S /\ Dups \subseteq Slots /\ Dups \cap D = {}
    BY DEF Departed, TableOK, Duplicates, valid_client, Free
<1>4. \A i \in 1..k : ds[i] \in Slots /\ ds[i] \in Dups /\ ds[i] \notin D
    <2> HIDE DEF ds, Dups
    <2> QED BY <1>2, <1>3
<1> HIDE DEF Dups, ds, k
<1>5. \A q \in S : \A i \in 1..k : Left(q, ds[i]) \in S
    BY <1>4, ClientLeaves DEF TableOK
<1>6. \E f \in [0..k -> S] : f = [i \in 0..k |-> IF i = 0 THEN u ELSE Left(f[i - 1], ds[i])]
    <2>1. step \in [1..k -> [S -> S]]
        BY <1>5
    <2> HIDE DEF S, step
    <2>2. PICK f \in [0..k -> S] : Steps(f, u, k, step)
        BY <1>2, <1>3, <2>1, Iterated
    <2>3. ASSUME NEW i \in 0..k PROVE f[i] = IF i = 0 THEN u ELSE Left(f[i - 1], ds[i])
        <3>1. CASE i = 0
            BY <2>2, <3>1 DEF Steps
        <3>2. CASE i # 0
            <4>1. i \in 1..k /\ i - 1 \in 0..k
                BY <1>2, <3>2
            <4>2. f[i - 1] \in S
                BY <4>1
            <4> QED BY <2>2, <3>2, <4>1, <4>2 DEF step, Steps
        <3> QED BY <3>1, <3>2
    <2>4. f = [i \in 0..k |-> f[i]]
        OBVIOUS
    <2>5. f = [i \in 0..k |-> IF i = 0 THEN u ELSE Left(f[i - 1], ds[i])]
        BY <2>3, <2>4
    <2> QED BY <2>5
<1>7. rest = [i \in 0..k |-> IF i = 0 THEN u ELSE Left(rest[i - 1], ds[i])]
    BY <1>6, Zenon
<1> HIDE DEF rest, step, S
<1> DEFINE Gone(i) == D \cup {ds[j] : j \in 1..i}
           G == {i \in 0..k : Departed(t, rest[i], Gone(i))}
<1>8. 0 \in G
    <2>1. rest[0] = u /\ Gone(0) = D
        BY <1>2, <1>7
    <2> HIDE DEF Gone
    <2> QED BY <1>2, <2>1
<1>9. ASSUME NEW i \in 1..k, i - 1 \in G PROVE i \in G
    <2>1. i \in 0..k /\ i # 0 /\ i - 1 \in 0..k /\ i \in Nat
        BY <1>2
    <2>2. rest[i] = Left(rest[i - 1], ds[i])
        BY <2>1, <1>7
    <2>3. Departed(t, rest[i - 1], Gone(i - 1))
        BY <1>9
    <2>4. ds[i] \in Slots \ Gone(i - 1)
        <3>1. \A j \in 1..i - 1 : j \in 1..k /\ j # i
            BY <1>2
        <3> QED BY <1>2, <1>4, <3>1
    <2>5. Gone(i) = Gone(i - 1) \cup {ds[i]}
        <3>1. 1..i = (1..i - 1) \cup {i}
            BY <2>1
        <3> QED BY <3>1
    <2> HIDE DEF Gone
    <2>6. Departed(t, rest[i], Gone(i - 1) \cup {ds[i]})
        BY <2>2, <2>3, <2>4, OneMoreDeparts
    <2> QED BY <2>1, <2>5, <2>6
<1>10. 0..k \subseteq G
    <2> HIDE DEF G
    <2> QED BY <1>2, <1>8, <1>9, UpTo
<1>11. Gone(k) = D \cup Dups
    BY <1>2, <1>4
<1> HIDE DEF Gone
<1>12. Departed(t, w, Gone(k))
    BY <1>1, <1>2, <1>10
<1> QED BY <1>11, <1>12 DEF Dups

-----------------------------------------------------------------------------
(* Restoring a score, and letting a client in.                             *)

\* The table r is t with another score of client c.
OtherScore(t, r, c) ==
    /\ r.cs[c].conn = t.cs[c].conn /\ r.cs[c].peer = t.cs[c].peer /\ r.cs[c].name = t.cs[c].name
    /\ \A d \in Slots \ {c} : r.cs[d] = t.cs[d]

\* restorescore: no point gets lost, and only a twin's can become more.
LEMMA Restoring ==
    ASSUME NEW t, TableOK(t), NEW c \in Slots, t.cs[c].conn = "authed", t.cs[c].score = {},
           NEW r \in Restored(t, c)
    PROVE  /\ TableOK(r) /\ OtherScore(t, r, c)
           /\ \A p \in Points : Held(t, p) => Held(r, p)
           /\ \A p \in Points : CopiesAt(r, p) > CopiesAt(t, p) => \E d \in Twins(t.cs, c) : p \in t.cs[d].score
<1> DEFINE found == SavedOf(t, c)
           first == CHOOSE i \in found : \A j \in found : i <= j
           x == t.cs[c]
<1>1. t = [cs |-> t.cs, saved |-> t.saved] /\ t.saved \in Seq(Saves) /\ t.cs \in [Slots -> Client]
      /\ ClientOK(x) /\ x \in Client
    BY DEF TableOK, Tables, ClientOK
\* Another score, and other saved ones.
<1>2. ASSUME NEW score \in SUBSET Points, NEW saved \in Seq(Saves),
             r = [cs |-> [t.cs EXCEPT ![c] = [x EXCEPT !.score = score]], saved |-> saved]
      PROVE  /\ TableOK(r) /\ OtherScore(t, r, c) /\ r.saved = saved
             /\ \A p \in Points : With(r.cs, p) = IF p \in score THEN With(t.cs, p) \cup {c} ELSE With(t.cs, p)
    <2> DEFINE y == [x EXCEPT !.score = score]
    <2>1. /\ y.conn = x.conn /\ y.peer = x.peer /\ y.name = x.name /\ y.score = score /\ ClientOK(y)
        BY <1>1 DEF ClientOK, Client
    <2>2. y \in Client
        BY <2>1 DEF ClientOK
    <2> HIDE DEF y
    <2>3. /\ r.cs = [t.cs EXCEPT ![c] = y] /\ r.saved = saved /\ r = [cs |-> r.cs, saved |-> saved]
          /\ r.cs[c] = y /\ \A d \in Slots \ {c} : r.cs[d] = t.cs[d]
        BY <1>1, <1>2 DEF y
    <2>4. TableOK(r)
        <3>1. r.cs \in [Slots -> Client]
            BY <1>1, <2>2, <2>3
        <3>2. \A d \in Slots : ClientOK(r.cs[d])
            BY <2>1, <2>3 DEF TableOK
        <3> QED BY <2>3, <3>1, <3>2 DEF TableOK, Tables
    <2>5. OtherScore(t, r, c)
        BY <2>1, <2>3 DEF OtherScore
    <2>6. ASSUME NEW p \in Points
          PROVE  With(r.cs, p) = IF p \in score THEN With(t.cs, p) \cup {c} ELSE With(t.cs, p)
        <3>1. \A d \in Slots \ {c} : d \in With(r.cs, p) <=> d \in With(t.cs, p)
            BY <2>3 DEF With, Authed
        <3>2. c \in With(r.cs, p) <=> p \in score
            BY <2>1, <2>3 DEF With, Authed
        <3>3. c \notin With(t.cs, p)
            BY DEF With
        <3>4. With(r.cs, p) \subseteq Slots /\ With(t.cs, p) \subseteq Slots
            BY DEF With, Authed
        <3> DEFINE U == With(r.cs, p)
                   V == With(t.cs, p)
        <3> HIDE DEF U, V
        <3>5. \A d \in Slots : d \in U <=> IF d = c THEN p \in score ELSE d \in V
            BY <3>1, <3>2 DEF U, V
        <3>6. U \subseteq Slots /\ V \subseteq Slots /\ c \notin V
            BY <3>3, <3>4 DEF U, V
        <3>7. U = IF p \in score THEN V \cup {c} ELSE V
            BY <3>5, <3>6
        <3> QED BY <3>7 DEF U, V
    <2> QED BY <2>3, <2>4, <2>5, <2>6
<1>3. CASE Twins(t.cs, c) # {}
    <2>1. PICK d \in Twins(t.cs, c) : r = [t EXCEPT !.cs[c].score = t.cs[d].score]
        BY <1>3, Zenon DEF Restored
    <2> DEFINE score == t.cs[d].score
    <2>2. score \in SUBSET Points
        BY <1>1, <2>1 DEF Twins, Authed, Client
    <2>3. r = [cs |-> [t.cs EXCEPT ![c] = [x EXCEPT !.score = score]], saved |-> t.saved]
        BY <1>1, <2>1
    <2> HIDE DEF score
    <2>4. /\ TableOK(r) /\ OtherScore(t, r, c) /\ r.saved = t.saved
          /\ \A p \in Points : With(r.cs, p) = IF p \in score THEN With(t.cs, p) \cup {c} ELSE With(t.cs, p)
        BY <1>1, <1>2, <2>2, <2>3
    <2>5. \A p \in Points : Held(t, p) => Held(r, p)
        BY <2>4 DEF Held
    <2>6. ASSUME NEW p \in Points, p \notin score PROVE CopiesAt(r, p) = CopiesAt(t, p)
        BY <2>4, <2>6 DEF CopiesAt, Copies
    <2>7. ASSUME NEW p \in Points, CopiesAt(r, p) > CopiesAt(t, p) PROVE p \in score
        <3>1. CopiesAt(t, p) \in Nat
            BY FinitePlaces
        <3> QED BY <2>6, <2>7, <3>1
    <2> QED BY <2>4, <2>5, <2>7 DEF score
<1>4. CASE Twins(t.cs, c) = {} /\ found # {} /\ t.saved[first].valid
    <2>1. r = [t EXCEPT !.cs[c].score = t.saved[first].score, !.saved[first].score = {}, !.saved[first].valid = FALSE]
        BY <1>4 DEF Restored
    <2>2. first \in DOMAIN t.saved
        <3>1. found \subseteq DOMAIN t.saved /\ found \subseteq Nat
            BY <1>1 DEF SavedOf
        <3> HIDE DEF found
        <3>2. \E i \in found : \A j \in found : i <= j
            BY <1>4, <3>1, MinOfNaturals
        <3> QED BY <3>1, <3>2
    <2>3. t.saved[first].valid
        BY <1>4
    <2> HIDE DEF first, found
    <2> DEFINE sc == t.saved[first]
               score == sc.score
               none == [sc EXCEPT !.score = {}, !.valid = FALSE]
               saved == [t.saved EXCEPT ![first] = none]
    <2>4. sc \in Saves
        BY <1>1, <2>2
    <2>5. score \in SUBSET Points /\ none \in Saves /\ ~none.valid
        BY <2>4 DEF Saves
    <2>6. r = [cs |-> [t.cs EXCEPT ![c] = [x EXCEPT !.score = score]], saved |-> saved]
        BY <1>1, <2>1, <2>2, <2>4 DEF Saves
    <2> HIDE DEF none
    <2>7. saved \in Seq(Saves) /\ DOMAIN saved = DOMAIN t.saved
        <3>1. DOMAIN t.saved = 1..Len(t.saved) /\ Len(t.saved) \in Nat /\ t.saved \in [1..Len(t.saved) -> Saves]
            BY <1>1
        <3>2. saved \in [1..Len(t.saved) -> Saves] /\ DOMAIN saved = 1..Len(t.saved)
            BY <2>5, <3>1
        <3> QED BY <3>1, <3>2, ArraysAreSequences, Zenon
    <2>8. saved[first] = none /\ \A j \in DOMAIN t.saved \ {first} : saved[j] = t.saved[j]
        BY <2>2
    <2> HIDE DEF saved
    <2>9. /\ TableOK(r) /\ OtherScore(t, r, c) /\ r.saved = saved
          /\ \A p \in Points : With(r.cs, p) = IF p \in score THEN With(t.cs, p) \cup {c} ELSE With(t.cs, p)
        <3> HIDE DEF score, sc
        <3> QED BY <1>2, <2>5, <2>6, <2>7
    <2>10. ASSUME NEW p \in Points
           PROVE  In(saved, p) = In(t.saved, p) \ {first} /\ (first \in In(t.saved, p) <=> p \in score)
        BY <2>2, <2>3, <2>5, <2>7, <2>8 DEF In
    <2> HIDE DEF score, sc
    <2>11. \A p \in Points : Held(t, p) => Held(r, p)
        BY <2>9, <2>10 DEF Held
    <2>12. ASSUME NEW p \in Points PROVE CopiesAt(r, p) <= CopiesAt(t, p)
        <3>1. /\ IsFiniteSet(With(t.cs, p)) /\ IsFiniteSet(In(t.saved, p))
              /\ CopiesAt(t, p) = Cardinality(With(t.cs, p)) + Cardinality(In(t.saved, p))
              /\ CopiesAt(r, p) = Cardinality(With(r.cs, p)) + Cardinality(In(r.saved, p))
            BY <2>9, FinitePlaces
        <3>2. \/ With(r.cs, p) \subseteq With(t.cs, p) /\ In(r.saved, p) \subseteq In(t.saved, p)
              \/ /\ first \in In(t.saved, p) /\ With(r.cs, p) \subseteq With(t.cs, p) \cup {c}
                 /\ In(r.saved, p) \subseteq In(t.saved, p) \ {first}
            BY <2>9, <2>10
        <3>3. Cardinality(With(r.cs, p)) + Cardinality(In(r.saved, p))
                 <= Cardinality(With(t.cs, p)) + Cardinality(In(t.saved, p))
            BY <3>1, <3>2, Fewer
        <3> QED BY <3>1, <3>3
    <2>13. \A p \in Points : ~(CopiesAt(r, p) > CopiesAt(t, p))
        <3>1. \A p \in Points : CopiesAt(r, p) \in Nat /\ CopiesAt(t, p) \in Nat
            BY <2>9, FinitePlaces
        <3> QED BY <2>12, <3>1
    <2> QED BY <2>9, <2>11, <2>13
<1>5. CASE ~(Twins(t.cs, c) # {}) /\ ~(Twins(t.cs, c) = {} /\ found # {} /\ t.saved[first].valid)
    <2>1. r = t
        BY <1>5 DEF Restored
    <2>2. \A p \in Points : ~(CopiesAt(r, p) > CopiesAt(t, p))
        BY <2>1, FinitePlaces
    <2> QED BY <2>1, <2>2 DEF OtherScore
<1> QED BY <1>3, <1>4, <1>5

\* What comes of table t when client c, which has a name and is authed in it, is let in.
LetIn(t, u, c, crowded) ==
    /\ TableOK(u) /\ u.cs[c].conn = "authed" /\ u.cs[c].peer = t.cs[c].peer /\ u.cs[c].name = t.cs[c].name
    /\ \A d \in Slots \ {c} : u.cs[d] = t.cs[d] \/ u.cs[d] = Free
    /\ \A d \in Slots \ {c} : valid_client(u.cs, d) => u.cs[d].peer # t.cs[c].peer
    /\ crowded => \E d \in Slots \ {c} : valid_client(t.cs, d) /\ u.cs[d] = Free
    /\ \A p \in Points : Held(t, p) /\ ~Held(u, p) =>
          \E d \in Slots \ {c} : t.cs[d].conn = "authed" /\ Shades(t, d, t.cs[d].name, p)
    /\ \A p \in Points : CopiesAt(u, p) > CopiesAt(t, p) =>
          \E d \in Twins(u.cs, c) : u.cs[d] = t.cs[d] /\ p \in t.cs[d].score

LEMMA Admitting ==
    ASSUME NEW t, TableOK(t), NEW c \in Slots, t.cs[c].conn = "authed", t.cs[c].score = {},
           NEW crowded \in BOOLEAN, NEW u \in Admitted(t, c, crowded)
    PROVE  LetIn(t, u, c, crowded)
<1>1. \E q, D : /\ Departed(t, q, D) /\ c \notin D /\ u \in Restored(WithoutDuplicates(q, c), c)
                /\ crowded => \E d \in D : valid_client(t.cs, d)
    <2>1. CASE crowded
        <3>1. PICK d \in Slots \ {c} : valid_client(t.cs, d) /\ u \in Restored(WithoutDuplicates(Left(t, d), c), c)
            BY <2>1 DEF Admitted
        <3>2. Departed(t, Left(t, d), {} \cup {d})
            BY NobodyDeparts, OneMoreDeparts
        <3>3. c \notin {} \cup {d} /\ d \in {} \cup {d}
            OBVIOUS
        <3> QED BY <3>1, <3>2, <3>3
    <2>2. CASE ~crowded
        <3>1. u \in Restored(WithoutDuplicates(t, c), c)
            BY <2>2 DEF Admitted
        <3> QED BY <2>2, <3>1, NobodyDeparts
    <2> QED BY <2>1, <2>2
<1>2. PICK q, D : /\ Departed(t, q, D) /\ c \notin D /\ u \in Restored(WithoutDuplicates(q, c), c)
                  /\ crowded => \E d \in D : valid_client(t.cs, d)
    BY <1>1
<1> DEFINE r == WithoutDuplicates(q, c)
           E == D \cup Duplicates(q.cs, c)
<1>3. Departed(t, r, E) /\ c \notin E /\ u \in Restored(r, c)
    <2>1. Departed(t, r, E)
        BY <1>2, DuplicatesDepart
    <2> QED BY <1>2, <2>1 DEF Duplicates
<1>4. \A d \in Slots \ {c} : valid_client(r.cs, d) => r.cs[d].peer # t.cs[c].peer
    <2> SUFFICES ASSUME NEW d \in Slots \ {c}, valid_client(r.cs, d), r.cs[d].peer = t.cs[c].peer PROVE FALSE
        OBVIOUS
    <2>1. d \notin E /\ r.cs[d] = t.cs[d]
        BY <1>3 DEF Departed, valid_client, Free
    <2>2. q.cs[d] = t.cs[d] /\ q.cs[c] = t.cs[c]
        BY <1>2, <2>1 DEF Departed
    <2>3. d \in Duplicates(q.cs, c)
        BY <2>1, <2>2 DEF Duplicates, valid_client
    <2> QED BY <2>1, <2>3
<1> HIDE DEF r, E
<1>6. /\ TableOK(r) /\ E \subseteq Slots /\ r.cs[c] = t.cs[c]
      /\ \A d \in Slots : r.cs[d] = IF d \in E THEN Free ELSE t.cs[d]
      /\ \A p \in Points : CopiesAt(r, p) <= CopiesAt(t, p)
      /\ \A p \in Points : Held(t, p) /\ ~Held(r, p) => Overwritten(t, E, p)
    BY <1>3 DEF Departed
<1>7. /\ TableOK(u) /\ OtherScore(r, u, c)
      /\ \A p \in Points : Held(r, p) => Held(u, p)
      /\ \A p \in Points : CopiesAt(u, p) > CopiesAt(r, p) => \E d \in Twins(r.cs, c) : p \in r.cs[d].score
    BY <1>3, <1>6, Restoring
<1>8. \A d \in Slots \ {c} : u.cs[d] = r.cs[d]
    BY <1>7 DEF OtherScore
<1>9. u.cs[c].conn = "authed" /\ u.cs[c].peer = t.cs[c].peer /\ u.cs[c].name = t.cs[c].name
    BY <1>6, <1>7 DEF OtherScore
<1>10. \A d \in Slots \ {c} : u.cs[d] = t.cs[d] \/ u.cs[d] = Free
    BY <1>6, <1>8
<1>11. \A d \in Slots \ {c} : valid_client(u.cs, d) => u.cs[d].peer # t.cs[c].peer
    BY <1>4, <1>8 DEF valid_client
<1>12. crowded => \E d \in Slots \ {c} : valid_client(t.cs, d) /\ u.cs[d] = Free
    <2> SUFFICES ASSUME crowded PROVE \E d \in Slots \ {c} : valid_client(t.cs, d) /\ u.cs[d] = Free
        OBVIOUS
    <2>1. PICK d \in D : valid_client(t.cs, d)
        BY <1>2
    <2>2. d \in E
        BY DEF E
    <2> QED BY <1>3, <1>6, <1>8, <2>1, <2>2
<1>13. ASSUME NEW p \in Points, Held(t, p), ~Held(u, p)
       PROVE  \E d \in Slots \ {c} : t.cs[d].conn = "authed" /\ Shades(t, d, t.cs[d].name, p)
    <2>1. Overwritten(t, E, p)
        BY <1>6, <1>7, <1>13
    <2> QED BY <1>3, <1>6, <2>1 DEF Overwritten
<1>14. ASSUME NEW p \in Points, CopiesAt(u, p) > CopiesAt(t, p)
       PROVE  \E d \in Twins(u.cs, c) : u.cs[d] = t.cs[d] /\ p \in t.cs[d].score
    <2>1. CopiesAt(u, p) > CopiesAt(r, p)
        <3>1. CopiesAt(u, p) \in Nat /\ CopiesAt(r, p) \in Nat /\ CopiesAt(t, p) \in Nat
            BY <1>6, <1>7, FinitePlaces
        <3> QED BY <1>6, <1>14, <3>1
    <2>2. PICK d \in Twins(r.cs, c) : p \in r.cs[d].score
        BY <1>7, <2>1
    <2>3. d \in Slots \ {c} /\ r.cs[d].conn = "authed" /\ r.cs[d].name = r.cs[c].name /\ HostOf(r.cs, d) = HostOf(r.cs, c)
        BY <2>2 DEF Twins, Authed
    <2>4. u.cs[d] = r.cs[d] /\ u.cs[c].name = r.cs[c].name /\ u.cs[c].peer = r.cs[c].peer
        BY <1>6, <1>8, <1>9, <2>3
    <2>5. d \in Twins(u.cs, c)
        BY <2>3, <2>4 DEF Twins, Authed, HostOf
    <2>6. r.cs[d] = t.cs[d]
        BY <1>6, <2>3 DEF Free
    <2> QED BY <2>2, <2>4, <2>5, <2>6
<1> QED BY <1>7, <1>9, <1>10, <1>11, <1>12, <1>13, <1>14 DEF LetIn

-----------------------------------------------------------------------------
(* Bans.                                                                   *)

\* The expired bans are the oldest.
Aged(bs) == \A i, j \in DOMAIN bs : i < j /\ bs[j].expired => bs[i].expired

LEMMA ExpiredFirst ==
    ASSUME bans \in Seq(Bans), Aged(bans)
    PROVE  Expired \in 0..Len(bans) /\ \A i \in DOMAIN bans : bans[i].expired <=> i <= Expired
<1> DEFINE m == Len(bans)
           K == {k \in 0..m : \A j \in DOMAIN bans : j > k => ~bans[j].expired}
<1>1. m \in Nat /\ DOMAIN bans = 1..m
    OBVIOUS
<1>2. m \in K /\ K \subseteq Nat
    BY <1>1
<1>3. PICK k \in K : \A l \in K : k <= l
    BY <1>2, MinOfNaturals
<1>4. k \in 0..m /\ \A j \in 1..m : j > k => ~bans[j].expired
    BY <1>1, <1>3
<1>5. ASSUME NEW i \in 1..m, i <= k PROVE bans[i].expired
    <2>1. k - 1 \in 0..m /\ k - 1 \notin K
        BY <1>1, <1>3, <1>4, <1>5
    <2>2. PICK j \in 1..m : j > k - 1 /\ bans[j].expired
        BY <1>1, <2>1
    <2>3. j = k
        BY <1>4, <2>1, <2>2
    <2>4. i = k \/ i < k
        BY <1>4, <1>5
    <2> QED BY <1>1, <2>2, <2>3, <2>4 DEF Aged
<1> HIDE DEF K, m
<1>6. \A i \in 1..m : bans[i].expired <=> i <= k
    <2>1. \A i \in 1..m : i \in Int /\ k \in Int
        BY <1>1, <1>4
    <2> QED BY <1>4, <1>5, <2>1
<1>7. {i \in DOMAIN bans : bans[i].expired} = 1..k
    <2>1. \A i : i \in 1..k <=> i \in 1..m /\ i <= k
        BY <1>1, <1>4
    <2> QED BY <1>1, <1>6, <2>1
<1>8. Expired = k
    <2>1. 1 \in Int /\ k \in Int
        BY <1>4
    <2>2. Cardinality(1..k) = IF 1 > k THEN 0 ELSE k - 1 + 1
        BY <2>1, FS_Interval, Zenon
    <2>3. Cardinality(1..k) = k
        BY <1>4, <2>2
    <2> QED BY <1>7, <2>3 DEF Expired
<1> QED BY <1>1, <1>4, <1>6, <1>8 DEF m

\* Some bans of a list, in their order.
LEMMA SomeBans ==
    ASSUME NEW bs, Aged(bs), NEW r, NEW f \in [DOMAIN r -> DOMAIN bs],
           \A i \in DOMAIN r : r[i] = bs[f[i]],
           \A i, j \in DOMAIN r : i < j => f[i] < f[j]
    PROVE  Aged(r)
BY DEF Aged

LEMMA LaterBans ==
    ASSUME NEW bs \in Seq(Bans), Aged(bs), NEW a \in 0..Len(bs), NEW r, r = SubSeq(bs, a + 1, Len(bs))
    PROVE  r \in Seq(Bans) /\ Aged(r) /\ Len(r) = Len(bs) - a
<1> DEFINE f == [i \in 1..Len(bs) - a |-> i + a]
<1>1. r \in Seq(Bans) /\ Len(r) = Len(bs) - a /\ DOMAIN r = 1..Len(bs) - a
    OBVIOUS
<1>2. \A i \in 1..Len(bs) - a : r[i] = bs[i + a]
    OBVIOUS
<1>3. f \in [DOMAIN r -> DOMAIN bs]
    BY <1>1
<1>4. \A i \in DOMAIN r : r[i] = bs[f[i]]
    BY <1>1, <1>2
<1>5. \A i, j \in DOMAIN r : i < j => f[i] < f[j]
    BY <1>1
<1> HIDE DEF f
<1>6. Aged(r)
    BY <1>3, <1>4, <1>5, SomeBans
<1> QED BY <1>1, <1>6

LEMMA Joined ==
    ASSUME NEW S, NEW p \in Seq(S), NEW q \in Seq(S), NEW r, r = p \o q
    PROVE  /\ r \in Seq(S) /\ Len(r) = Len(p) + Len(q) /\ DOMAIN r = 1..Len(r)
           /\ \A i \in 1..Len(p) + Len(q) : r[i] = IF i <= Len(p) THEN p[i] ELSE q[i - Len(p)]
<1>1. r \in Seq(S)
    OBVIOUS
<1>2. Len(r) = Len(p) + Len(q)
    OBVIOUS
<1>3. \A i \in 1..Len(p) + Len(q) : r[i] = IF i <= Len(p) THEN p[i] ELSE q[i - Len(p)]
    OBVIOUS
<1> QED BY <1>1, <1>2, <1>3

\* removeban, or the password that lifts a ban.
LEMMA Unbanning ==
    ASSUME NEW bs \in Seq(Bans), Aged(bs), NEW h, NEW r, r = Unbanned(bs, h)
    PROVE  r \in Seq(Bans) /\ Aged(r) /\ Len(r) <= Len(bs)
<1> DEFINE on == {i \in DOMAIN bs : bs[i].host = h}
           k == Min(on)
           m == Len(bs)
<1>1. m \in Nat /\ DOMAIN bs = 1..m
    OBVIOUS
<1>2. CASE on = {}
    BY <1>1, <1>2 DEF Unbanned
<1>3. CASE on # {}
    <2>1. k \in 1..m
        <3>1. on \subseteq Nat /\ on \subseteq 1..m
            BY <1>1
        <3> HIDE DEF on
        <3> QED BY <1>3, <3>1, MinOfNaturals
    <2>2. r = SubSeq(bs, 1, k - 1) \o SubSeq(bs, k + 1, m)
        BY <1>3 DEF Unbanned
    <2> HIDE DEF k, on
    <2> DEFINE p == SubSeq(bs, 1, k - 1)
               q == SubSeq(bs, k + 1, m)
               f == [i \in 1..m - 1 |-> IF i < k THEN i ELSE i + 1]
    <2>3. p \in Seq(Bans) /\ Len(p) = k - 1 /\ \A i \in 1..k - 1 : p[i] = bs[i]
        BY <1>1, <2>1
    <2>4. q \in Seq(Bans) /\ Len(q) = m - k /\ \A i \in 1..m - k : q[i] = bs[i + k]
        <3>1. k \in 0..Len(bs)
            BY <1>1, <2>1
        <3>2. q \in Seq(Bans) /\ Len(q) = Len(bs) - k
            BY <3>1
        <3>3. \A i \in 1..Len(bs) - k : q[i] = bs[i + k]
            BY <3>1
        <3> QED BY <3>2, <3>3
    <2> HIDE DEF p, q
    <2>5. r = p \o q
        BY <2>2 DEF p, q
    <2>6. r \in Seq(Bans) /\ Len(r) = m - 1 /\ DOMAIN r = 1..m - 1
          /\ \A i \in 1..m - 1 : r[i] = IF i <= k - 1 THEN p[i] ELSE q[i - (k - 1)]
        <3>0. p \in Seq(Bans) /\ q \in Seq(Bans)
            BY <2>3, <2>4
        <3>1. r \in Seq(Bans) /\ Len(r) = Len(p) + Len(q) /\ DOMAIN r = 1..Len(r)
            <4>1. r \in Seq(Bans)
                BY <3>0, <2>5
            <4>2. Len(r) = Len(p) + Len(q)
                BY <3>0, <2>5
            <4>3. DOMAIN r = 1..Len(r)
                BY <4>1
            <4> QED BY <4>1, <4>2, <4>3
        <3>2. \A i \in 1..Len(p) + Len(q) : r[i] = IF i <= Len(p) THEN p[i] ELSE q[i - Len(p)]
            BY <3>0, <2>5
        <3>3. Len(p) + Len(q) = m - 1
            BY <1>1, <2>1, <2>3, <2>4
        <3>4. Len(p) = k - 1
            BY <2>3
        <3> HIDE DEF m
        <3> QED BY <3>1, <3>2, <3>3, <3>4
    <2>7. \A i \in 1..m - 1 : f[i] \in 1..m /\ r[i] = bs[f[i]]
        <3> SUFFICES ASSUME NEW i \in 1..m - 1 PROVE f[i] \in 1..m /\ r[i] = bs[f[i]]
            OBVIOUS
        <3>1. CASE i < k
            <4>1. i \in 1..k - 1 /\ i <= k - 1
                BY <1>1, <2>1, <3>1
            <4> QED BY <1>1, <2>3, <2>6, <3>1, <4>1
        <3>2. CASE ~(i < k)
            <4>1. i - (k - 1) \in 1..m - k /\ ~(i <= k - 1) /\ (i - (k - 1)) + k = i + 1
                BY <1>1, <2>1, <3>2
            <4>2. r[i] = q[i - (k - 1)]
                BY <2>6, <4>1
            <4>3. q[i - (k - 1)] = bs[i + 1]
                BY <2>4, <4>1
            <4> QED BY <1>1, <3>2, <4>2, <4>3
        <3> QED BY <3>1, <3>2
    <2>8. \A i, j \in 1..m - 1 : i < j => f[i] < f[j]
        BY <1>1, <2>1
    <2>9. f \in [DOMAIN r -> DOMAIN bs]
        BY <1>1, <2>6, <2>7
    <2>10. \A i \in DOMAIN r : r[i] = bs[f[i]]
        BY <2>6, <2>7
    <2>11. \A i, j \in DOMAIN r : i < j => f[i] < f[j]
        BY <2>6, <2>8
    <2> HIDE DEF f
    <2>12. Aged(r)
        BY <2>9, <2>10, <2>11, SomeBans
    <2> QED BY <1>1, <2>6, <2>12
<1> QED BY <1>2, <1>3

\* getbantype: what it removes is expired, a ban that has not expired is found, and one that is found though all of
\* this host have expired goes with it.
LEMMA BanTypes ==
    ASSUME bans \in Seq(Bans), Aged(bans), NEW h, NEW g, g = GetBanType(h)
    PROVE  /\ g.left \in Seq(Bans) /\ Aged(g.left) /\ Len(g.left) <= Len(bans)
           /\ (\E i \in DOMAIN bans : bans[i].host = h /\ ~bans[i].expired) => g.type # "NONE"
           /\ g.type # "NONE" /\ (\A i \in DOMAIN bans : bans[i].host = h => bans[i].expired) =>
                 Len(g.left) < Len(bans)
<1> DEFINE m == Len(bans)
           e == Expired
           H == Hits(h)
           hit == Min(H)
           at(i) == IF i > m THEN m ELSE i
<1>1. m \in Nat /\ DOMAIN bans = 1..m /\ e \in 0..m /\ \A i \in 1..m : bans[i].expired <=> i <= e
    BY ExpiredFirst
<1> HIDE DEF e
<1>2. \A i : i \in H <=> i \in (IF e > 0 THEN 2..m + 1 ELSE 1..m) /\ bans[at(i)].host = h
    BY <1>1 DEF Hits, e
<1> HIDE DEF H
<1>3. \A i \in H : i \in 1..m + 1 /\ at(i) \in 1..m /\ (e > 0 => i >= 2) /\ (e = 0 => i <= m)
    <2> SUFFICES ASSUME NEW i \in H PROVE i \in 1..m + 1 /\ at(i) \in 1..m /\ (e > 0 => i >= 2) /\ (e = 0 => i <= m)
        OBVIOUS
    <2>1. i \in (IF e > 0 THEN 2..m + 1 ELSE 1..m)
        BY <1>2
    <2> QED BY <1>1, <2>1
<1>4. H # {} => hit \in H
    <2>1. H \subseteq Nat
        BY <1>1, <1>3
    <2> QED BY <2>1, MinOfNaturals
<1>5. H = {} => g = [type |-> "NONE", left |-> SubSeq(bans, e + 1, m)]
    BY DEF GetBanType, H, e
<1>6. H # {} => g = [type |-> bans[at(hit)].type, left |-> SubSeq(bans, (IF hit <= e THEN hit - 1 ELSE e) + 1, m)]
    BY DEF GetBanType, H, e
<1> HIDE DEF hit, at
<1>7. ASSUME NEW i \in 1..m, bans[i].host = h, ~bans[i].expired PROVE H # {}
    <2>1. i > e /\ i \in Nat /\ m \in Nat /\ ~(i > m)
        BY <1>1, <1>7
    <2>2. at(i) = i
        BY <2>1 DEF at
    <2>3. i \in (IF e > 0 THEN 2..m + 1 ELSE 1..m)
        BY <1>1, <2>1
    <2> QED BY <1>2, <1>7, <2>2, <2>3
<1>8. CASE H = {}
    <2>1. g.type = "NONE" /\ g.left = SubSeq(bans, e + 1, m)
        BY <1>5, <1>8
    <2>2. g.left \in Seq(Bans) /\ Aged(g.left) /\ Len(g.left) = m - e
        BY <1>1, <2>1, LaterBans
    <2>3. Len(g.left) <= m
        <3>1. m \in Nat /\ e \in 0..m /\ Len(g.left) = m - e
            BY <1>1, <2>2
        <3> HIDE DEF m
        <3> QED BY <3>1
    <2>4. ~\E i \in 1..m : bans[i].host = h /\ ~bans[i].expired
        BY <1>7, <1>8
    <2> HIDE DEF m
    <2> QED BY <1>1, <2>1, <2>2, <2>3, <2>4 DEF m
<1>9. CASE H # {}
    <2> DEFINE a == IF hit <= e THEN hit - 1 ELSE e
    <2>1. hit \in H /\ hit \in 1..m + 1 /\ at(hit) \in 1..m
        BY <1>3, <1>4, <1>9
    <2>2. a \in 0..m
        BY <1>1, <2>1
    <2>3. g.left = SubSeq(bans, a + 1, m) /\ g.type = bans[at(hit)].type
        BY <1>6, <1>9
    <2> HIDE DEF a
    <2>4. g.left \in Seq(Bans) /\ Aged(g.left) /\ Len(g.left) = m - a
        BY <2>2, <2>3, LaterBans
    <2>5. g.type # "NONE"
        <3>1. bans[at(hit)] \in Bans
            BY <1>1, <2>1
        <3> QED BY <2>3, <3>1 DEF Bans
    <2>6. ASSUME \A i \in 1..m : bans[i].host = h => bans[i].expired PROVE a > 0
        <3>1. bans[at(hit)].host = h
            BY <1>2, <2>1
        <3>2. at(hit) <= e
            BY <1>1, <2>1, <2>6, <3>1
        <3>3. e > 0
            BY <1>1, <2>1, <3>2
        <3>4. hit >= 2
            BY <1>3, <2>1, <3>3
        <3> QED BY <1>1, <2>1, <3>3, <3>4 DEF a
    <2>7. Len(g.left) <= m /\ (a > 0 => Len(g.left) < m)
        <3>1. m \in Nat /\ Len(g.left) = m - a
            BY <1>1, <2>4
        <3> HIDE DEF m
        <3>2. a \in 0..m
            BY <2>2 DEF m
        <3> QED BY <3>1, <3>2
    <2> QED BY <1>1, <2>4, <2>5, <2>6, <2>7
<1> QED BY <1>8, <1>9

-----------------------------------------------------------------------------
(* The invariant.                                                          *)

\* No two authed clients have the same peer.
SeatsApart(cs) == \A c, d \in Authed(cs) : cs[c].peer = cs[d].peer => c = d

ConnInv ==
    /\ TableOK(Table) /\ SeatsApart(clients)
    /\ mastermode \in Modes
    /\ bans \in Seq(Bans) /\ Len(bans) <= MaxBans /\ Aged(bans)

LEMMA ConnectionsBegin == Init => ConnInv
<1> SUFFICES ASSUME Init PROVE ConnInv
    OBVIOUS
<1>1. ClientOK(Free) /\ Free.conn = "empty"
    BY DEF ClientOK, Client, Free
<1>2. clients \in [Slots -> Client] /\ \A c \in Slots : clients[c] = Free
    BY <1>1 DEF Init, ClientOK
<1>3. TableOK(Table)
    <2>1. Table \in Tables /\ Table.cs = clients
        BY <1>2 DEF Init, Table, Tables
    <2> QED BY <1>1, <1>2, <2>1 DEF TableOK
<1>4. SeatsApart(clients)
    BY <1>1, <1>2 DEF SeatsApart, Authed
<1>5. bans \in Seq(Bans) /\ Len(bans) <= MaxBans /\ Aged(bans)
    BY BansAssumption DEF Init, Aged
<1> QED BY <1>3, <1>4, <1>5 DEF ConnInv, Init, Modes

LEMMA TableParts ==
    ASSUME ConnInv
    PROVE  /\ Table = [cs |-> clients, saved |-> savedscores] /\ Table.cs = clients /\ Table.saved = savedscores
           /\ TableOK(Table) /\ clients \in [Slots -> Client] /\ savedscores \in Seq(Saves)
           /\ \A c \in Slots : ClientOK(clients[c])
BY DEF ConnInv, Table, TableOK, Tables

-----------------------------------------------------------------------------
(* SV_CONNECT.                                                             *)

\* The table in which client c has its name and is authed.
Entering(c, n) ==
    [cs |-> [clients EXCEPT ![c] = [conn |-> "authed", peer |-> clients[c].peer, name |-> n, score |-> {}]],
     saved |-> savedscores]

\* Client c is let in or refused, and v is the table after that.
LetsIn(c, n, wish, v) ==
    /\ \E crowded \in BOOLEAN : /\ LetIn(Entering(c, n), v, c, crowded)
                                /\ mastermode # "MATCH" => crowded \/ ~full
    /\ wish = "player" => GetBanType(HostOf(clients, c)).type = "NONE"
Refuses(c, wish, v) ==
    /\ v = [cs |-> [clients EXCEPT ![c] = Free], saved |-> savedscores] /\ TableOK(v)
    /\ wish = "player" /\ mastermode = "OPEN" /\ ~full => GetBanType(HostOf(clients, c)).type # "NONE"
BansLeft(c, wish, bs) ==
    \/ bs = GetBanType(HostOf(clients, c)).left
    \/ wish # "player" /\ bs = Unbanned(GetBanType(HostOf(clients, c)).left, HostOf(clients, c))

LEMMA Joining ==
    ASSUME ConnInv, NEW c \in Slots, NEW n \in Names, NEW wish \in Wishes, Join(c, n, wish),
           NEW v, v = [cs |-> clients', saved |-> savedscores']
    PROVE  /\ clients[c].conn = "connecting" /\ mastermode' = mastermode
           /\ BansLeft(c, wish, bans') /\ (LetsIn(c, n, wish, v) \/ Refuses(c, wish, v))
<1> DEFINE named == [Table EXCEPT !.cs[c].name = n]
           host == HostOf(clients, c)
           ban == GetBanType(host)
           banned == ban.type # "NONE"
           reconnects == /\ mastermode = "MATCH" /\ ~banned
                         /\ Twins(named.cs, c) \cup SavedOf(named, c) # {}
           password == /\ ~reconnects
                       /\ wish = "admin" \/ (wish = "deban" /\ banned /\ ~full /\ ~private)
           welcome == wish \in {"player", "deban"} /\ ~private /\ ~full /\ ~banned
           t == [named EXCEPT !.cs[c].conn = "authed"]
<1>1. clients[c].conn = "connecting" /\ mastermode' = mastermode
    BY DEF Join
<1>2. bans' = IF password /\ ban.type = "VOTE" THEN Unbanned(ban.left, host) ELSE ban.left
    BY Zenon DEF Join
<1>3. \/ (reconnects \/ password \/ welcome) /\ \E u \in Admitted(t, c, password /\ full) : Becomes(u)
      \/ ~(reconnects \/ password \/ welcome) /\ Becomes(Left(named, c))
    BY Zenon DEF Join
<1>4. /\ clients \in [Slots -> Client] /\ savedscores \in Seq(Saves) /\ \A d \in Slots : ClientOK(clients[d])
      /\ Table = [cs |-> clients, saved |-> savedscores]
    BY TableParts
<1> DEFINE x == clients[c]
           y == [x EXCEPT !.name = n]
<1>5. x \in Client /\ x.peer \in Peers /\ x.score = {}
    BY <1>1, <1>4 DEF ClientOK
<1>6. y = [conn |-> "connecting", peer |-> x.peer, name |-> n, score |-> {}]
    BY <1>1, <1>5 DEF Client
<1>7. named = [cs |-> [clients EXCEPT ![c] = y], saved |-> savedscores]
    BY <1>4
<1>8. ClientOK(y) /\ y \in Client /\ y.conn = "connecting"
    BY <1>5, <1>6 DEF ClientOK, Client
<1> DEFINE z == [conn |-> "authed", peer |-> x.peer, name |-> n, score |-> {}]
<1>9. t = Entering(c, n)
    <2>1. [y EXCEPT !.conn = "authed"] = z
        <3> HIDE DEF y, x
        <3> QED BY <1>6
    <2>2. named.cs[c] = y /\ named.cs = [clients EXCEPT ![c] = y] /\ named.saved = savedscores
        BY <1>4, <1>7
    <2> HIDE DEF y, named
    <2>3. t = [cs |-> [named.cs EXCEPT ![c] = [named.cs[c] EXCEPT !.conn = "authed"]], saved |-> savedscores]
        BY <1>7, <2>2
    <2>4. [named.cs EXCEPT ![c] = z] = [clients EXCEPT ![c] = z]
        BY <1>4, <2>2
    <2> QED BY <2>1, <2>2, <2>3, <2>4 DEF Entering
<1> HIDE DEF y
<1>10. TableOK(named) /\ named.cs[c] = y
    <2>1. named.cs = [clients EXCEPT ![c] = y] /\ named.saved = savedscores
        BY <1>7
    <2>2. named.cs \in [Slots -> Client] /\ \A d \in Slots : ClientOK(named.cs[d])
        BY <1>4, <1>8, <2>1
    <2> QED BY <1>4, <1>7, <2>1, <2>2 DEF TableOK, Tables
<1>11. /\ Entering(c, n).cs[c].conn = "authed" /\ Entering(c, n).cs[c].score = {}
       /\ TableOK(Entering(c, n))
    <2>1. ClientOK(z) /\ z \in Client
        BY <1>5 DEF ClientOK, Client
    <2>2. Entering(c, n) = [cs |-> [clients EXCEPT ![c] = z], saved |-> savedscores]
        BY DEF Entering
    <2>3. z.conn = "authed" /\ z.score = {}
        OBVIOUS
    <2> HIDE DEF z
    <2> DEFINE q == Entering(c, n)
    <2>4. q.cs = [clients EXCEPT ![c] = z] /\ q.saved = savedscores /\ q = [cs |-> q.cs, saved |-> q.saved]
        BY <2>2
    <2> HIDE DEF q
    <2>5. q.cs \in [Slots -> Client] /\ q.cs[c] = z /\ \A d \in Slots : ClientOK(q.cs[d])
        BY <1>4, <2>1, <2>4
    <2>6. TableOK(q)
        BY <1>4, <2>4, <2>5 DEF TableOK, Tables
    <2> QED BY <2>3, <2>5, <2>6 DEF q
<1>12. BansLeft(c, wish, bans')
    <2>1. wish = "player" => ~password
        OBVIOUS
    <2> HIDE DEF password
    <2> QED BY <1>2, <2>1 DEF BansLeft
<1>13. CASE (reconnects \/ password \/ welcome) /\ \E u \in Admitted(t, c, password /\ full) : Becomes(u)
    <2> DEFINE crowded == password /\ full
    <2>1. PICK u \in Admitted(t, c, crowded) : Becomes(u)
        BY <1>13
    <2>2. crowded \in BOOLEAN
        BY DEF full
    <2>3. mastermode # "MATCH" => crowded \/ ~full
        <3> SUFFICES ASSUME mastermode # "MATCH", full PROVE password
            OBVIOUS
        <3>1. ~reconnects /\ ~welcome
            OBVIOUS
        <3> QED BY <1>13, <3>1
    <2>4. wish = "player" => ban.type = "NONE"
        BY <1>13
    <2> HIDE DEF crowded, named
    <2>5. u \in Admitted(Entering(c, n), c, crowded)
        BY <1>9, <2>1
    <2>6. LetIn(Entering(c, n), u, c, crowded)
        BY <1>11, <2>2, <2>5, Admitting
    <2>7. v = u
        <3>1. u = [cs |-> u.cs, saved |-> u.saved]
            BY <2>6 DEF LetIn, TableOK, Tables
        <3> QED BY <2>1, <3>1 DEF Becomes
    <2>8. LetsIn(c, n, wish, v)
        BY <2>2, <2>3, <2>4, <2>6, <2>7 DEF LetsIn
    <2> QED BY <1>1, <1>12, <2>8
<1>14. CASE ~(reconnects \/ password \/ welcome) /\ Becomes(Left(named, c))
    <2>1. wish = "player" /\ mastermode = "OPEN" /\ ~full => ban.type # "NONE"
        BY <1>14 DEF private
    <2> HIDE DEF named
    <2> DEFINE r == Left(named, c)
    <2>2. /\ TableOK(r) /\ r.cs = [named.cs EXCEPT ![c] = Free]
          /\ named.cs[c].conn # "authed" => r.saved = named.saved
        BY <1>10, ClientLeaves
    <2>3. Becomes(r)
        BY <1>14
    <2> HIDE DEF r
    <2>4. named.cs = [clients EXCEPT ![c] = y] /\ named.saved = savedscores
        BY <1>7
    <2>5. r.cs = [clients EXCEPT ![c] = Free] /\ r.saved = savedscores
        BY <1>4, <1>8, <1>10, <2>2, <2>4
    <2>6. v = r /\ v = [cs |-> r.cs, saved |-> r.saved]
        <3>1. r = [cs |-> r.cs, saved |-> r.saved]
            BY <2>2 DEF TableOK, Tables
        <3> QED BY <2>3, <3>1 DEF Becomes
    <2>7. Refuses(c, wish, v)
        BY <2>1, <2>2, <2>5, <2>6 DEF Refuses
    <2> QED BY <1>1, <1>12, <2>7
<1> QED BY <1>3, <1>13, <1>14

-----------------------------------------------------------------------------
(* The steps other than SV_CONNECT.                                        *)

\* u is the table t after a step that lets nobody in: a point becomes more only if there was none.
Stay(t, u) == \A d \in Slots : u.cs[d].conn = "authed" => t.cs[d].conn = "authed" /\ u.cs[d].peer = t.cs[d].peer
Calm(t, u) ==
    /\ TableOK(u) /\ Stay(t, u)
    /\ \A p \in Points : Held(t, p) => ~(CopiesAt(u, p) > CopiesAt(t, p))
Loses(t, u, p) == Held(t, p) /\ ~Held(u, p)

\* p is in what an authed client overwrites if it leaves.
Shaded(p) == \E c \in Authed(clients), n \in Names : (n = clients[c].name \/ SwitchName(c, n)) /\ p \in Shadowed(c, n)

LEMMA ShadowOfSaved ==
    ASSUME ConnInv, NEW c \in Slots, NEW n, NEW p,
           \E i \in DOMAIN savedscores : /\ savedscores[i].valid /\ p \in savedscores[i].score
                                         /\ Belongs(savedscores[i], n, HostOf(clients, c))
    PROVE  p \in Shadowed(c, n)
<1>1. PICK i \in DOMAIN savedscores : /\ savedscores[i].valid /\ p \in savedscores[i].score
                                      /\ Belongs(savedscores[i], n, HostOf(clients, c))
    OBVIOUS
<1>2. savedscores[i] \in ToSet(savedscores)
    BY DEF ToSet
<1> QED BY <1>1, <1>2 DEF Shadowed

\* A client that leaves, or whose score is saved as if it did.
LEMMA CalmMove ==
    ASSUME NEW t, TableOK(t), NEW r, TableOK(r), NEW c \in Slots, \A p : PlacesMove(t, r, c, t.cs[c], p),
           Stay(t, r)
    PROVE  Calm(t, r)
<1> SUFFICES ASSUME NEW p \in Points PROVE ~(CopiesAt(r, p) > CopiesAt(t, p))
    BY DEF Calm
<1>1. CopiesAt(r, p) <= CopiesAt(t, p)
    BY MoveKeeps
<1>2. CopiesAt(r, p) \in Nat /\ CopiesAt(t, p) \in Nat
    BY FinitePlaces
<1> QED BY <1>1, <1>2

LEMMA CalmLeft ==
    ASSUME NEW t, TableOK(t), NEW c \in Slots, NEW r, r = Left(t, c)
    PROVE  /\ Calm(t, r)
           /\ \A p \in Points : Loses(t, r, p) =>
                 /\ t.cs[c].conn = "authed"
                 /\ \E i \in DOMAIN t.saved : /\ t.saved[i].valid /\ p \in t.saved[i].score
                                              /\ Belongs(t.saved[i], t.cs[c].name, HostOf(t.cs, c))
<1>1. TableOK(r) /\ r.cs = [t.cs EXCEPT ![c] = Free]
    BY ClientLeaves
<1>2. \A p : PlacesMove(t, r, c, t.cs[c], p)
    BY PlacesLeft
<1>3. Stay(t, r)
    <2>1. t.cs \in [Slots -> Client]
        BY DEF TableOK, Tables
    <2> QED BY <1>1, <2>1 DEF Free, Stay
<1>4. Calm(t, r)
    BY <1>1, <1>2, <1>3, CalmMove
<1> QED BY <1>1, <1>2, <1>4, MoveKeeps DEF Loses

\* The same places, under whatever names.
SamePlaces(t, u) ==
    /\ u.saved = t.saved
    /\ \A d \in Slots : u.cs[d].conn = "authed" <=> t.cs[d].conn = "authed"
    /\ \A d \in Slots : u.cs[d].conn = "authed" => u.cs[d].peer = t.cs[d].peer /\ u.cs[d].score = t.cs[d].score

LEMMA CalmSame ==
    ASSUME NEW t, TableOK(t), NEW u, TableOK(u), SamePlaces(t, u)
    PROVE  /\ Calm(t, u)
           /\ \A p : With(u.cs, p) = With(t.cs, p) /\ In(u.saved, p) = In(t.saved, p)
           /\ \A p : CopiesAt(u, p) = CopiesAt(t, p) /\ (Held(u, p) <=> Held(t, p))
<1>1. \A p : With(u.cs, p) = With(t.cs, p) /\ In(u.saved, p) = In(t.saved, p)
    BY DEF With, Authed, SamePlaces
<1>2. \A p : CopiesAt(u, p) = CopiesAt(t, p) /\ (Held(u, p) <=> Held(t, p))
    BY <1>1 DEF CopiesAt, Copies, Held
<1>3. ASSUME NEW p \in Points PROVE ~(CopiesAt(u, p) > CopiesAt(t, p))
    <2>1. CopiesAt(u, p) \in Nat /\ CopiesAt(u, p) = CopiesAt(t, p)
        BY <1>2, FinitePlaces
    <2> QED BY <2>1
<1> QED BY <1>1, <1>2, <1>3 DEF Calm, Stay, SamePlaces

LEMMA CalmTwice ==
    ASSUME NEW t, TableOK(t), NEW u, TableOK(u), NEW r, Calm(u, r), Stay(t, u),
           \A p : CopiesAt(u, p) = CopiesAt(t, p) /\ (Held(u, p) <=> Held(t, p))
    PROVE  Calm(t, r) /\ \A p : Loses(t, r, p) <=> Loses(u, r, p)
BY DEF Calm, Loses, Stay

LEMMA CalmAuthed ==
    ASSUME NEW t, NEW u, Calm(t, u), SeatsApart(t.cs)
    PROVE  SeatsApart(u.cs) /\ Authed(u.cs) \subseteq Authed(t.cs)
BY DEF Calm, Stay, SeatsApart, Authed

\* A step that takes the table of the clients and saved scores to v, and loses points only in a shadow.
Quiet(v) == Calm(Table, v) /\ \A p \in Points : Loses(Table, v, p) => Shaded(p)

LEMMA QuietSame ==
    ASSUME ConnInv, NEW v, v = Table
    PROVE  Quiet(v)
<1>1. TableOK(Table)
    BY DEF ConnInv
<1>2. Calm(Table, v)
    BY <1>1, CalmSame DEF SamePlaces
<1> QED BY <1>2 DEF Quiet, Loses

LEMMA Connecting ==
    ASSUME ConnInv, NEW c \in Slots, NEW peer \in Peers, Connect(c, peer), NEW v, v = [cs |-> clients', saved |-> savedscores']
    PROVE  Quiet(v)
<1> DEFINE x == [conn |-> "connecting", peer |-> peer, name |-> Unnamed, score |-> {}]
<1>1. /\ Table.cs = clients /\ Table.saved = savedscores /\ TableOK(Table) /\ clients \in [Slots -> Client]
      /\ savedscores \in Seq(Saves) /\ \A d \in Slots : ClientOK(clients[d])
    BY TableParts
<1>2. ClientOK(x) /\ x \in Client /\ x.conn = "connecting"
    BY DEF ClientOK, Client
<1>3. clients[c].conn = "empty" /\ clients' = [clients EXCEPT ![c] = x] /\ savedscores' = savedscores
    BY DEF Connect, valid_client
<1> HIDE DEF x
<1>4. v.cs = [clients EXCEPT ![c] = x] /\ v.saved = savedscores /\ v = [cs |-> v.cs, saved |-> v.saved]
    BY <1>3
<1>5. TableOK(v)
    BY <1>1, <1>2, <1>4 DEF TableOK, Tables
<1>6. \A d \in Slots : v.cs[d].conn = "authed" <=> clients[d].conn = "authed"
    BY <1>1, <1>2, <1>3, <1>4
<1>7. \A d \in Slots : v.cs[d].conn = "authed" => v.cs[d] = clients[d]
    BY <1>1, <1>2, <1>3, <1>4
<1> DEFINE t == Table
<1>8. t.cs = clients /\ t.saved = savedscores /\ TableOK(t)
    BY <1>1
<1> HIDE DEF t
<1>9. SamePlaces(t, v)
    BY <1>4, <1>6, <1>7, <1>8 DEF SamePlaces
<1>10. Calm(t, v) /\ \A p : Held(v, p) <=> Held(t, p)
    BY <1>5, <1>8, <1>9, CalmSame
<1> QED BY <1>10 DEF Quiet, Loses, t

\* disconnect_client.
LEMMA ClientGoes ==
    ASSUME ConnInv, NEW c \in Slots, Becomes(Left(Table, c)), NEW v, v = [cs |-> clients', saved |-> savedscores']
    PROVE  Quiet(v)
<1> DEFINE t == Table
           r == Left(t, c)
<1>1. t.cs = clients /\ t.saved = savedscores /\ TableOK(t) /\ \A d \in Slots : ClientOK(clients[d])
    BY TableParts
<1>2. Becomes(r) /\ r = Left(t, c)
    OBVIOUS
<1>3. Table = t
    OBVIOUS
<1> HIDE DEF t, r
<1>4. /\ Calm(t, r)
      /\ \A p \in Points : Loses(t, r, p) =>
            /\ t.cs[c].conn = "authed"
            /\ \E i \in DOMAIN t.saved : /\ t.saved[i].valid /\ p \in t.saved[i].score
                                         /\ Belongs(t.saved[i], t.cs[c].name, HostOf(t.cs, c))
    BY <1>1, <1>2, CalmLeft
<1>5. v = r
    <2>1. r = [cs |-> r.cs, saved |-> r.saved]
        BY <1>4 DEF Calm, TableOK, Tables
    <2> QED BY <1>2, <2>1 DEF Becomes
<1>6. ASSUME NEW p \in Points, Loses(t, r, p) PROVE Shaded(p)
    <2>1. /\ clients[c].conn = "authed"
          /\ \E i \in DOMAIN savedscores : /\ savedscores[i].valid /\ p \in savedscores[i].score
                                           /\ Belongs(savedscores[i], clients[c].name, HostOf(clients, c))
        BY <1>1, <1>4, <1>6
    <2>2. p \in Shadowed(c, clients[c].name)
        BY <2>1, ShadowOfSaved
    <2>3. c \in Authed(clients) /\ clients[c].name \in Names
        BY <1>1, <2>1 DEF Authed, ClientOK
    <2> QED BY <2>2, <2>3 DEF Shaded
<1> QED BY <1>3, <1>4, <1>5, <1>6 DEF Quiet

LEMMA Renaming ==
    ASSUME ConnInv, NEW c \in Slots, NEW n \in Names, SwitchName(c, n), NEW v, v = [cs |-> clients', saved |-> savedscores']
    PROVE  Quiet(v)
<1> DEFINE t == Table
           u == [t EXCEPT !.cs[c].name = n]
           r == Left(u, c)
           y == [clients[c] EXCEPT !.name = n]
<1>1. /\ t.cs = clients /\ t.saved = savedscores /\ TableOK(t) /\ \A d \in Slots : ClientOK(clients[d])
      /\ clients \in [Slots -> Client] /\ savedscores \in Seq(Saves) /\ t = [cs |-> clients, saved |-> savedscores]
    BY TableParts
<1>2. clients[c].conn = "authed" /\ (Becomes(u) \/ Becomes(r))
    BY DEF SwitchName
<1>3. /\ y \in Client /\ y.conn = "authed" /\ y.peer = clients[c].peer /\ y.score = clients[c].score
      /\ y.name = n /\ ClientOK(y)
    BY <1>1, <1>2 DEF ClientOK, Client
<1>4. u = [cs |-> [clients EXCEPT ![c] = y], saved |-> savedscores]
    BY <1>1
<1>5. Table = t /\ r = Left(u, c)
    OBVIOUS
<1> HIDE DEF t, u, r, y
<1>6. u.cs = [clients EXCEPT ![c] = y] /\ u.saved = savedscores /\ u = [cs |-> u.cs, saved |-> u.saved]
    BY <1>4
<1>7. TableOK(u)
    BY <1>1, <1>3, <1>6 DEF TableOK, Tables
<1>8. \A d \in Slots : u.cs[d].conn = t.cs[d].conn /\ u.cs[d].peer = t.cs[d].peer /\ u.cs[d].score = t.cs[d].score
    BY <1>1, <1>2, <1>3, <1>6
<1>9. /\ Calm(t, u)
      /\ \A p : With(u.cs, p) = With(t.cs, p) /\ In(u.saved, p) = In(t.saved, p)
      /\ \A p : CopiesAt(u, p) = CopiesAt(t, p) /\ (Held(u, p) <=> Held(t, p))
    <2>1. SamePlaces(t, u)
        BY <1>1, <1>6, <1>8 DEF SamePlaces
    <2> QED BY <1>1, <1>7, <2>1, CalmSame
<1>10. CASE Becomes(u)
    <2>1. v = u
        BY <1>6, <1>10 DEF Becomes
    <2> QED BY <1>5, <1>9, <2>1 DEF Quiet, Loses
<1>11. CASE Becomes(r)
    <2>1. /\ Calm(u, r)
          /\ \A p \in Points : Loses(u, r, p) =>
                \E i \in DOMAIN u.saved : /\ u.saved[i].valid /\ p \in u.saved[i].score
                                          /\ Belongs(u.saved[i], u.cs[c].name, HostOf(u.cs, c))
        BY <1>5, <1>7, CalmLeft
    <2>2. v = r
        <3>1. r = [cs |-> r.cs, saved |-> r.saved]
            BY <2>1 DEF Calm, TableOK, Tables
        <3> QED BY <1>11, <3>1 DEF Becomes
    <2>3. Calm(t, r) /\ \A p : Loses(t, r, p) <=> Loses(u, r, p)
        <3>1. Stay(t, u)
            BY <1>8 DEF Stay
        <3> QED BY <1>1, <1>7, <1>9, <2>1, <3>1, CalmTwice, Zenon
    <2>4. ASSUME NEW p \in Points, Loses(t, r, p) PROVE Shaded(p)
        <3>1. \E i \in DOMAIN u.saved : /\ u.saved[i].valid /\ p \in u.saved[i].score
                                        /\ Belongs(u.saved[i], u.cs[c].name, HostOf(u.cs, c))
            BY <2>1, <2>3, <2>4
        <3>2. u.cs[c].name = n /\ HostOf(u.cs, c) = HostOf(clients, c)
            BY <1>1, <1>3, <1>6 DEF HostOf
        <3>3. p \in Shadowed(c, n)
            BY <1>6, <3>1, <3>2, ShadowOfSaved
        <3>4. c \in Authed(clients)
            BY <1>2 DEF Authed
        <3> QED BY <3>3, <3>4 DEF Shaded
    <2> QED BY <1>5, <2>2, <2>3, <2>4 DEF Quiet
<1> QED BY <1>2, <1>10, <1>11

LEMMA Downloading ==
    ASSUME ConnInv, NEW c \in Slots, ReceiveMap(c), NEW v, v = [cs |-> clients', saved |-> savedscores']
    PROVE  Quiet(v)
<1> DEFINE t == Table
           q == Saved(t, c)
           r == [q EXCEPT !.cs[c].score = {}]
           x == clients[c]
           y == [x EXCEPT !.score = {}]
<1>1. /\ t.cs = clients /\ t.saved = savedscores /\ TableOK(t) /\ \A d \in Slots : ClientOK(clients[d])
      /\ clients \in [Slots -> Client]
    BY TableParts
<1>2. x.conn = "authed" /\ Becomes(r) /\ Table = t /\ q = Saved(t, c)
    BY DEF ReceiveMap
<1>3. /\ y \in Client /\ y.conn = "authed" /\ y.peer = x.peer /\ y.name = x.name /\ y.score = {} /\ ClientOK(y)
    BY <1>1, <1>2 DEF ClientOK, Client
<1> HIDE DEF t, q
<1>4. /\ TableOK(q) /\ q.cs = clients /\ \E i \in DOMAIN q.saved : Entry(savedscores, q.saved, x, i)
    BY <1>1, <1>2, Saving
<1>5. r = [cs |-> [clients EXCEPT ![c] = y], saved |-> q.saved]
    <2>1. q = [cs |-> clients, saved |-> q.saved]
        BY <1>4 DEF TableOK, Tables
    <2> QED BY <1>1, <2>1
<1> HIDE DEF r, y
<1>6. r.cs = [clients EXCEPT ![c] = y] /\ r.saved = q.saved /\ r = [cs |-> r.cs, saved |-> r.saved]
    BY <1>5
<1>7. TableOK(r)
    <2>1. r.cs \in [Slots -> Client] /\ \A d \in Slots : ClientOK(r.cs[d])
        BY <1>1, <1>3, <1>6
    <2>2. r.saved \in Seq(Saves)
        BY <1>4, <1>6 DEF TableOK, Tables
    <2> QED BY <1>6, <2>1, <2>2 DEF TableOK, Tables
<1>8. v = r
    BY <1>2, <1>6 DEF Becomes
<1>9. Stay(t, r)
    BY <1>1, <1>2, <1>3, <1>6 DEF Stay
<1>10. ASSUME NEW p PROVE PlacesMove(t, r, c, x, p)
    <2>1. With(r.cs, p) = With(clients, p) \ {c}
        <3>1. /\ r.cs[c] = y /\ \A d \in Slots \ {c} : r.cs[d] = clients[d]
            BY <1>1, <1>6
        <3>2. \A d \in Slots \ {c} : d \in With(r.cs, p) <=> d \in With(clients, p)
            BY <3>1 DEF With, Authed
        <3>3. c \notin With(r.cs, p)
            BY <1>3, <3>1 DEF With
        <3>4. With(r.cs, p) \subseteq Slots /\ With(clients, p) \subseteq Slots
            BY DEF With, Authed
        <3> QED BY <3>2, <3>3, <3>4
    <2>2. PICK i \in DOMAIN q.saved : Entry(savedscores, q.saved, x, i)
        BY <1>4
    <2>3. In(q.saved, p) = IF p \in x.score THEN In(savedscores, p) \cup {i} ELSE In(savedscores, p) \ {i}
        BY <2>2, EntryPlaces, SMTT(60)
    <2> HIDE DEF x
    <2> QED BY <1>1, <1>2, <1>6, <2>1, <2>2, <2>3 DEF PlacesMove
<1>11. \A p : PlacesMove(t, r, c, t.cs[c], p)
    BY <1>1, <1>10
<1> HIDE DEF x
<1>12. Calm(t, r)
    BY <1>1, <1>7, <1>9, <1>11, CalmMove
<1>13. ASSUME NEW p \in Points, Loses(t, r, p) PROVE Shaded(p)
    <2>1. \E i \in DOMAIN savedscores : /\ savedscores[i].valid /\ p \in savedscores[i].score
                                        /\ Belongs(savedscores[i], clients[c].name, HostOf(clients, c))
        BY <1>1, <1>7, <1>11, <1>13, MoveKeeps DEF Loses
    <2>2. p \in Shadowed(c, clients[c].name)
        BY <2>1, ShadowOfSaved
    <2>3. c \in Authed(clients) /\ clients[c].name \in Names
        BY <1>1, <1>2 DEF Authed, ClientOK, x
    <2> QED BY <2>2, <2>3 DEF Shaded
<1> QED BY <1>2, <1>8, <1>12, <1>13 DEF Quiet

LEMMA Scoring ==
    ASSUME ConnInv, NEW c \in Slots, NEW p \in Points, Score(c, p), NEW v, v = [cs |-> clients', saved |-> savedscores']
    PROVE  Quiet(v)
<1> DEFINE t == Table
           x == clients[c]
           y == [x EXCEPT !.score = @ \cup {p}]
<1>1. /\ t.cs = clients /\ t.saved = savedscores /\ TableOK(t) /\ \A d \in Slots : ClientOK(clients[d])
      /\ clients \in [Slots -> Client] /\ savedscores \in Seq(Saves) /\ Table = t
    BY TableParts
<1>2. /\ x.conn = "authed" /\ clients' = [clients EXCEPT ![c] = y] /\ savedscores' = savedscores
      /\ \A d \in Authed(clients) : p \notin clients[d].score
      /\ \A i \in DOMAIN savedscores : ~(savedscores[i].valid /\ p \in savedscores[i].score)
    BY DEF Score
<1>3. /\ y \in Client /\ y.conn = "authed" /\ y.peer = x.peer /\ y.name = x.name /\ y.score = x.score \cup {p} /\ ClientOK(y)
    BY <1>1, <1>2 DEF ClientOK, Client
<1> HIDE DEF t, y
<1>4. v.cs = [clients EXCEPT ![c] = y] /\ v.saved = savedscores /\ v = [cs |-> v.cs, saved |-> v.saved]
    BY <1>2
<1>5. TableOK(v)
    BY <1>1, <1>3, <1>4 DEF TableOK, Tables
<1>6. Stay(t, v)
    BY <1>1, <1>2, <1>3, <1>4 DEF Stay
<1>7. ~Held(t, p)
    BY <1>1, <1>2 DEF Held, With, In
<1>8. ASSUME NEW q, q # p PROVE With(v.cs, q) = With(t.cs, q)
    <2>1. v.cs[c] = y /\ \A d \in Slots \ {c} : v.cs[d] = clients[d]
        BY <1>1, <1>4
    <2> QED BY <1>1, <1>2, <1>3, <1>8, <2>1 DEF With, Authed
<1>9. ASSUME NEW q \in Points, Held(t, q) PROVE CopiesAt(v, q) = CopiesAt(t, q) /\ Held(v, q)
    <2>1. With(v.cs, q) = With(t.cs, q) /\ In(v.saved, q) = In(t.saved, q)
        BY <1>1, <1>4, <1>7, <1>8, <1>9
    <2> QED BY <1>9, <2>1 DEF CopiesAt, Copies, Held
<1>10. \A q \in Points : CopiesAt(v, q) \in Nat
    BY <1>5, FinitePlaces
<1> QED BY <1>1, <1>5, <1>6, <1>9, <1>10 DEF Quiet, Calm, Loses

\* resetserver.
LEMMA Forgetting ==
    ASSUME savedscores \in Seq(Saves)
    PROVE  Forgotten \in Seq(Saves) /\ \A p : In(Forgotten, p) = {}
<1>1. CASE mastermode = "PRIVATE"
    <2> DEFINE f == [i \in DOMAIN savedscores |-> [savedscores[i] EXCEPT !.score = {}, !.valid = FALSE]]
               m == Len(savedscores)
    <2>1. m \in Nat /\ DOMAIN savedscores = 1..m /\ \A i \in 1..m : savedscores[i] \in Saves
        OBVIOUS
    <2>2. \A i \in 1..m : f[i] \in Saves /\ ~f[i].valid
        BY <2>1 DEF Saves
    <2>3. f \in [1..m -> Saves]
        BY <2>1, <2>2
    <2>4. Forgotten = f
        BY <1>1 DEF Forgotten
    <2> HIDE DEF f, m
    <2>5. f \in Seq(Saves)
        BY <2>1, <2>3, ArraysAreSequences
    <2>6. \A p : In(f, p) = {}
        BY <2>2, <2>3 DEF In
    <2> QED BY <2>4, <2>5, <2>6
<1>2. CASE mastermode # "PRIVATE"
    <2>1. Forgotten = <<>> /\ <<>> \in Seq(Saves) /\ DOMAIN <<>> = {}
        BY <1>2 DEF Forgotten
    <2> QED BY <2>1 DEF In
<1> QED BY <1>1, <1>2

\* If no point is made where it was, nor saved, it does not become more.
LEMMA CalmLoss ==
    ASSUME NEW t, TableOK(t), NEW u, TableOK(u), Stay(t, u),
           \A p : With(u.cs, p) \subseteq With(t.cs, p) /\ In(u.saved, p) = {}
    PROVE  Calm(t, u)
<1> SUFFICES ASSUME NEW p \in Points PROVE ~(CopiesAt(u, p) > CopiesAt(t, p))
    BY DEF Calm
<1>1. /\ IsFiniteSet(With(t.cs, p)) /\ IsFiniteSet(In(t.saved, p))
      /\ CopiesAt(t, p) = Cardinality(With(t.cs, p)) + Cardinality(In(t.saved, p))
      /\ CopiesAt(u, p) = Cardinality(With(u.cs, p)) + Cardinality(In(u.saved, p))
      /\ CopiesAt(t, p) \in Nat /\ CopiesAt(u, p) \in Nat
    BY FinitePlaces
<1>2. Cardinality(With(u.cs, p)) + Cardinality(In(u.saved, p)) <= Cardinality(With(t.cs, p)) + Cardinality(In(t.saved, p))
    <2>1. With(u.cs, p) \subseteq With(t.cs, p) /\ In(u.saved, p) \subseteq In(t.saved, p)
        OBVIOUS
    <2> QED BY <1>1, <2>1, Fewer
<1> QED BY <1>1, <1>2

\* startgame, with notify or without, and resetserverifempty.
LEMMA StartingOver ==
    ASSUME ConnInv, StartGame \/ StartSilently \/ ResetIfEmpty, NEW v, v = [cs |-> clients', saved |-> savedscores']
    PROVE  Calm(Table, v)
<1> DEFINE t == Table
           Cleared == [c \in Slots |-> IF valid_client(clients, c) THEN [clients[c] EXCEPT !.score = {}] ELSE clients[c]]
<1>1. /\ t.cs = clients /\ t.saved = savedscores /\ TableOK(t) /\ \A d \in Slots : ClientOK(clients[d])
      /\ clients \in [Slots -> Client] /\ savedscores \in Seq(Saves) /\ Table = t
    BY TableParts
<1> HIDE DEF t
<1>2. savedscores' = Forgotten /\ (clients' = Cleared \/ clients' = clients)
    BY DEF StartGame, StartSilently, ResetIfEmpty
<1>3. \A c \in Slots : /\ Cleared[c] \in Client /\ ClientOK(Cleared[c]) /\ Cleared[c].conn = clients[c].conn
                       /\ Cleared[c].peer = clients[c].peer /\ Cleared[c].score = {}
    <2> SUFFICES ASSUME NEW c \in Slots
                 PROVE  /\ Cleared[c] \in Client /\ ClientOK(Cleared[c]) /\ Cleared[c].conn = clients[c].conn
                        /\ Cleared[c].peer = clients[c].peer /\ Cleared[c].score = {}
        OBVIOUS
    <2>1. clients[c] \in Client /\ ClientOK(clients[c])
        BY <1>1
    <2>2. CASE valid_client(clients, c)
        <3>1. Cleared[c] = [clients[c] EXCEPT !.score = {}]
            BY <2>2
        <3> HIDE DEF Cleared
        <3> QED BY <2>1, <3>1 DEF Client, ClientOK
    <2>3. CASE ~valid_client(clients, c)
        <3>1. Cleared[c] = clients[c]
            BY <2>3
        <3> HIDE DEF Cleared
        <3> QED BY <2>1, <2>3, <3>1 DEF valid_client, ClientOK
    <2> QED BY <2>2, <2>3
<1>4. Cleared \in [Slots -> Client]
    <2>1. Cleared = [c \in Slots |-> Cleared[c]]
        OBVIOUS
    <2> HIDE DEF Cleared
    <2> QED BY <1>3, <2>1
<1> HIDE DEF Cleared
<1>5. /\ clients' \in [Slots -> Client] /\ \A c \in Slots : ClientOK(clients'[c])
      /\ \A c \in Slots : clients'[c].conn = clients[c].conn /\ clients'[c].peer = clients[c].peer
                          /\ clients'[c].score \subseteq clients[c].score
    BY <1>1, <1>2, <1>3, <1>4
<1>6. Forgotten \in Seq(Saves) /\ \A p : In(Forgotten, p) = {}
    BY <1>1, Forgetting
<1>7. v.cs = clients' /\ v.saved = Forgotten /\ v = [cs |-> v.cs, saved |-> v.saved]
    BY <1>2
<1>8. TableOK(v)
    BY <1>5, <1>6, <1>7 DEF TableOK, Tables
<1>9. Stay(t, v)
    BY <1>1, <1>5, <1>7 DEF Stay
<1>10. \A p : With(v.cs, p) \subseteq With(t.cs, p) /\ In(v.saved, p) = {}
    BY <1>1, <1>5, <1>6, <1>7 DEF With, Authed
<1>11. Calm(t, v)
    BY <1>1, <1>8, <1>9, <1>10, CalmLoss
<1> QED BY <1>1, <1>11

-----------------------------------------------------------------------------
(* SV_CONNECT, what comes of it.                                           *)

LEMMA EnteringPlaces ==
    ASSUME ConnInv, NEW c \in Slots, clients[c].conn = "connecting", NEW n \in Names, NEW t, t = Entering(c, n)
    PROVE  /\ t.saved = savedscores /\ t.cs[c].conn = "authed" /\ t.cs[c].peer = clients[c].peer
           /\ t.cs[c].name = n /\ t.cs[c].score = {}
           /\ \A d \in Slots \ {c} : t.cs[d] = clients[d]
           /\ \A p : With(t.cs, p) = With(clients, p)
           /\ \A p : CopiesAt(t, p) = CopiesAt(Table, p) /\ (Held(t, p) <=> Held(Table, p))
<1>1. /\ clients \in [Slots -> Client] /\ Table.cs = clients /\ Table.saved = savedscores
    BY TableParts
<1>2. /\ t.saved = savedscores /\ t.cs[c].conn = "authed" /\ t.cs[c].peer = clients[c].peer
      /\ t.cs[c].name = n /\ t.cs[c].score = {}
      /\ \A d \in Slots \ {c} : t.cs[d] = clients[d]
    BY <1>1 DEF Entering
<1>3. ASSUME NEW p PROVE With(t.cs, p) = With(clients, p)
    <2>1. c \notin With(t.cs, p) /\ c \notin With(clients, p)
        BY <1>2 DEF With, Authed
    <2>2. \A d \in Slots \ {c} : d \in With(t.cs, p) <=> d \in With(clients, p)
        BY <1>2 DEF With, Authed
    <2>3. With(t.cs, p) \subseteq Slots /\ With(clients, p) \subseteq Slots
        BY DEF With, Authed
    <2> QED BY <2>1, <2>2, <2>3
<1>4. ASSUME NEW p PROVE CopiesAt(t, p) = CopiesAt(Table, p) /\ (Held(t, p) <=> Held(Table, p))
    <2>1. With(t.cs, p) = With(Table.cs, p) /\ In(t.saved, p) = In(Table.saved, p)
        BY <1>1, <1>2, <1>3
    <2> QED BY <2>1 DEF CopiesAt, Copies, Held
<1> QED BY <1>2, <1>3, <1>4

\* What SeatsHold, OnlyTwinsDouble and LostOnlyInShadow say of a step that takes the table to v.
Seated(v) ==
    /\ SeatsApart(v.cs)
    /\ (mastermode # "MATCH" /\ Cardinality(Authed(v.cs)) > MaxClients) =>
          Cardinality(Authed(v.cs)) <= Cardinality(Authed(clients))
TwinsAlone(v) ==
    \A p \in Points : CopiesAt(v, p) > CopiesAt(Table, p) /\ CopiesAt(Table, p) > 0 =>
       \E c \in Authed(v.cs) \ Authed(clients) :
          \E d \in With(clients, p) \cap Twins(v.cs, c) : clients[d].peer # v.cs[c].peer
Lost(v) == \A p \in Points : Loses(Table, v, p) => Shaded(p)

LEMMA FewAuthed ==
    ASSUME NEW v, TableOK(v), NEW S, S \in SUBSET Slots, Authed(v.cs) \subseteq S
    PROVE  Cardinality(Authed(v.cs)) <= Cardinality(S) /\ Cardinality(Authed(v.cs)) \in Nat /\ Cardinality(S) \in Nat
<1>1. IsFiniteSet(S)
    BY SeatsAssumption, FS_Subset
<1>2. IsFiniteSet(Authed(v.cs)) /\ Cardinality(Authed(v.cs)) <= Cardinality(S)
    BY <1>1, FS_Subset
<1> QED BY <1>1, <1>2, FS_CardinalityType

LEMMA LettingIn ==
    ASSUME ConnInv, NEW c \in Slots, clients[c].conn = "connecting", NEW n \in Names, NEW wish, NEW v, LetsIn(c, n, wish, v)
    PROVE  TableOK(v) /\ Seated(v) /\ TwinsAlone(v) /\ Lost(v) /\ c \in Authed(v.cs)
<1> DEFINE t == Entering(c, n)
<1>1. PICK crowded \in BOOLEAN : LetIn(t, v, c, crowded) /\ (mastermode # "MATCH" => crowded \/ ~full)
    BY DEF LetsIn
<1>2. t = Entering(c, n)
    OBVIOUS
<1> HIDE DEF t
<1>3. /\ t.saved = savedscores /\ t.cs[c].conn = "authed" /\ t.cs[c].peer = clients[c].peer
      /\ t.cs[c].name = n /\ t.cs[c].score = {}
      /\ \A d \in Slots \ {c} : t.cs[d] = clients[d]
      /\ \A p : With(t.cs, p) = With(clients, p)
      /\ \A p : CopiesAt(t, p) = CopiesAt(Table, p) /\ (Held(t, p) <=> Held(Table, p))
    BY <1>2, EnteringPlaces
<1>4. /\ TableOK(v) /\ v.cs[c].conn = "authed" /\ v.cs[c].peer = t.cs[c].peer /\ v.cs[c].name = t.cs[c].name
      /\ \A d \in Slots \ {c} : v.cs[d] = t.cs[d] \/ v.cs[d] = Free
      /\ \A d \in Slots \ {c} : valid_client(v.cs, d) => v.cs[d].peer # t.cs[c].peer
      /\ crowded => \E d \in Slots \ {c} : valid_client(t.cs, d) /\ v.cs[d] = Free
      /\ \A p \in Points : Held(t, p) /\ ~Held(v, p) =>
            \E d \in Slots \ {c} : t.cs[d].conn = "authed" /\ Shades(t, d, t.cs[d].name, p)
      /\ \A p \in Points : CopiesAt(v, p) > CopiesAt(t, p) =>
            \E d \in Twins(v.cs, c) : v.cs[d] = t.cs[d] /\ p \in t.cs[d].score
    BY <1>1 DEF LetIn
<1>5. Table.cs = clients /\ Table.saved = savedscores /\ TableOK(Table) /\ SeatsApart(clients)
      /\ \A d \in Slots : ClientOK(clients[d])
    BY TableParts DEF ConnInv
<1>6. \A d \in Slots \ {c} : v.cs[d].conn = "authed" => v.cs[d] = clients[d]
    BY <1>3, <1>4 DEF Free
<1>7. c \in Authed(v.cs) /\ c \notin Authed(clients)
    BY <1>4 DEF Authed
<1>8. SeatsApart(v.cs)
    <2> SUFFICES ASSUME NEW d \in Authed(v.cs), NEW e \in Authed(v.cs), v.cs[d].peer = v.cs[e].peer PROVE d = e
        BY DEF SeatsApart
    <2>1. d \in Slots /\ e \in Slots /\ v.cs[d].conn = "authed" /\ v.cs[e].conn = "authed"
        BY DEF Authed
    <2>2. CASE d # c /\ e # c
        BY <1>5, <1>6, <2>1, <2>2 DEF SeatsApart, Authed
    <2>3. CASE d = c /\ e # c
        BY <1>4, <2>1, <2>3 DEF valid_client
    <2>4. CASE d # c /\ e = c
        BY <1>4, <2>1, <2>4 DEF valid_client
    <2> QED BY <2>2, <2>3, <2>4
<1>9. mastermode # "MATCH" => Cardinality(Authed(v.cs)) <= MaxClients
    <2> SUFFICES ASSUME mastermode # "MATCH" PROVE Cardinality(Authed(v.cs)) <= MaxClients
        OBVIOUS
    <2>1. CASE crowded
        <3>1. PICK d \in Slots \ {c} : v.cs[d] = Free
            BY <1>4, <2>1
        <3>2. Authed(v.cs) \subseteq Slots \ {d}
            BY <3>1 DEF Authed, Free
        <3>3. Cardinality(Slots \ {d}) = Cardinality(Slots) - 1
            BY SeatsAssumption, FS_RemoveElement
        <3>4. Cardinality(Slots \ {d}) = MaxClients
            BY <3>3, SeatsAssumption
        <3>5. Slots \ {d} \in SUBSET Slots
            OBVIOUS
        <3>6. Cardinality(Authed(v.cs)) <= Cardinality(Slots \ {d})
            BY <1>4, <3>2, <3>5, FewAuthed
        <3> QED BY <3>4, <3>6
    <2>2. CASE ~full
        <3> DEFINE S == {d \in Slots : valid_client(clients, d)}
        <3>1. S \in SUBSET Slots /\ Authed(v.cs) \subseteq S
            BY <1>6 DEF Authed, valid_client
        <3>2. numnonlocalclients = Cardinality(S)
            BY DEF numnonlocalclients
        <3> HIDE DEF S
        <3>3. /\ Cardinality(Authed(v.cs)) <= Cardinality(S) /\ Cardinality(Authed(v.cs)) \in Nat
              /\ Cardinality(S) \in Nat
            BY <1>4, <3>1, FewAuthed
        <3>4. ~(Cardinality(S) > MaxClients) /\ MaxClients \in Nat
            BY <2>2, <3>2, SeatsAssumption DEF full
        <3> QED BY <3>3, <3>4
    <2> QED BY <1>1, <2>1, <2>2
<1>10. Seated(v)
    <2>1. Cardinality(Authed(v.cs)) \in Nat /\ MaxClients \in Nat
        <3>1. Authed(v.cs) \subseteq Slots /\ Slots \in SUBSET Slots
            BY DEF Authed
        <3> QED BY <1>4, <3>1, SeatsAssumption, FewAuthed
    <2> QED BY <1>8, <1>9, <2>1 DEF Seated
<1>11. TwinsAlone(v)
    <2> SUFFICES ASSUME NEW p \in Points, CopiesAt(v, p) > CopiesAt(Table, p)
                 PROVE  \E d \in With(clients, p) \cap Twins(v.cs, c) : clients[d].peer # v.cs[c].peer
        BY <1>7 DEF TwinsAlone
    <2>1. PICK d \in Twins(v.cs, c) : v.cs[d] = t.cs[d] /\ p \in t.cs[d].score
        BY <1>3, <1>4
    <2>2. d \in Slots \ {c} /\ v.cs[d].conn = "authed"
        BY <2>1 DEF Twins, Authed
    <2>3. d \in With(clients, p)
        BY <1>6, <2>1, <2>2 DEF With, Authed
    <2>4. clients[d].peer # v.cs[c].peer
        BY <1>4, <1>6, <2>2 DEF valid_client
    <2> QED BY <2>1, <2>3, <2>4
<1>12. ASSUME NEW p \in Points, Loses(Table, v, p) PROVE Shaded(p)
    <2>1. PICK d \in Slots \ {c} : t.cs[d].conn = "authed" /\ Shades(t, d, t.cs[d].name, p)
        BY <1>3, <1>4, <1>12 DEF Loses
    <2>2. t.cs[d] = clients[d] /\ d \in Authed(clients) /\ clients[d].name \in Names /\ HostOf(t.cs, d) = HostOf(clients, d)
        BY <1>3, <1>5, <2>1 DEF Authed, ClientOK, HostOf
    <2>3. p \in Shadowed(d, clients[d].name)
        <3>1. CASE \E j \in DOMAIN t.saved : /\ t.saved[j].valid /\ Belongs(t.saved[j], t.cs[d].name, HostOf(t.cs, d))
                                             /\ p \in t.saved[j].score
            BY <1>3, <2>2, <3>1, ShadowOfSaved
        <3>2. CASE \E e \in Authed(t.cs) \ {d} :
                      /\ Belongs([name |-> t.cs[e].name, host |-> HostOf(t.cs, e)], t.cs[d].name, HostOf(t.cs, d))
                      /\ p \in t.cs[e].score
            <4>1. PICK e \in Authed(t.cs) \ {d} :
                      /\ Belongs([name |-> t.cs[e].name, host |-> HostOf(t.cs, e)], t.cs[d].name, HostOf(t.cs, d))
                      /\ p \in t.cs[e].score
                BY <3>2
            <4>2. e # c /\ e \in Slots /\ t.cs[e] = clients[e]
                BY <1>3, <4>1 DEF Authed
            <4>3. e \in Authed(clients) \ {d} /\ HostOf(t.cs, e) = HostOf(clients, e)
                BY <4>1, <4>2 DEF Authed, HostOf
            <4>4. Belongs([name |-> clients[e].name, host |-> HostOf(clients, e)], clients[d].name, HostOf(clients, d))
                BY <2>2, <4>1, <4>2, <4>3
            <4> QED BY <4>1, <4>2, <4>3, <4>4 DEF Shadowed
        <3> QED BY <2>1, <3>1, <3>2 DEF Shades
    <2> QED BY <2>2, <2>3 DEF Shaded
<1>13. Lost(v)
    BY <1>12 DEF Lost
<1> QED BY <1>4, <1>7, <1>10, <1>11, <1>13

\* Whatever a quiet step does.
LEMMA CalmSteps ==
    ASSUME ConnInv, NEW v, Calm(Table, v)
    PROVE  TableOK(v) /\ Seated(v) /\ TwinsAlone(v)
<1>1. Table.cs = clients /\ TableOK(Table) /\ SeatsApart(clients)
    BY TableParts DEF ConnInv
<1>2. TableOK(v) /\ SeatsApart(v.cs) /\ Authed(v.cs) \subseteq Authed(clients)
    <2>1. SeatsApart(Table.cs)
        BY <1>1
    <2>2. SeatsApart(v.cs) /\ Authed(v.cs) \subseteq Authed(Table.cs)
        BY <2>1, CalmAuthed
    <2> QED BY <1>1, <2>2 DEF Calm
<1>3. Cardinality(Authed(v.cs)) <= Cardinality(Authed(clients))
    <2>1. Authed(clients) \in SUBSET Slots
        BY DEF Authed
    <2> QED BY <1>2, <2>1, FewAuthed
<1>4. TwinsAlone(v)
    <2>1. \A p \in Points : CopiesAt(Table, p) > 0 <=> Held(Table, p)
        BY <1>1, FinitePlaces
    <2> QED BY <2>1 DEF TwinsAlone, Calm
<1> QED BY <1>2, <1>3, <1>4 DEF Seated

\* A client that is refused had no score.
LEMMA Refusing ==
    ASSUME ConnInv, NEW c \in Slots, clients[c].conn = "connecting", NEW wish, NEW v, Refuses(c, wish, v)
    PROVE  Quiet(v) /\ c \notin Authed(v.cs)
<1> DEFINE t == Table
<1>1. /\ t.cs = clients /\ t.saved = savedscores /\ TableOK(t) /\ clients \in [Slots -> Client] /\ Table = t
    BY TableParts
<1> HIDE DEF t
<1>2. v.cs = [clients EXCEPT ![c] = Free] /\ v.saved = savedscores /\ TableOK(v)
    BY DEF Refuses
<1>3. v.cs[c].conn = "empty" /\ \A d \in Slots \ {c} : v.cs[d] = clients[d]
    BY <1>1, <1>2 DEF Free
<1>4. SamePlaces(t, v)
    BY <1>1, <1>2, <1>3 DEF SamePlaces
<1>5. Calm(t, v) /\ \A p : Held(v, p) <=> Held(t, p)
    BY <1>1, <1>2, <1>4, CalmSame
<1>6. c \notin Authed(v.cs)
    BY <1>3 DEF Authed
<1> QED BY <1>1, <1>5, <1>6 DEF Quiet, Loses

-----------------------------------------------------------------------------
(* Every step.                                                             *)

\* The list of bans, after whatever happens to it.
LEMMA BansKeep ==
    ASSUME ConnInv, [Next]_vars
    PROVE  mastermode' \in Modes /\ bans' \in Seq(Bans) /\ Len(bans') <= MaxBans /\ Aged(bans')
<1> DEFINE Kept == bans' \in Seq(Bans) /\ Len(bans') <= MaxBans /\ Aged(bans')
<1>1. mastermode \in Modes /\ bans \in Seq(Bans) /\ Len(bans) <= MaxBans /\ Aged(bans) /\ MaxBans \in Nat
    BY BansAssumption DEF ConnInv
<1>2. mastermode' \in Modes
    <2>1. ASSUME NEW c \in Slots, NEW n \in Names, NEW wish \in Wishes, Join(c, n, wish) PROVE mastermode' = mastermode
        BY <2>1 DEF Join
    <2>2. \/ \E c \in Slots, n \in Names, wish \in Wishes : Join(c, n, wish)
          \/ mastermode' = mastermode \/ mastermode' = "OPEN" \/ mastermode' \in Modes
        BY DEF Next, vars, Connect, Disconnect, Ban, Message, SwitchName, Score, ReceiveMap, BanExpires,
               RemoveBans, StartGame, StartSilently, ResetIfEmpty, ChangeMasterMode
    <2> QED BY <1>1, <2>1, <2>2 DEF Modes
<1>3. ASSUME bans' = bans PROVE Kept
    BY <1>1, <1>3
<1>4. ASSUME NEW c \in Slots, NEW type \in {"VOTE", "AUTO"}, Ban(c, type) PROVE Kept
    <2> DEFINE ban == [host |-> HostOf(clients, c), type |-> type, expired |-> FALSE]
               m == Len(bans)
    <2>1. bans' = Append(bans, ban) /\ m < MaxBans /\ clients[c].conn # "empty"
        BY <1>4 DEF Ban, valid_client
    <2>2. ban \in Bans /\ ~ban.expired
        <3>1. clients[c].peer \in Peers
            BY <2>1, TableParts DEF ClientOK
        <3>2. HostOf(clients, c) \in Hosts
            BY <3>1, AddressesAssumption DEF HostOf
        <3> QED BY <3>2 DEF Bans
    <2> HIDE DEF ban
    <2>3. /\ bans' \in Seq(Bans) /\ Len(bans') = m + 1 /\ DOMAIN bans' = 1..m + 1 /\ bans'[m + 1] = ban
          /\ \A i \in 1..m : bans'[i] = bans[i]
        BY <1>1, <2>1, <2>2
    <2>4. Aged(bans')
        <3> SUFFICES ASSUME NEW i \in 1..m + 1, NEW j \in 1..m + 1, i < j, bans'[j].expired PROVE bans'[i].expired
            BY <2>3 DEF Aged
        <3>1. j # m + 1
            BY <2>2, <2>3
        <3>2. m \in Nat /\ DOMAIN bans = 1..m
            BY <1>1
        <3>3. i \in 1..m /\ j \in 1..m
            BY <3>1, <3>2
        <3> HIDE DEF m
        <3> QED BY <1>1, <2>3, <3>2, <3>3 DEF Aged
    <2>5. Len(bans') <= MaxBans
        BY <1>1, <2>1, <2>3
    <2> QED BY <2>3, <2>4, <2>5
<1>5. ASSUME BanExpires PROVE Kept
    <2> DEFINE m == Len(bans)
               k == Expired + 1
               ban == [bans[k] EXCEPT !.expired = TRUE]
    <2>1. Expired \in 0..m /\ (\A i \in DOMAIN bans : bans[i].expired <=> i <= Expired) /\ Expired < m
        BY <1>1, <1>5, ExpiredFirst DEF BanExpires
    <2>2. m \in Nat /\ DOMAIN bans = 1..m /\ bans \in [1..m -> Bans]
        BY <1>1
    <2>3. k \in 1..m /\ k = Expired + 1 /\ Expired \in Nat
        BY <2>1, <2>2
    <2>4. bans[k] \in Bans
        BY <2>2, <2>3
    <2>5. ban \in Bans /\ ban.expired
        BY <2>4 DEF Bans
    <2>6. bans' = [bans EXCEPT ![k] = ban]
        BY <1>5, <2>4 DEF BanExpires, Bans
    <2> HIDE DEF m, k, ban
    <2>7. /\ bans' \in [1..m -> Bans] /\ DOMAIN bans' = 1..m /\ bans'[k] = ban
          /\ \A i \in 1..m \ {k} : bans'[i] = bans[i]
        BY <2>2, <2>3, <2>5, <2>6
    <2>8. bans' \in Seq(Bans)
        BY <2>2, <2>7, ArraysAreSequences
    <2>9. Len(bans') = m
        BY <2>2, <2>7, <2>8
    <2>10. Aged(bans')
        <3> SUFFICES ASSUME NEW i \in 1..m, NEW j \in 1..m, i < j, bans'[j].expired PROVE bans'[i].expired
            BY <2>7 DEF Aged
        <3>1. j <= k
            <4>1. CASE j = k
                BY <2>2, <2>3, <4>1
            <4>2. CASE j # k
                <5>1. bans[j].expired
                    BY <2>7, <4>2
                <5>2. j <= Expired
                    BY <2>1, <2>2, <5>1
                <5> QED BY <2>3, <5>2
            <4> QED BY <4>1, <4>2
        <3>2. i # k /\ i <= Expired
            BY <2>2, <2>3, <3>1
        <3>3. bans[i].expired
            BY <2>1, <2>2, <3>2
        <3> QED BY <2>7, <3>2, <3>3
    <2> QED BY <1>1, <2>8, <2>9, <2>10 DEF m
<1>6. ASSUME RemoveBans PROVE Kept
    <2>1. bans' = <<>> /\ <<>> \in Seq(Bans) /\ Len(<<>>) = 0 /\ DOMAIN <<>> = {}
        BY <1>6 DEF RemoveBans
    <2> QED BY <1>1, <2>1 DEF Aged
<1>7. ASSUME NEW c \in Slots, NEW n \in Names, NEW wish \in Wishes, Join(c, n, wish) PROVE Kept
    <2> DEFINE h == HostOf(clients, c)
               left == GetBanType(h).left
               lifted == Unbanned(left, h)
    <2>1. bans' = left \/ bans' = lifted
        <3>1. \A v : v = [cs |-> clients', saved |-> savedscores'] => BansLeft(c, wish, bans')
            BY <1>7, Joining
        <3> QED BY <3>1 DEF BansLeft
    <2>2. left \in Seq(Bans) /\ Aged(left) /\ Len(left) <= Len(bans)
        BY <1>1, BanTypes
    <2> HIDE DEF left
    <2>3. lifted \in Seq(Bans) /\ Aged(lifted) /\ Len(lifted) <= Len(left)
        BY <2>2, Unbanning
    <2> HIDE DEF lifted
    <2>4. Len(left) <= MaxBans /\ Len(lifted) <= MaxBans
        <3>1. Len(left) \in Nat /\ Len(lifted) \in Nat /\ Len(bans) \in Nat
            BY <1>1, <2>2, <2>3
        <3> QED BY <1>1, <2>2, <2>3, <3>1
    <2> QED BY <2>1, <2>2, <2>3, <2>4
<1>8. Kept
    <2> HIDE DEF Kept
    <2>1. \/ \E c \in Slots, type \in {"VOTE", "AUTO"} : Ban(c, type)
          \/ BanExpires \/ RemoveBans
          \/ \E c \in Slots, n \in Names, wish \in Wishes : Join(c, n, wish)
          \/ bans' = bans
        BY DEF Next, vars, Connect, Disconnect, Message, SwitchName, Score, ReceiveMap,
               StartGame, StartSilently, ResetIfEmpty, ChangeMasterMode
    <2> QED BY <2>1, <1>3, <1>4, <1>5, <1>6, <1>7
<1> QED BY <1>2, <1>8

\* The clients and saved scores, after whatever happens to them.
LEMMA TableSteps ==
    ASSUME ConnInv, [Next]_vars, NEW v, v = [cs |-> clients', saved |-> savedscores']
    PROVE  /\ TableOK(v) /\ Seated(v) /\ TwinsAlone(v)
           /\ StartGame \/ StartSilently \/ ResetIfEmpty \/ Lost(v)
<1> DEFINE Goal == /\ TableOK(v) /\ Seated(v) /\ TwinsAlone(v)
                   /\ StartGame \/ StartSilently \/ ResetIfEmpty \/ Lost(v)
<1>1. Quiet(v) => Goal
    BY CalmSteps DEF Quiet, Lost
<1>2. ASSUME StartGame \/ StartSilently \/ ResetIfEmpty PROVE Goal
    <2>1. Calm(Table, v)
        BY <1>2, StartingOver
    <2> QED BY <1>2, <2>1, CalmSteps
<1>3. ASSUME NEW c \in Slots, NEW n \in Names, NEW wish \in Wishes, Join(c, n, wish) PROVE Goal
    <2>1. clients[c].conn = "connecting" /\ (LetsIn(c, n, wish, v) \/ Refuses(c, wish, v))
        BY <1>3, Joining
    <2>2. CASE LetsIn(c, n, wish, v)
        BY <2>1, <2>2, LettingIn
    <2>3. CASE Refuses(c, wish, v)
        <3>1. Quiet(v)
            BY <2>1, <2>3, Refusing
        <3> HIDE DEF Goal
        <3> QED BY <1>1, <3>1
    <2> QED BY <2>1, <2>2, <2>3
<1>4. ASSUME clients' = clients, savedscores' = savedscores PROVE Goal
    <2>1. v = Table
        BY <1>4, TableParts
    <2> HIDE DEF Goal
    <2> QED BY <1>1, <2>1, QuietSame
<1>5. ASSUME NEW c \in Slots, NEW peer \in Peers, Connect(c, peer) PROVE Quiet(v)
    BY <1>5, Connecting
<1>6. ASSUME NEW c \in Slots, Becomes(Left(Table, c)) PROVE Quiet(v)
    BY <1>6, ClientGoes
<1>7. ASSUME NEW c \in Slots, NEW n \in Names, SwitchName(c, n) PROVE Quiet(v)
    BY <1>7, Renaming
<1>8. ASSUME NEW c \in Slots, NEW p \in Points, Score(c, p) PROVE Quiet(v)
    BY <1>8, Scoring
<1>9. ASSUME NEW c \in Slots, ReceiveMap(c) PROVE Quiet(v)
    BY <1>9, Downloading
<1>10. \/ StartGame \/ StartSilently \/ ResetIfEmpty
       \/ \E c \in Slots, n \in Names, wish \in Wishes : Join(c, n, wish)
       \/ clients' = clients /\ savedscores' = savedscores
       \/ \E c \in Slots : \/ \E peer \in Peers : Connect(c, peer)
                           \/ Becomes(Left(Table, c))
                           \/ \E n \in Names : SwitchName(c, n)
                           \/ \E p \in Points : Score(c, p)
                           \/ ReceiveMap(c)
    BY DEF Next, vars, Message, Disconnect, Ban, BanExpires, RemoveBans, ChangeMasterMode
<1> HIDE DEF Goal
<1>11. Goal
    BY <1>1, <1>2, <1>3, <1>4, <1>5, <1>6, <1>7, <1>8, <1>9, <1>10
<1> QED BY <1>11 DEF Goal

LEMMA ConnectionsInvariance == ConnInv /\ [Next]_vars => ConnInv'
<1> SUFFICES ASSUME ConnInv, [Next]_vars PROVE ConnInv'
    OBVIOUS
<1> DEFINE v == [cs |-> clients', saved |-> savedscores']
<1>1. v = [cs |-> clients', saved |-> savedscores']
    OBVIOUS
<1>2. v.cs = clients'
    OBVIOUS
<1> HIDE DEF v
<1>3. TableOK(v) /\ Seated(v)
    BY <1>1, TableSteps
<1>4. SeatsApart(clients')
    BY <1>2, <1>3 DEF Seated
<1>5. TableOK(Table')
    BY <1>1, <1>3 DEF Table
<1> QED BY <1>4, <1>5, BansKeep DEF ConnInv

\* Clients, saved scores and bans keep their types, whoever comes, renames, leaves and returns.
THEOREM ConnectionsTypeCorrect == Spec => []TypeOK
<1>1. ConnInv => TypeOK
    BY TableParts DEF ConnInv, TypeOK
<1> QED BY ConnectionsBegin, ConnectionsInvariance, <1>1, PTL DEF Spec

\* A peer has one seat, and nobody is let into a full server but former players of a match.
THEOREM SeatsAreKept == Spec => SeatsHold
<1> DEFINE Body ==
      /\ \A c, d \in Authed(clients') : clients'[c].peer = clients'[d].peer => c = d
      /\ (mastermode # "MATCH" /\ Cardinality(Authed(clients')) > MaxClients) =>
            Cardinality(Authed(clients')) <= Cardinality(Authed(clients))
<1>1. ConnInv /\ [Next]_vars => Body
    <2> SUFFICES ASSUME ConnInv, [Next]_vars PROVE Body
        OBVIOUS
    <2> DEFINE v == [cs |-> clients', saved |-> savedscores']
    <2>1. v = [cs |-> clients', saved |-> savedscores'] /\ v.cs = clients'
        OBVIOUS
    <2> HIDE DEF v
    <2>2. Seated(v)
        BY <2>1, TableSteps
    <2> QED BY <2>1, <2>2 DEF Seated, SeatsApart
<1>2. ConnInv /\ [Next]_vars => [Body]_vars
    BY <1>1
<1> QED BY ConnectionsBegin, ConnectionsInvariance, <1>2, PTL DEF Spec, SeatsHold

\* Only a reconnecting client that passes for another one doubles points.
THEOREM TwinsDouble == Spec => OnlyTwinsDouble
<1> DEFINE Body ==
      \A p \in Points :
          Copies(clients', savedscores', p) > Copies(clients, savedscores, p)
              /\ Copies(clients, savedscores, p) > 0 =>
             \E c \in Authed(clients') \ Authed(clients) :
                \E d \in With(clients, p) \cap Twins(clients', c) :
                   clients[d].peer # clients'[c].peer
<1>1. ConnInv /\ [Next]_vars => Body
    <2> SUFFICES ASSUME ConnInv, [Next]_vars PROVE Body
        OBVIOUS
    <2> DEFINE v == [cs |-> clients', saved |-> savedscores']
    <2>1. v = [cs |-> clients', saved |-> savedscores'] /\ v.cs = clients' /\ v.saved = savedscores'
        OBVIOUS
    <2> HIDE DEF v
    <2>2. TwinsAlone(v)
        BY <2>1, TableSteps
    <2>3. Table.cs = clients /\ Table.saved = savedscores
        BY TableParts
    <2>4. \A p : CopiesAt(v, p) = Copies(clients', savedscores', p) /\ CopiesAt(Table, p) = Copies(clients, savedscores, p)
        BY <2>1, <2>3 DEF CopiesAt
    <2>5. \A p \in Points : CopiesAt(v, p) > CopiesAt(Table, p) /\ CopiesAt(Table, p) > 0 =>
             \E c \in Authed(clients') \ Authed(clients) :
                \E d \in With(clients, p) \cap Twins(clients', c) : clients[d].peer # clients'[c].peer
        BY <2>1, <2>2 DEF TwinsAlone
    <2> QED BY <2>4, <2>5
<1>2. ConnInv /\ [Next]_vars => [Body]_vars
    BY <1>1
<1> QED BY ConnectionsBegin, ConnectionsInvariance, <1>2, PTL DEF Spec, OnlyTwinsDouble

\* A game's points are lost only where a saved score is overwritten.
THEOREM ScoresReturn == Spec => LostOnlyInShadow
<1> DEFINE Body ==
      \A p \in Points :
          Copies(clients, savedscores, p) > 0 /\ Copies(clients', savedscores', p) = 0 =>
             \/ StartGame \/ StartSilently \/ ResetIfEmpty
             \/ \E c \in Authed(clients), n \in Names :
                   (n = clients[c].name \/ SwitchName(c, n)) /\ p \in Shadowed(c, n)
<1>1. ConnInv /\ [Next]_vars => Body
    <2> SUFFICES ASSUME ConnInv, [Next]_vars,
                        NEW p \in Points, Copies(clients, savedscores, p) > 0, Copies(clients', savedscores', p) = 0
                 PROVE  StartGame \/ StartSilently \/ ResetIfEmpty \/ Shaded(p)
        BY DEF Shaded
    <2> DEFINE v == [cs |-> clients', saved |-> savedscores']
    <2>1. v = [cs |-> clients', saved |-> savedscores'] /\ v.cs = clients' /\ v.saved = savedscores'
        OBVIOUS
    <2> HIDE DEF v
    <2>2. TableOK(v) /\ (StartGame \/ StartSilently \/ ResetIfEmpty \/ Lost(v))
        BY <2>1, TableSteps
    <2>3. Table.cs = clients /\ Table.saved = savedscores /\ TableOK(Table)
        BY TableParts
    <2>4. CopiesAt(Table, p) > 0 /\ CopiesAt(v, p) = 0
        BY <2>1, <2>3 DEF CopiesAt
    <2>5. Held(Table, p) /\ ~Held(v, p)
        BY <2>2, <2>3, <2>4, FinitePlaces
    <2> QED BY <2>2, <2>5 DEF Lost, Loses
<1>2. ConnInv /\ [Next]_vars => [Body]_vars
    BY <1>1
<1> QED BY ConnectionsBegin, ConnectionsInvariance, <1>2, PTL DEF Spec, LostOnlyInShadow

\* A ban that has not expired holds against whoever has no password, and an expired one at most once.
THEOREM BansAreKept == Spec => BansHold
<1> DEFINE Body ==
      \A c \in Slots, n \in Names : Join(c, n, "player") =>
          LET mine == {i \in DOMAIN bans : bans[i].host = HostOf(clients, c)}
              refused == c \notin Authed(clients')
          IN /\ (\E i \in mine : ~bans[i].expired) => refused
             /\ refused /\ mastermode = "OPEN" /\ numnonlocalclients <= MaxClients
                   /\ (\A i \in mine : bans[i].expired) => Len(bans') < Len(bans)
<1>1. ConnInv => Body
    <2> SUFFICES ASSUME ConnInv, NEW c \in Slots, NEW n \in Names, Join(c, n, "player")
                 PROVE  LET mine == {i \in DOMAIN bans : bans[i].host = HostOf(clients, c)}
                            refused == c \notin Authed(clients')
                        IN /\ (\E i \in mine : ~bans[i].expired) => refused
                           /\ refused /\ mastermode = "OPEN" /\ numnonlocalclients <= MaxClients
                                 /\ (\A i \in mine : bans[i].expired) => Len(bans') < Len(bans)
        OBVIOUS
    <2> DEFINE v == [cs |-> clients', saved |-> savedscores']
               h == HostOf(clients, c)
               g == GetBanType(h)
    <2>1. v = [cs |-> clients', saved |-> savedscores'] /\ v.cs = clients' /\ g = GetBanType(h)
        OBVIOUS
    <2> HIDE DEF v
    <2>2. /\ clients[c].conn = "connecting" /\ BansLeft(c, "player", bans')
          /\ LetsIn(c, n, "player", v) \/ Refuses(c, "player", v)
        BY <2>1, Joining DEF Wishes
    <2>3. /\ bans' = g.left /\ (LetsIn(c, n, "player", v) => g.type = "NONE")
          /\ Refuses(c, "player", v) /\ mastermode = "OPEN" /\ ~full => g.type # "NONE"
        BY <2>2 DEF BansLeft, LetsIn, Refuses
    <2> HIDE DEF g, h
    <2>4. /\ (\E i \in DOMAIN bans : bans[i].host = h /\ ~bans[i].expired) => g.type # "NONE"
          /\ g.type # "NONE" /\ (\A i \in DOMAIN bans : bans[i].host = h => bans[i].expired) =>
                Len(g.left) < Len(bans)
        BY <2>1, BanTypes DEF ConnInv
    <2>5. LetsIn(c, n, "player", v) => c \in Authed(clients')
        BY <2>1, <2>2, LettingIn
    <2>6. Refuses(c, "player", v) => c \notin Authed(clients')
        BY <2>1, <2>2, Refusing
    <2>7. numnonlocalclients <= MaxClients => ~full
        <3>1. numnonlocalclients \in Nat
            <4>1. IsFiniteSet({d \in Slots : valid_client(clients, d)})
                BY SeatsAssumption, FS_Subset
            <4> QED BY <4>1, FS_CardinalityType DEF numnonlocalclients
        <3> QED BY <3>1, SeatsAssumption DEF full
    <2>8. (\E i \in {i \in DOMAIN bans : bans[i].host = h} : ~bans[i].expired) => c \notin Authed(clients')
        BY <2>2, <2>3, <2>4, <2>6
    <2>9. c \notin Authed(clients') /\ mastermode = "OPEN" /\ numnonlocalclients <= MaxClients
             /\ (\A i \in {i \in DOMAIN bans : bans[i].host = h} : bans[i].expired) => Len(bans') < Len(bans)
        BY <2>2, <2>3, <2>4, <2>5, <2>7
    <2> QED BY <2>8, <2>9 DEF h
<1>2. ConnInv /\ [Next]_vars => [Body]_vars
    BY <1>1
<1> QED BY ConnectionsBegin, ConnectionsInvariance, <1>2, PTL DEF Spec, BansHold

-----------------------------------------------------------------------------
(* The two parts.                                                          *)

\* What MCConnections lets happen is, for the variables of each part, what that part's specification allows, so
\* the theorems about Connections and WorldState are about the composition, too.
THEOREM PartsOfConnections == MCSpec => Spec /\ WorldSpec
<1>1. MCInit => Init /\ WorldInit
    BY DEF MCInit
<1>2. [MCNext]_<<part, vars, worldVars>> => [Next]_vars
    BY DEF MCNext
<1>3. [MCNext]_<<part, vars, worldVars>> => [WorldNext]_worldVars
    BY DEF MCNext
<1> QED BY <1>1, <1>2, <1>3, PTL DEF MCSpec, Spec, WorldSpec

\* The variables of both parts are well-typed.
THEOREM BothTypesCorrect == MCSpec => []PartsTypeOK
<1>1. TypeOK /\ WorldTypeOK => PartsTypeOK
    BY DEF PartsTypeOK
<1> QED BY PartsOfConnections, ConnectionsTypeCorrect, WorldTypeCorrect, <1>1, PTL
=============================================================================
