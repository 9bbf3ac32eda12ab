------------------------ MODULE ToolAgentLoop_proofs ------------------------
(*****************************************************************************)
(* Conversations and their server manager for any batch, servers, cache,     *)
(* lengths and limits: a conversation stays on its server and the servers    *)
(* are evenly loaded, and what a conversation returns fits together.         *)
(*****************************************************************************)
EXTENDS ToolAgentLoop, FiniteSetTheorems, SequenceTheorems, WellFoundedInduction, TLAPS

(* What LoopAssumption says of each constant.                               *)
LEMMA SizesOf ==
    /\ BatchSize \in Nat \ {0} /\ CacheSize \in Nat \ {0} /\ PromptLength \in Nat \ {0}
    /\ ResponseLength \in Nat \ {0} /\ MaxTokens \in Nat \ {0} /\ BatchSize <= CacheSize
    /\ max_model_len = PromptLength + ResponseLength
    BY LoopAssumption DEF max_model_len

(* A set of numbers has a least one.                                        *)
LEMMA LeastOf ==
    ASSUME NEW T, T \subseteq Nat, T # {}
    PROVE  \E x \in T : \A y \in T : x <= y
    <1> DEFINE R == OpToRel(<, Nat)
    <1>1. IsWellFoundedOn(R, Nat)
        BY NatLessThanWellFounded
    <1>2. \A x, y \in Nat : x < y => <<x, y>> \in R
        BY DEF OpToRel
    <1> HIDE DEF R
    <1>3. PICK x \in T : \A y \in T : <<y, x>> \notin R
        BY <1>1, WFMin
    <1>4. \A y \in T : ~(y < x)
        BY <1>2, <1>3
    <1> QED
        BY <1>4

(* The heap has a top.                                                      *)
LEMMA LeastLoadedExists ==
    ASSUME weighted_serveres \in [Servers -> Nat]
    PROVE  /\ LeastLoaded \in Servers
           /\ \A t \in Servers : weighted_serveres[LeastLoaded] <= weighted_serveres[t]
    <1> DEFINE K == {weighted_serveres[s] : s \in Servers}
    <1>1. K \subseteq Nat /\ K # {}
        <2>1. PICK s \in Servers : TRUE
            BY LoopAssumption
        <2>2. weighted_serveres[s] \in K
            BY <2>1
        <2>3. \A t \in Servers : weighted_serveres[t] \in Nat
            OBVIOUS
        <2> QED
            BY <2>2, <2>3
    <1>2. PICK k \in K : \A m \in K : k <= m
        BY <1>1, LeastOf
    <1> DEFINE H == {s \in Servers : weighted_serveres[s] = k}
    <1>3. H \subseteq Nat /\ H # {}
        BY <1>2, LoopAssumption
    <1>4. PICK h \in H : \A g \in H : h <= g
        BY <1>3, LeastOf
    <1>5. h \in Servers /\ h \in Nat /\ weighted_serveres[h] = k /\ k \in Nat
        BY <1>1, <1>2, <1>3, <1>4
    <1>6. \A t \in Servers : /\ t \in Nat /\ weighted_serveres[t] \in Nat
                             /\ k <= weighted_serveres[t]
                             /\ weighted_serveres[t] = k => h <= t
        BY <1>2, <1>4, LoopAssumption
    <1>7. \E s \in Servers : \A t \in Servers :
              \/ weighted_serveres[s] < weighted_serveres[t]
              \/ weighted_serveres[s] = weighted_serveres[t] /\ s =< t
        <2>1. \A t \in Servers :
                 \/ weighted_serveres[h] < weighted_serveres[t]
                 \/ weighted_serveres[h] = weighted_serveres[t] /\ h =< t
            BY <1>5, <1>6
        <2> QED
            BY <1>5, <2>1
    <1>8. LeastLoaded \in Servers /\ \A t \in Servers :
              \/ weighted_serveres[LeastLoaded] < weighted_serveres[t]
              \/ weighted_serveres[LeastLoaded] = weighted_serveres[t] /\ LeastLoaded =< t
        BY <1>7 DEF LeastLoaded
    <1> QED
        BY <1>6, <1>8

(* Entries in the order of their last use: those of earlier batches first,   *)
(* one for each conversation, and one for every conversation served.        *)
Entry == [request_id : (Nat \ {0}) \X Slots, server : Servers]

(* The cache: an entry for a conversation at most, those of earlier batches *)
(* first.                                                                   *)
CacheInv ==
    /\ batch \in Nat \ {0}
    /\ request_id_to_server \in Seq(Entry) /\ Len(request_id_to_server) <= CacheSize
    /\ \A i, j \in DOMAIN request_id_to_server :
          /\ request_id_to_server[i].request_id = request_id_to_server[j].request_id => i = j
          /\ i < j /\ request_id_to_server[j].request_id[1] # batch =>
                request_id_to_server[i].request_id[1] # batch
    /\ \A i \in DOMAIN request_id_to_server : request_id_to_server[i].request_id[1] <= batch

(* A conversation that was served has an entry, of the one server that      *)
(* served it.                                                               *)
ServedInv ==
    /\ DOMAIN served = Slots
    /\ \A c \in Slots : served[c] # {} =>
          \E i \in Cached(RequestId(c)) : served[c] = {request_id_to_server[i].server}
    /\ \A c \in Slots : served[c] \subseteq Servers

(* The counts of the servers differ by one at most.                         *)
HeapInv ==
    /\ weighted_serveres \in [Servers -> Nat]
    /\ \A s, t \in Servers : weighted_serveres[s] =< weighted_serveres[t] + 1

(* The inductive invariant of the manager.                                  *)
ManagerInv == CacheInv /\ ServedInv /\ HeapInv

(* A conversation's entry is not the one that gives way to another's of its  *)
(* batch: at most CacheSize conversations are in a batch.                   *)
LEMMA EvictsOld ==
    ASSUME CacheInv, NEW c \in Slots, Cached(RequestId(c)) = {},
           ~(Len(request_id_to_server) < CacheSize)
    PROVE  /\ request_id_to_server # <<>>
           /\ request_id_to_server[1].request_id[1] # batch
    <1> DEFINE q == request_id_to_server
    <1>0. q \in Seq(Entry) /\ Len(q) = CacheSize /\ CacheSize \in Nat \ {0} /\ BatchSize \in Nat \ {0}
          /\ BatchSize <= CacheSize /\ DOMAIN q = 1..CacheSize
        BY SizesOf DEF CacheInv
    <1>1. ASSUME q[1].request_id[1] = batch PROVE FALSE
        <2>1. ASSUME NEW i \in 1..CacheSize
              PROVE  /\ q[i].request_id[1] = batch /\ q[i].request_id[2] \in Slots \ {c}
                     /\ q[i].request_id = <<batch, q[i].request_id[2]>>
            <3>1. 1 \in 1..CacheSize
                BY <1>0
            <3>2. q[i] \in Entry
                BY <1>0
            <3>3. q[i].request_id \in (Nat \ {0}) \X Slots
                BY <3>2 DEF Entry
            <3>4. q[i].request_id[1] = batch
                <4>1. CASE i = 1
                    BY <1>1, <4>1
                <4>2. CASE i # 1
                    <5>1. 1 < i
                        BY <1>0, <4>2
                    <5>2. 1 < i /\ q[i].request_id[1] # batch => q[1].request_id[1] # batch
                        BY <1>0, <3>1 DEF CacheInv
                    <5> QED
                        BY <1>1, <5>1, <5>2
                <4> QED
                    BY <4>1, <4>2
            <3>5. q[i].request_id # RequestId(c)
                BY <1>0 DEF Cached
            <3> QED
                BY <3>3, <3>4, <3>5 DEF RequestId
        <2> DEFINE f == [i \in 1..CacheSize |-> q[i].request_id[2]]
        <2>2. f \in [1..CacheSize -> Slots \ {c}]
            BY <2>1
        <2>3. IsFiniteSet(Slots) /\ Cardinality(Slots) = BatchSize
            BY <1>0, FS_Interval DEF Slots
        <2>4. IsFiniteSet(Slots \ {c}) /\ Cardinality(Slots \ {c}) = BatchSize - 1
            BY <2>3, FS_RemoveElement
        <2>5. IsFiniteSet(1..CacheSize) /\ Cardinality(1..CacheSize) = CacheSize
            BY <1>0, FS_Interval
        <2> HIDE DEF f
        <2>6. PICK i, j \in 1..CacheSize : i # j /\ f[i] = f[j]
            BY <1>0, <2>2, <2>4, <2>5, FS_PigeonHole
        <2>7. q[i].request_id = q[j].request_id
            BY <2>1, <2>6 DEF f
        <2>8. i = j
            BY <1>0, <2>6, <2>7 DEF CacheInv
        <2> QED
            BY <2>6, <2>8
    <1>2. q # <<>>
        BY <1>0, EmptySeq
    <1> QED
        BY <1>1, <1>2

(* An entry taken out and put behind the others.                            *)
LEMMA MovedToEnd ==
    ASSUME NEW S, NEW s \in Seq(S), NEW i \in 1..Len(s), NEW r, r = Append(RemoveAt(s, i), s[i])
    PROVE  /\ r \in Seq(S) /\ Len(r) = Len(s)
           /\ \A k \in 1..(i - 1) : r[k] = s[k]
           /\ \A k \in i..(Len(s) - 1) : r[k] = s[k + 1]
           /\ r[Len(s)] = s[i]
    <1> DEFINE a == SubSeq(s, 1, i - 1)
               b == SubSeq(s, i + 1, Len(s))
               m == RemoveAt(s, i)
    <1>1. Len(s) \in Nat /\ i \in Nat /\ i >= 1 /\ i <= Len(s) /\ s[i] \in S
        OBVIOUS
    <1>2. a \in Seq(S) /\ Len(a) = i - 1 /\ \A k \in 1..(i - 1) : a[k] = s[k]
        BY <1>1
    <1>3. b \in Seq(S) /\ Len(b) = Len(s) - i /\ \A k \in 1..(Len(s) - i) : b[k] = s[k + i]
        <2>1. b \in Seq(S)
            BY <1>1, SubSeqProperties
        <2>2. Len(b) = Len(s) - i
            BY <1>1, <2>1
        <2>3. \A k \in 1..(Len(s) - i) : b[k] = s[k + i]
            BY <1>1
        <2> QED
            BY <2>1, <2>2, <2>3
    <1>4. m = a \o b
        BY DEF RemoveAt
    <1>6. r = Append(m, s[i])
        OBVIOUS
    <1> HIDE DEF a, b, m
    <1>5. /\ m \in Seq(S) /\ Len(m) = Len(s) - 1
          /\ \A k \in 1..(i - 1) : m[k] = s[k]
          /\ \A k \in i..(Len(s) - 1) : m[k] = s[k + 1]
        <2>1. m \in Seq(S) /\ Len(m) = Len(s) - 1
            BY <1>1, <1>2, <1>3, <1>4
        <2>2. \A k \in 1..(i - 1) : m[k] = s[k]
            BY <1>1, <1>2, <1>3, <1>4
        <2>3. ASSUME NEW k \in i..(Len(s) - 1) PROVE m[k] = s[k + 1]
            <3>1. k - (i - 1) \in 1..(Len(s) - i) /\ (k - (i - 1)) + i = k + 1
                BY <1>1
            <3>2. m[k] = b[k - (i - 1)]
                <4>1. k \in 1..(Len(a) + Len(b)) /\ ~(k <= Len(a)) /\ k - Len(a) = k - (i - 1)
                    BY <1>1, <1>2, <1>3
                <4>2. (a \o b)[k] = b[k - Len(a)]
                    BY <1>2, <1>3, <4>1, ConcatProperties
                <4> QED
                    BY <1>4, <4>1, <4>2
            <3> QED
                BY <1>3, <3>1, <3>2
        <2> QED
            BY <2>1, <2>2, <2>3
    <1> QED
        BY <1>1, <1>5, <1>6

(* The conversation has an entry, which becomes the last.                   *)
LEMMA ManagerHit ==
    ASSUME ManagerInv, NEW c \in Slots, NEW i \in Cached(RequestId(c)),
           request_id_to_server' = Append(RemoveAt(request_id_to_server, i), request_id_to_server[i]),
           served' = [served EXCEPT ![c] = @ \cup {request_id_to_server[i].server}],
           weighted_serveres' = weighted_serveres, batch' = batch
    PROVE  ManagerInv'
    <1> DEFINE q == request_id_to_server
               r == request_id_to_server'
               n == Len(q)
               f == [k \in 1..n |-> IF k < i THEN k ELSE IF k < n THEN k + 1 ELSE i]
    <1>1. /\ q \in Seq(Entry) /\ n \in Nat /\ n <= CacheSize /\ i \in 1..n /\ DOMAIN q = 1..n
          /\ q[i].request_id = <<batch, c>>
        BY DEF ManagerInv, CacheInv, Cached, RequestId
    <1>2. /\ r \in Seq(Entry) /\ Len(r) = n /\ DOMAIN r = 1..n
          /\ \A k \in 1..(i - 1) : r[k] = q[k]
          /\ \A k \in i..(n - 1) : r[k] = q[k + 1]
          /\ r[n] = q[i]
        <2>1. r = Append(RemoveAt(q, i), q[i])
            OBVIOUS
        <2> HIDE DEF q, r, f
        <2>2. i \in 1..Len(q) /\ q \in Seq(Entry)
            BY <1>1
        <2>3. /\ r \in Seq(Entry) /\ Len(r) = Len(q)
              /\ \A k \in 1..(i - 1) : r[k] = q[k]
              /\ \A k \in i..(Len(q) - 1) : r[k] = q[k + 1]
              /\ r[Len(q)] = q[i]
            <3>1. \A u : u = Append(RemoveAt(q, i), q[i]) =>
                     /\ u \in Seq(Entry) /\ Len(u) = Len(q)
                     /\ \A k \in 1..(i - 1) : u[k] = q[k]
                     /\ \A k \in i..(Len(q) - 1) : u[k] = q[k + 1]
                     /\ u[Len(q)] = q[i]
                BY <2>2, MovedToEnd
            <3> QED
                BY <2>1, <3>1
        <2> QED
            BY <1>1, <2>3
    <1> HIDE DEF n, q, r
    <1>3. /\ \A k \in 1..n : f[k] \in 1..n /\ r[k] = q[f[k]]
          /\ \A j, k \in 1..n : f[j] = f[k] => j = k
          /\ \A j, k \in 1..n : j < k /\ k # n => f[j] < f[k]
        <2>1. ASSUME NEW k \in 1..n PROVE f[k] \in 1..n /\ r[k] = q[f[k]]
            <3>0. i \in 1..n /\ n \in Nat
                BY <1>1
            <3>1. CASE k < i
                <4>1. f[k] = k /\ k \in 1..(i - 1)
                    BY <3>0, <3>1
                <4> QED
                    BY <1>2, <4>1
            <3>2. CASE ~(k < i) /\ k < n
                <4>1. f[k] = k + 1 /\ k \in i..(n - 1) /\ k + 1 \in 1..n
                    BY <3>0, <3>2
                <4> QED
                    BY <1>2, <4>1
            <3>3. CASE ~(k < i) /\ ~(k < n)
                <4>1. f[k] = i /\ k = n
                    BY <3>0, <3>3
                <4> QED
                    BY <1>2, <3>0, <4>1
            <3> QED
                BY <3>1, <3>2, <3>3
        <2>0. i \in 1..n /\ n \in Nat
            BY <1>1
        <2>2. ASSUME NEW j \in 1..n, NEW k \in 1..n, f[j] = f[k] PROVE j = k
            BY <2>0, <2>2
        <2>3. ASSUME NEW j \in 1..n, NEW k \in 1..n, j < k, k # n PROVE f[j] < f[k]
            BY <2>0, <2>3
        <2> QED
            BY <2>1, <2>2, <2>3
    <1>4. \A j \in 1..n : \E k \in 1..n : f[k] = j
        <2>0. i \in 1..n /\ n \in Nat
            BY <1>1
        <2>1. ASSUME NEW j \in 1..n PROVE \E k \in 1..n : f[k] = j
            <3>1. CASE j < i
                <4>1. f[j] = j
                    BY <2>0, <3>1
                <4> QED
                    BY <4>1
            <3>2. CASE j = i
                <4>1. n \in 1..n /\ f[n] = i
                    BY <2>0
                <4> QED
                    BY <3>2, <4>1
            <3>3. CASE j > i
                <4>1. j - 1 \in 1..n /\ f[j - 1] = j
                    BY <2>0, <3>3
                <4> QED
                    BY <4>1
            <3> QED
                BY <1>1, <3>1, <3>2, <3>3
        <2> QED
            BY <2>1
    <1>5. f[n] = i /\ n \in 1..n
        <2>0. i \in 1..n /\ n \in Nat
            BY <1>1
        <2> QED
            BY <2>0
    <1>6. /\ \A j, k \in 1..n : q[j].request_id = q[k].request_id => j = k
          /\ \A j, k \in 1..n : j < k /\ q[k].request_id[1] # batch => q[j].request_id[1] # batch
          /\ \A k \in 1..n : q[k].request_id[1] <= batch
        BY <1>1 DEF ManagerInv, CacheInv, q
    <1> HIDE DEF f, n, q, r
    <1>7. \A j, k \in 1..n : r[j].request_id = r[k].request_id => j = k
        BY <1>3, <1>6
    <1>8. ASSUME NEW j \in 1..n, NEW k \in 1..n, j < k, r[k].request_id[1] # batch
          PROVE  r[j].request_id[1] # batch
        <2>1. k # n
            <3>1. r[n].request_id[1] = batch
                BY <1>1, <1>2
            <3> QED
                BY <1>8, <3>1
        <2> QED
            BY <1>3, <1>6, <1>8, <2>1
    <1>9. CacheInv'
        <2>1. \A k \in 1..n : r[k].request_id[1] <= batch
            BY <1>3, <1>6
        <2> QED
            BY <1>1, <1>2, <1>7, <1>8, <2>1 DEF ManagerInv, CacheInv, r
    <1>10. ServedInv'
        <2>1. DOMAIN served = Slots /\ \A d \in Slots : served[d] # {} =>
                  \E j \in 1..n : q[j].request_id = <<batch, d>> /\ served[d] = {q[j].server}
            BY <1>1 DEF ManagerInv, ServedInv, Cached, RequestId, q
        <2>2. served' = [served EXCEPT ![c] = @ \cup {q[i].server}]
            BY DEF q
        <2>3. ASSUME NEW d \in Slots, served'[d] # {}
              PROVE  \E k \in 1..n : r[k].request_id = <<batch, d>> /\ served'[d] = {r[k].server}
            <3>1. CASE d = c
                <4>1. served'[c] = {q[i].server}
                    BY <1>1, <1>6, <2>1, <2>2
                <4>2. r[n].request_id = <<batch, c>> /\ r[n].server = q[i].server
                    BY <1>1, <1>2
                <4> QED
                    BY <1>5, <3>1, <4>1, <4>2
            <3>2. CASE d # c
                <4>1. served'[d] = served[d]
                    BY <2>1, <2>2, <3>2
                <4>2. PICK j \in 1..n : q[j].request_id = <<batch, d>> /\ served[d] = {q[j].server}
                    BY <2>1, <2>3, <4>1
                <4>3. PICK k \in 1..n : f[k] = j
                    BY <1>4
                <4> QED
                    BY <1>3, <4>1, <4>2, <4>3
            <3> QED
                BY <3>1, <3>2
        <2>4. DOMAIN served' = Slots /\ \A d \in Slots : served'[d] \subseteq Servers
            <3>1. q[i].server \in Servers
                <4>1. q[i] \in Entry
                    BY <1>1
                <4> QED
                    BY <4>1 DEF Entry
            <3>2. \A d \in Slots : served[d] \subseteq Servers
                BY DEF ManagerInv, ServedInv
            <3> QED
                BY <2>1, <2>2, <3>1, <3>2
        <2> QED
            BY <1>2, <2>3, <2>4 DEF ServedInv, Cached, RequestId, r
    <1> QED
        BY <1>9, <1>10 DEF ManagerInv, HeapInv

(* The conversation is new to the manager: the least loaded server takes it. *)
LEMMA ManagerMiss ==
    ASSUME ManagerInv, NEW c \in Slots, Cached(RequestId(c)) = {},
           request_id_to_server' =
              Append(MakeRoom(request_id_to_server),
                     [request_id |-> RequestId(c), server |-> LeastLoaded]),
           weighted_serveres' = [weighted_serveres EXCEPT ![LeastLoaded] = @ + 1],
           served' = [served EXCEPT ![c] = @ \cup {LeastLoaded}], batch' = batch
    PROVE  ManagerInv'
    <1> DEFINE q == request_id_to_server
               r == request_id_to_server'
               e == [request_id |-> RequestId(c), server |-> LeastLoaded]
               m == MakeRoom(q)
               g == IF Len(q) < CacheSize THEN 0 ELSE 1
    <1>1. /\ q \in Seq(Entry) /\ Len(q) \in Nat /\ Len(q) <= CacheSize /\ DOMAIN q = 1..Len(q)
          /\ batch \in Nat \ {0} /\ CacheSize \in Nat \ {0}
        BY SizesOf DEF ManagerInv, CacheInv
    <1>2. LeastLoaded \in Servers /\ \A t \in Servers : weighted_serveres[LeastLoaded] <= weighted_serveres[t]
        BY LeastLoadedExists DEF ManagerInv, HeapInv
    <1>3. e \in Entry /\ e.request_id = <<batch, c>>
        BY <1>1, <1>2 DEF Entry, RequestId
    <1>4. /\ m \in Seq(Entry) /\ Len(m) = Len(q) - g /\ Len(m) + 1 <= CacheSize /\ Len(m) \in Nat
          /\ \A k \in 1..Len(m) : m[k] = q[k + g]
          /\ \A k \in 1..Len(m) : k + g \in 1..Len(q)
          /\ \A j \in 1..Len(q) : q[j].request_id[1] = batch => j - g \in 1..Len(m)
        <2>1. CASE Len(q) < CacheSize
            <3>1. m = q /\ g = 0
                BY <2>1 DEF MakeRoom
            <3> HIDE DEF m, g
            <3> QED
                BY <1>1, <2>1, <3>1
        <2>2. CASE ~(Len(q) < CacheSize)
            <3>1. m = Tail(q) /\ g = 1
                BY <2>2 DEF MakeRoom
            <3>2. q # <<>> /\ q[1].request_id[1] # batch
                BY <2>2, EvictsOld DEF ManagerInv
            <3>3. /\ Tail(q) \in Seq(Entry) /\ Len(Tail(q)) = Len(q) - 1
                  /\ \A k \in 1..Len(Tail(q)) : Tail(q)[k] = q[k + 1]
                BY <1>1, <3>2, HeadTailProperties
            <3>4. Len(q) = CacheSize
                <4>1. Len(q) \in Nat /\ Len(q) <= CacheSize /\ CacheSize \in Nat
                    BY <1>1
                <4> QED
                    BY <2>2, <4>1
            <3> HIDE DEF m, g, q
            <3>5. \A j \in 1..Len(q) : q[j].request_id[1] = batch => j # 1
                BY <3>2
            <3> QED
                BY <1>1, <3>1, <3>3, <3>4, <3>5
        <2> QED
            BY <2>1, <2>2
    <1>5. r = Append(m, e)
        OBVIOUS
    <1>6. g \in Nat
        OBVIOUS
    <1>7. \A k \in 1..Len(q) : q[k].request_id # <<batch, c>>
        BY <1>1 DEF Cached, RequestId
    <1>8. /\ \A j, k \in 1..Len(q) : q[j].request_id = q[k].request_id => j = k
          /\ \A j, k \in 1..Len(q) : j < k /\ q[k].request_id[1] # batch => q[j].request_id[1] # batch
          /\ \A k \in 1..Len(q) : q[k].request_id[1] <= batch
        BY <1>1 DEF ManagerInv, CacheInv
    <1> DEFINE n == Len(m) + 1
    <1> HIDE DEF g, m, e, q, r
    <1>9. /\ r \in Seq(Entry) /\ Len(r) = n /\ DOMAIN r = 1..n /\ n \in Nat /\ n \in 1..n
          /\ \A k \in 1..Len(m) : r[k] = m[k]
          /\ r[n] = e
        BY <1>3, <1>4, <1>5
    <1>10. \A k \in 1..n : k = n \/ (k \in 1..Len(m) /\ k + g \in 1..Len(q) /\ r[k] = q[k + g])
        BY <1>4, <1>9
    <1> HIDE DEF n
    <1>11. ASSUME NEW j \in 1..n, NEW k \in 1..n, r[j].request_id = r[k].request_id
           PROVE  j = k
        <2>1. CASE j # n /\ k # n
            <3>1. j + g = k + g
                BY <1>8, <1>10, <1>11, <2>1
            <3> QED
                BY <1>6, <1>9, <3>1
        <2>2. CASE j = n
            <3>1. ~(k # n)
                BY <1>3, <1>7, <1>9, <1>10, <1>11, <2>2
            <3> QED
                BY <2>2, <3>1
        <2>3. CASE k = n
            <3>1. ~(j # n)
                BY <1>3, <1>7, <1>9, <1>10, <1>11, <2>3
            <3> QED
                BY <2>3, <3>1
        <2> QED
            BY <2>1, <2>2, <2>3
    <1>12. ASSUME NEW j \in 1..n, NEW k \in 1..n, j < k, r[k].request_id[1] # batch
           PROVE  r[j].request_id[1] # batch
        <2>1. k # n
            <3>1. r[n].request_id[1] = batch
                BY <1>3, <1>9
            <3> QED
                BY <1>12, <3>1
        <2>2. j # n
            BY <1>9, <1>12
        <2>3. j + g < k + g
            BY <1>6, <1>9, <1>12
        <2> QED
            BY <1>8, <1>10, <1>12, <2>1, <2>2, <2>3
    <1>13. \A k \in 1..n : r[k].request_id[1] <= batch
        <2>1. r[n].request_id[1] = batch
            BY <1>3, <1>9
        <2>2. batch <= batch
            BY <1>1
        <2> QED
            BY <1>8, <1>10, <2>1, <2>2
    <1>14. CacheInv'
        <2>1. n <= CacheSize
            BY <1>4 DEF n
        <2> QED
            BY <1>1, <1>9, <1>11, <1>12, <1>13, <2>1 DEF CacheInv, r
    <1>15. ServedInv'
        <2>1. DOMAIN served = Slots /\ \A d \in Slots : served[d] # {} =>
                  \E j \in 1..Len(q) : q[j].request_id = <<batch, d>> /\ served[d] = {q[j].server}
            BY <1>1 DEF ManagerInv, ServedInv, Cached, RequestId, q
        <2>2. ASSUME NEW d \in Slots, served'[d] # {}
              PROVE  \E k \in 1..n : r[k].request_id = <<batch, d>> /\ served'[d] = {r[k].server}
            <3>1. CASE d = c
                <4>1. served[c] = {}
                    BY <1>7, <2>1
                <4>2. served'[c] = {LeastLoaded}
                    BY <2>1, <4>1
                <4> QED
                    BY <1>3, <1>9, <3>1, <4>2 DEF e
            <3>2. CASE d # c
                <4>1. served'[d] = served[d]
                    BY <2>1, <3>2
                <4>2. PICK j \in 1..Len(q) : q[j].request_id = <<batch, d>> /\ served[d] = {q[j].server}
                    BY <2>1, <2>2, <4>1
                <4>3. j - g \in 1..Len(m)
                    BY <1>4, <4>2
                <4>4. r[j - g] = q[j] /\ j - g \in 1..n
                    <5>1. r[j - g] = m[j - g] /\ m[j - g] = q[(j - g) + g]
                        BY <1>4, <1>9, <4>3
                    <5>2. (j - g) + g = j
                        BY <1>1, <1>6
                    <5>3. j - g \in 1..n
                        BY <1>4, <4>3 DEF n
                    <5> QED
                        BY <5>1, <5>2, <5>3
                <4> QED
                    BY <4>1, <4>2, <4>4
            <3> QED
                BY <3>1, <3>2
        <2>3. DOMAIN served' = Slots /\ \A d \in Slots : served'[d] \subseteq Servers
            <3>1. \A d \in Slots : served[d] \subseteq Servers
                BY DEF ManagerInv, ServedInv
            <3> QED
                BY <1>2, <2>1, <3>1
        <2> QED
            BY <1>9, <2>2, <2>3 DEF ServedInv, Cached, RequestId, r
    <1>16. HeapInv'
        <2>1. /\ weighted_serveres \in [Servers -> Nat]
              /\ \A s, t \in Servers : weighted_serveres[s] =< weighted_serveres[t] + 1
            BY DEF ManagerInv, HeapInv
        <2> DEFINE l == LeastLoaded
        <2>2. l \in Servers /\ weighted_serveres' = [weighted_serveres EXCEPT ![l] = @ + 1]
            BY <1>2
        <2>3. \A t \in Servers : weighted_serveres[l] <= weighted_serveres[t]
            BY <1>2
        <2> HIDE DEF l
        <2>4. weighted_serveres' \in [Servers -> Nat]
            BY <2>1, <2>2
        <2>5. ASSUME NEW s \in Servers, NEW t \in Servers
              PROVE  weighted_serveres'[s] =< weighted_serveres'[t] + 1
            BY <2>1, <2>2, <2>3
        <2> QED
            BY <2>4, <2>5 DEF HeapInv
    <1> QED
        BY <1>14, <1>15, <1>16 DEF ManagerInv

(* Choosing a server keeps the invariant.                                   *)
LEMMA ManagerChoose ==
    ASSUME ManagerInv, NEW c \in Slots, ChooseServer(c), batch' = batch
    PROVE  ManagerInv'
    <1>1. CASE Cached(RequestId(c)) = {}
        BY <1>1, ManagerMiss DEF ChooseServer
    <1>2. CASE Cached(RequestId(c)) # {}
        <2>1. PICK i \in Cached(RequestId(c)) :
                /\ request_id_to_server' = Append(RemoveAt(request_id_to_server, i), request_id_to_server[i])
                /\ served' = [served EXCEPT ![c] = @ \cup {request_id_to_server[i].server}]
                /\ weighted_serveres' = weighted_serveres
            BY <1>2 DEF ChooseServer
        <2> QED
            BY <2>1, ManagerHit
    <1> QED
        BY <1>1, <1>2

(* Every step keeps the invariant.                                          *)
LEMMA ManagerStep == ManagerInv /\ [Next]_vars => ManagerInv'
    <1> SUFFICES ASSUME ManagerInv, [Next]_vars PROVE ManagerInv'
        OBVIOUS
    <1>1. ASSUME UNCHANGED <<batch, manager>> PROVE ManagerInv'
        BY <1>1 DEF manager, ManagerInv, CacheInv, ServedInv, HeapInv, Cached, RequestId
    <1>2. ASSUME NEW c \in Slots, Generate(c) PROVE ManagerInv'
        BY <1>2, ManagerChoose DEF Generate
    <1>3. CASE NextBatch
        <2>1. /\ batch' = batch + 1 /\ served' = [c \in Slots |-> {}]
              /\ UNCHANGED <<weighted_serveres, request_id_to_server>>
            BY <1>3 DEF NextBatch
        <2>2. batch \in Nat \ {0} /\ \A i \in DOMAIN request_id_to_server :
                  /\ request_id_to_server[i].request_id[1] <= batch
                  /\ request_id_to_server[i].request_id[1] \in Nat
            <3>1. \A i \in DOMAIN request_id_to_server : request_id_to_server[i] \in Entry
                BY DEF ManagerInv, CacheInv
            <3> QED
                BY <3>1 DEF ManagerInv, CacheInv, Entry
        <2>3. CacheInv'
            <3>1. \A i \in DOMAIN request_id_to_server :
                      /\ request_id_to_server[i].request_id[1] <= batch'
                      /\ request_id_to_server[i].request_id[1] # batch'
                BY <2>1, <2>2
            <3>2. batch' \in Nat \ {0}
                BY <2>1, <2>2
            <3> QED
                BY <2>1, <3>1, <3>2 DEF ManagerInv, CacheInv
        <2>4. ServedInv' /\ HeapInv'
            BY <2>1 DEF ManagerInv, ServedInv, HeapInv
        <2> QED
            BY <2>3, <2>4 DEF ManagerInv
    <1>4. CASE GatherOutputs \/ UNCHANGED vars
        BY <1>1, <1>4 DEF GatherOutputs, vars
    <1>5. ASSUME NEW c \in Slots, Converse(c) PROVE ManagerInv'
        BY <1>1, <1>2, <1>5 DEF Converse, HandlePending, HandleGenerating, CallTools, ToolReturns,
            HandleProcessingTools, HandleInteracting
    <1> QED
        BY <1>3, <1>4, <1>5 DEF Next

(* The invariant holds at the start.                                        *)
LEMMA ManagerInit == Init => ManagerInv
    BY SizesOf DEF Init, ManagerInv, CacheInv, ServedInv, HeapInv

(* A conversation stays on its server, also when the cache is full, and     *)
(* servers get as many conversations as one another, give or take one       *)
(* (_choose_server).                                                        *)
THEOREM StickyHolds == Spec => []StickyAndBalanced
    <1>1. ManagerInv => StickyAndBalanced
        <2> SUFFICES ASSUME ManagerInv PROVE StickyAndBalanced
            OBVIOUS
        <2>1. ASSUME NEW c \in Slots PROVE Cardinality(served[c]) =< 1
            <3>1. CASE served[c] = {}
                BY <3>1, FS_EmptySet
            <3>2. CASE served[c] # {}
                <4>1. \E s : served[c] = {s}
                    BY <3>2 DEF ManagerInv, ServedInv
                <4> QED
                    BY <4>1, FS_Singleton
            <3> QED
                BY <3>1, <3>2
        <2> QED
            BY <2>1 DEF StickyAndBalanced, ManagerInv, HeapInv
    <1> QED
        BY <1>1, ManagerInit, ManagerStep, PTL DEF Spec

(* Where a token may come from.                                             *)
Src == {"prompt", "model", "tool", "user"}
(* The states of a conversation.                                            *)
States == {"pending", "generating", "waiting", "processing_tools", "calling", "interacting",
           "terminated", "failed"}
(* What a conversation is made of.                                          *)
Data == [state : States, prompt_ids : Seq(Src), response_mask : Seq({0, 1}),
         response_logprobs : Seq({"real", "zero"}), user_turns : Nat, assistant_turns : Nat,
         tool_calls : Nat, running : Nat]

(* Where the response begins.                                               *)
PromptPart(d) == Len(d.prompt_ids) - Len(d.response_mask)

(* A prompt, then a response whose mask and log-probs stand for its tokens. *)
TextSound(conf, d) ==
    /\ PromptPart(d) >= 1 /\ PromptPart(d) <= PromptLength
    /\ \A i \in 1..PromptPart(d) : d.prompt_ids[i] = "prompt"
    /\ \A i \in 1..Len(d.response_mask) :
          /\ d.prompt_ids[PromptPart(d) + i] # "prompt"
          /\ d.response_mask[i] = IF d.prompt_ids[PromptPart(d) + i] = "model" THEN 1 ELSE 0
    /\ IF conf.logprobs
       THEN /\ Len(d.response_logprobs) = Len(d.response_mask)
            /\ \A i \in 1..Len(d.response_mask) :
                  d.response_logprobs[i] =
                      IF d.prompt_ids[PromptPart(d) + i] = "model" THEN "real" ELSE "zero"
       ELSE d.response_logprobs = <<>>

(* The number of turns that is returned.                                    *)
Turns(d) == d.user_turns + d.assistant_turns + 1

(* Who spoke last.                                                          *)
LastToken(d) == d.prompt_ids[Len(d.prompt_ids)]

(* The changes of speaker can be counted.                                   *)
LEMMA PositionsFinite ==
    ASSUME NEW ids \in Seq(Src)
    PROVE  IsFiniteSet(Positions(ids)) /\ Cardinality(Positions(ids)) \in Nat
    <1>1. DOMAIN ids = 1..Len(ids) /\ Len(ids) \in Nat
        OBVIOUS
    <1>2. IsFiniteSet(DOMAIN ids)
        BY <1>1, FS_Interval
    <1>3. Positions(ids) \subseteq DOMAIN ids
        BY DEF Positions
    <1> QED
        BY <1>2, <1>3, FS_Subset, FS_CardinalityType

(* Another speaker's tokens are one change of speakers more.                *)
LEMMA PositionsGrow ==
    ASSUME NEW ids \in Seq(Src), Len(ids) >= 1, NEW source \in Src, NEW k \in Nat \ {0},
           ids[Len(ids)] # source
    PROVE  LET new == ids \o [i \in 1..k |-> source] IN
           Cardinality(Positions(new)) = Cardinality(Positions(ids)) + 1
    <1> DEFINE run == [i \in 1..k |-> source]
               new == ids \o run
               m == Len(ids)
    <1>1. run \in Seq(Src) /\ Len(run) = k /\ \A i \in 1..k : run[i] = source
        OBVIOUS
    <1> HIDE DEF run
    <1>2. /\ new \in Seq(Src) /\ Len(new) = m + k /\ m \in Nat /\ DOMAIN new = 1..(m + k) /\ DOMAIN ids = 1..m
          /\ \A i \in 1..m : new[i] = ids[i]
          /\ \A i \in (m + 1)..(m + k) : new[i] = source
        <2>1. new \in Seq(Src) /\ Len(new) = m + k /\ m \in Nat /\ DOMAIN ids = 1..m
            BY <1>1
        <2>2. \A i \in 1..m : new[i] = ids[i]
            BY <1>1
        <2>3. ASSUME NEW i \in (m + 1)..(m + k) PROVE new[i] = source
            <3>1. i - m \in 1..k /\ i \in 1..(Len(ids) + Len(run)) /\ ~(i <= Len(ids))
                BY <1>1, <2>1
            <3>2. new[i] = run[i - m]
                BY <1>1, <3>1, ConcatProperties
            <3> QED
                BY <1>1, <3>1, <3>2
        <2> QED
            BY <2>1, <2>2, <2>3
    <1>0. m >= 1 /\ ids[m] # source
        OBVIOUS
    <1> HIDE DEF new, m
    <1>3. Positions(new) = Positions(ids) \cup {m + 1}
        <2>1. ASSUME NEW i \in Positions(new) PROVE i \in Positions(ids) \cup {m + 1}
            <3>1. i \in 1..(m + k) /\ (i = 1 \/ new[i] # new[i - 1])
                BY <1>2, <2>1 DEF Positions
            <3>2. CASE i <= m
                <4>1. i \in 1..m /\ new[i] = ids[i] /\ (i = 1 \/ (i - 1 \in 1..m /\ new[i - 1] = ids[i - 1]))
                    BY <1>2, <3>1, <3>2
                <4> QED
                    BY <1>2, <3>1, <4>1 DEF Positions
            <3>3. CASE i > m + 1
                <4>1. i \in (m + 1)..(m + k) /\ i - 1 \in (m + 1)..(m + k) /\ i # 1
                    BY <1>0, <1>2, <3>1, <3>3
                <4> QED
                    BY <1>2, <3>1, <4>1
            <3> QED
                BY <1>2, <3>1, <3>2, <3>3
        <2>2. ASSUME NEW i \in Positions(ids) PROVE i \in Positions(new)
            <3>1. i \in 1..m /\ (i = 1 \/ ids[i] # ids[i - 1])
                BY <1>2, <2>2 DEF Positions
            <3>2. i \in 1..(m + k) /\ new[i] = ids[i] /\ (i = 1 \/ (i - 1 \in 1..m /\ new[i - 1] = ids[i - 1]))
                BY <1>2, <3>1
            <3> QED
                BY <1>2, <3>1, <3>2 DEF Positions
        <2>3. m + 1 \in Positions(new)
            <3>1. m + 1 \in (m + 1)..(m + k) /\ m \in 1..m /\ (m + 1) - 1 = m /\ m + 1 \in 1..(m + k)
                BY <1>0, <1>2
            <3>2. new[m + 1] # new[m]
                BY <1>0, <1>2, <3>1
            <3> QED
                BY <1>2, <3>1, <3>2 DEF Positions
        <2> QED
            BY <2>1, <2>2, <2>3
    <1>4. m + 1 \notin Positions(ids)
        BY <1>2 DEF Positions
    <1>5. Cardinality(Positions(new)) = Cardinality(Positions(ids)) + 1
        BY <1>3, <1>4, PositionsFinite, FS_AddElement
    <1> QED
        BY <1>5 DEF new, run

(* What the rest of a conversation's handlers rely on: text, mask and        *)
(* log-probs grow together.                                                *)
LEMMA ExtendedSound ==
    ASSUME config.logprobs \in BOOLEAN, NEW d \in Data, TextSound(config, d),
           NEW source \in {"model", "tool", "user"}, NEW k \in Nat \ {0},
           LastToken(d) # source, source # "model" => Len(d.response_mask) >= 1
    PROVE  LET e == Extended(d, source, k) IN
           /\ e \in Data /\ TextSound(config, e)
           /\ Len(e.response_mask) = Len(d.response_mask) + k
           /\ LastToken(e) = source
           /\ Cardinality(Positions(e.prompt_ids)) = Cardinality(Positions(d.prompt_ids)) + 1
           /\ e.user_turns = d.user_turns /\ e.assistant_turns = d.assistant_turns
           /\ e.tool_calls = d.tool_calls /\ e.running = d.running /\ e.state = d.state
    <1> DEFINE run == [i \in 1..k |-> source]
               bits == [i \in 1..k |-> IF source = "model" THEN 1 ELSE 0]
               lps == LogProbs(d, source, k)
               e == Extended(d, source, k)
               ids == d.prompt_ids
               mask == d.response_mask
               lp == d.response_logprobs
               n == Len(mask)
               p == PromptPart(d)
               m == Len(ids)
    <1>1. /\ ids \in Seq(Src) /\ mask \in Seq({0, 1}) /\ lp \in Seq({"real", "zero"})
        BY DEF Data
    <1>2. m \in Nat /\ n \in Nat /\ p = m - n /\ p >= 1 /\ p <= PromptLength
        <2>1. m \in Nat /\ n \in Nat
            BY <1>1
        <2>2. p = m - n
            BY DEF PromptPart
        <2>3. p >= 1 /\ p <= PromptLength
            BY DEF TextSound
        <2> QED
            BY <2>1, <2>2, <2>3
    <1>3. /\ run \in Seq(Src) /\ Len(run) = k /\ \A i \in 1..k : run[i] = source
        BY DEF Src
    <1>4. /\ bits \in Seq({0, 1}) /\ Len(bits) = k
          /\ \A i \in 1..k : bits[i] = IF source = "model" THEN 1 ELSE 0
        OBVIOUS
    <1>5. /\ lps \in Seq({"real", "zero"})
          /\ config.logprobs => /\ Len(lps) = k
                                /\ \A i \in 1..k : lps[i] = IF source = "model" THEN "real" ELSE "zero"
          /\ ~config.logprobs => lps = <<>>
        <2>1. CASE config.logprobs /\ source = "model"
            <3>1. lps = [i \in 1..k |-> "real"]
                BY <2>1 DEF LogProbs
            <3> HIDE DEF lps
            <3> QED
                BY <2>1, <3>1
        <2>2. CASE config.logprobs /\ source # "model"
            <3>1. Len(lp) >= 1
                BY <2>2 DEF TextSound
            <3>2. lp # <<>>
                BY <1>1, <3>1, EmptySeq
            <3>3. lps = [i \in 1..k |-> "zero"]
                BY <2>2, <3>2 DEF LogProbs
            <3> HIDE DEF lps
            <3> QED
                BY <2>2, <3>3
        <2>3. CASE ~config.logprobs
            <3>1. lp = <<>>
                BY <2>3 DEF TextSound
            <3>2. lps = <<>>
                BY <2>3, <3>1 DEF LogProbs
            <3> HIDE DEF lps
            <3> QED
                BY <2>3, <3>2
        <2> QED
            BY <2>1, <2>2, <2>3
    <1>6. /\ e.prompt_ids = ids \o run /\ e.response_mask = mask \o bits
          /\ e.response_logprobs = lp \o lps
          /\ e.user_turns = d.user_turns /\ e.assistant_turns = d.assistant_turns
          /\ e.tool_calls = d.tool_calls /\ e.running = d.running /\ e.state = d.state
          /\ e = [d EXCEPT !.prompt_ids = ids \o run, !.response_mask = mask \o bits,
                           !.response_logprobs = lp \o lps]
        <2>1. e = [d EXCEPT !.prompt_ids = ids \o run, !.response_mask = mask \o bits,
                            !.response_logprobs = lp \o lps]
            BY DEF Extended
        <2> HIDE DEF e, run, bits, lps
        <2> QED
            BY <2>1 DEF Data
    <1>7. Cardinality(Positions(ids \o run)) = Cardinality(Positions(ids)) + 1
        <2>1. m >= 1 /\ ids[m] # source /\ source \in Src
            BY <1>2 DEF LastToken, Src
        <2> QED
            BY <1>1, <2>1, PositionsGrow
    <1>8. PromptLength \in Nat
        BY SizesOf
    <1> HIDE DEF run, bits, lps, e
    <1>9. /\ ids \o run \in Seq(Src) /\ Len(ids \o run) = m + k
          /\ \A i \in 1..m : (ids \o run)[i] = ids[i]
          /\ \A i \in 1..k : (ids \o run)[m + i] = source
        <2>1. ASSUME NEW i \in 1..k PROVE (ids \o run)[m + i] = run[i]
            <3>1. m + i \in 1..(Len(ids) + Len(run)) /\ ~(m + i <= Len(ids)) /\ (m + i) - Len(ids) = i
                BY <1>2, <1>3
            <3>2. ids \in Seq(Src) /\ run \in Seq(Src)
                BY <1>1, <1>3
            <3>3. \A j \in 1..(Len(ids) + Len(run)) :
                      (ids \o run)[j] = IF j <= Len(ids) THEN ids[j] ELSE run[j - Len(ids)]
                BY <3>2, ConcatProperties
            <3> HIDE DEF m, ids
            <3> QED
                BY <3>1, <3>3
        <2>2. ids \o run \in Seq(Src) /\ Len(ids \o run) = m + k
            <3>0. ids \in Seq(Src) /\ run \in Seq(Src)
                BY <1>1, <1>3
            <3>1. ids \o run \in Seq(Src) /\ Len(ids \o run) = Len(ids) + Len(run)
                <4> HIDE DEF m, ids
                <4> QED
                    BY <3>0, ConcatProperties
            <3> QED
                BY <1>3, <3>1
        <2>3. ASSUME NEW i \in 1..m PROVE (ids \o run)[i] = ids[i]
            <3>1. i \in 1..(Len(ids) + Len(run)) /\ i <= Len(ids)
                BY <1>2, <1>3
            <3> QED
                BY <1>1, <1>3, <3>1, ConcatProperties
        <2> HIDE DEF m, ids
        <2> QED
            BY <1>3, <2>1, <2>2, <2>3
    <1>10. /\ mask \o bits \in Seq({0, 1}) /\ Len(mask \o bits) = n + k
           /\ \A i \in 1..n : (mask \o bits)[i] = mask[i]
           /\ \A i \in 1..k : (mask \o bits)[n + i] = IF source = "model" THEN 1 ELSE 0
        <2>1. ASSUME NEW i \in 1..k PROVE (mask \o bits)[n + i] = bits[i]
            <3>1. n + i \in 1..(Len(mask) + Len(bits)) /\ ~(n + i <= Len(mask)) /\ (n + i) - Len(mask) = i
                BY <1>2, <1>4
            <3> QED
                BY <1>1, <1>4, <3>1, ConcatProperties
        <2>2. mask \o bits \in Seq({0, 1}) /\ Len(mask \o bits) = n + k
            BY <1>1, <1>4, ConcatProperties
        <2>3. ASSUME NEW i \in 1..n PROVE (mask \o bits)[i] = mask[i]
            <3>1. i \in 1..(Len(mask) + Len(bits)) /\ i <= Len(mask)
                BY <1>2, <1>4
            <3> QED
                BY <1>1, <1>4, <3>1, ConcatProperties
        <2> HIDE DEF n, mask
        <2> QED
            BY <1>4, <2>1, <2>2, <2>3
    <1>11. /\ lp \o lps \in Seq({"real", "zero"})
           /\ config.logprobs =>
                 /\ Len(lp) = n /\ Len(lp \o lps) = n + k
                 /\ \A i \in 1..n : (lp \o lps)[i] = lp[i]
                 /\ \A i \in 1..k : (lp \o lps)[n + i] = IF source = "model" THEN "real" ELSE "zero"
           /\ ~config.logprobs => lp \o lps = <<>>
        <2>1. lp \o lps \in Seq({"real", "zero"}) /\ Len(lp \o lps) = Len(lp) + Len(lps)
            BY <1>1, <1>5
        <2>2. CASE config.logprobs
            <3>1. Len(lp) = n
                BY <2>2 DEF TextSound
            <3>2. ASSUME NEW i \in 1..k PROVE (lp \o lps)[n + i] = lps[i]
                <4>0. Len(lps) = k
                    BY <1>5, <2>2
                <4>1. n + i \in 1..(Len(lp) + Len(lps)) /\ ~(n + i <= Len(lp)) /\ (n + i) - Len(lp) = i
                    <5> HIDE DEF n, lp
                    <5> QED
                        BY <1>2, <3>1, <4>0
                <4>2. lp \in Seq({"real", "zero"}) /\ lps \in Seq({"real", "zero"})
                    BY <1>1, <1>5
                <4>3. \A j \in 1..(Len(lp) + Len(lps)) :
                          (lp \o lps)[j] = IF j <= Len(lp) THEN lp[j] ELSE lps[j - Len(lp)]
                    BY <4>2, ConcatProperties
                <4> HIDE DEF n, lp
                <4> QED
                    BY <4>1, <4>3
            <3>3. \A i \in 1..n : (lp \o lps)[i] = lp[i]
                BY <1>1, <1>5, <3>1
            <3> QED
                BY <1>5, <2>1, <2>2, <3>1, <3>2, <3>3
        <2>3. CASE ~config.logprobs
            <3>1. lp = <<>> /\ lps = <<>>
                BY <1>5, <2>3 DEF TextSound
            <3>2. Len(lp \o lps) = 0
                BY <2>1, <3>1
            <3> QED
                BY <2>1, <2>3, <3>2, EmptySeq
        <2> QED
            BY <2>2, <2>3
    <1>12. e \in Data
        BY <1>6, <1>9, <1>10, <1>11 DEF Data
    <1>13. PromptPart(e) = p /\ Len(e.prompt_ids) = m + k /\ Len(e.response_mask) = n + k
        <2>1. Len(e.prompt_ids) = m + k /\ Len(e.response_mask) = n + k
            BY <1>6, <1>9, <1>10
        <2>2. PromptPart(e) = Len(e.prompt_ids) - Len(e.response_mask)
            BY DEF PromptPart
        <2> HIDE DEF m, n, p
        <2> QED
            BY <1>2, <2>1, <2>2
    <1>14. TextSound(config, e)
        <2> HIDE DEF ids, mask, lp, n, p, m
        <2>0. /\ \A i \in 1..p : ids[i] = "prompt"
              /\ \A i \in 1..n : /\ ids[p + i] # "prompt"
                                 /\ mask[i] = IF ids[p + i] = "model" THEN 1 ELSE 0
              /\ config.logprobs => \A i \in 1..n : lp[i] = IF ids[p + i] = "model" THEN "real" ELSE "zero"
            BY DEF TextSound, ids, mask, lp, n, p
        <2>1. ASSUME NEW i \in 1..p PROVE e.prompt_ids[i] = "prompt"
            <3>1. i \in 1..m
                BY <1>2
            <3> QED
                BY <1>6, <1>9, <2>0, <3>1
        <2>2. ASSUME NEW i \in 1..(n + k)
              PROVE  /\ e.prompt_ids[p + i] # "prompt"
                     /\ e.response_mask[i] = IF e.prompt_ids[p + i] = "model" THEN 1 ELSE 0
                     /\ config.logprobs =>
                          e.response_logprobs[i] = IF e.prompt_ids[p + i] = "model" THEN "real" ELSE "zero"
            <3>1. CASE i <= n
                <4>1. i \in 1..n /\ p + i \in 1..m
                    BY <1>2, <3>1
                <4>2. e.prompt_ids[p + i] = ids[p + i] /\ e.response_mask[i] = mask[i]
                      /\ (config.logprobs => e.response_logprobs[i] = lp[i])
                    BY <1>6, <1>9, <1>10, <1>11, <4>1
                <4> QED
                    BY <2>0, <4>1, <4>2
            <3>2. CASE i > n
                <4>1. i - n \in 1..k /\ p + i = m + (i - n) /\ i = n + (i - n)
                    BY <1>2, <3>2
                <4>2. e.prompt_ids[m + (i - n)] = source
                    BY <1>6, <1>9, <4>1
                <4>3. e.response_mask[n + (i - n)] = IF source = "model" THEN 1 ELSE 0
                    BY <1>6, <1>10, <4>1
                <4>4. config.logprobs =>
                        e.response_logprobs[n + (i - n)] = IF source = "model" THEN "real" ELSE "zero"
                    BY <1>6, <1>11, <4>1
                <4>5. e.prompt_ids[p + i] = source /\ source # "prompt"
                    BY <4>1, <4>2
                <4>6. e.response_mask[i] = e.response_mask[n + (i - n)]
                      /\ e.response_logprobs[i] = e.response_logprobs[n + (i - n)]
                    BY <4>1
                <4> QED
                    BY <4>3, <4>4, <4>5, <4>6
            <3> QED
                BY <1>2, <3>1, <3>2
        <2>3. config.logprobs => Len(e.response_logprobs) = n + k
            BY <1>6, <1>11
        <2>4. ~config.logprobs => e.response_logprobs = <<>>
            BY <1>6, <1>11
        <2> QED
            BY <1>2, <1>13, <2>1, <2>2, <2>3, <2>4 DEF TextSound
    <1>15. LastToken(e) = source
        <2>1. k \in 1..k
            OBVIOUS
        <2> QED
            BY <1>6, <1>9, <2>1 DEF LastToken
    <1> QED
        BY <1>6, <1>7, <1>12, <1>13, <1>14, <1>15 DEF e

(* What the handlers rely on in each state: the text is sound and its turns *)
(* are counted, the model never speaks twice in a row, and only an          *)
(* interaction fills the response while the conversation goes on.           *)
ConvOf(conf, d) ==
    /\ d \in Data
    /\ d.state = "pending" => d = AgentData
    /\ d.state # "pending" => /\ TextSound(conf, d)
                              /\ Turns(d) = Cardinality(Positions(d.prompt_ids))
    /\ d.state \in {"generating", "waiting"} =>
          /\ LastToken(d) # "model"
          /\ ~conf.interaction => Len(d.response_mask) < ResponseLength
    /\ d.state \in {"processing_tools", "calling", "interacting"} =>
          LastToken(d) = "model" /\ Len(d.response_mask) >= 1
    /\ d.state = "terminated" => Len(d.response_mask) >= 1
    /\ d.state \in {"interacting", "failed"} => conf.interaction

(* The inductive invariant of the conversations.                            *)
ConvInv ==
    /\ config \in Configs
    /\ DOMAIN agent_data = Slots
    /\ \A c \in Slots : ConvOf(config, agent_data[c])

(* The fields of a configuration.                                           *)
LEMMA ConfigIs ==
    ASSUME config \in Configs
    PROVE  /\ config.interaction \in BOOLEAN /\ config.logprobs \in BOOLEAN
           /\ config.max_assistant_turns \in Nat /\ config.max_user_turns \in Nat
    BY LoopAssumption

(* A new conversation is as ConvOf says.                                    *)
LEMMA PendingIs == ConvOf(config, AgentData)
    <1>1. <<>> \in Seq(Src) /\ <<>> \in Seq({0, 1}) /\ <<>> \in Seq({"real", "zero"}) /\ 0 \in Nat
        OBVIOUS
    <1>2. AgentData \in Data /\ AgentData.state = "pending"
        BY <1>1 DEF AgentData, Data, States
    <1> QED
        BY <1>2 DEF ConvOf

(* A step of one conversation keeps what holds of the others.               *)
LEMMA OneChanges ==
    ASSUME ConvInv, config' = config, NEW c \in Slots, NEW e, ConvOf(config, e),
           agent_data' = [agent_data EXCEPT ![c] = e]
    PROVE  ConvInv'
    <1>1. DOMAIN agent_data' = Slots /\ \A b \in Slots : agent_data'[b] = IF b = c THEN e ELSE agent_data[b]
        BY DEF ConvInv
    <1>2. \A b \in Slots : ConvOf(config', agent_data'[b])
        BY <1>1 DEF ConvInv
    <1> QED
        BY <1>1, <1>2 DEF ConvInv

(* HandlePending keeps the invariant: the prompt is one turn.               *)
LEMMA PendingStep ==
    ASSUME ConvInv, NEW c \in Slots, HandlePending(c)
    PROVE  ConvInv'
    <1>1. PICK n \in 1..PromptLength :
              agent_data' = [agent_data EXCEPT ![c].state = "generating",
                                               ![c].prompt_ids = [i \in 1..n |-> "prompt"]]
        BY DEF HandlePending
    <1> DEFINE ids == [i \in 1..n |-> "prompt"]
               d == agent_data[c]
               e == [d EXCEPT !.state = "generating", !.prompt_ids = ids]
    <1>2. agent_data' = [agent_data EXCEPT ![c] = e] /\ config' = config
        BY <1>1 DEF HandlePending, ConvInv
    <1>3. n \in Nat /\ n >= 1 /\ n <= PromptLength /\ PromptLength \in Nat /\ ResponseLength \in Nat \ {0}
        BY SizesOf
    <1>4. ids \in Seq(Src) /\ Len(ids) = n /\ \A i \in 1..n : ids[i] = "prompt"
        BY <1>3 DEF Src
    <1>5. d = AgentData
        BY DEF HandlePending, ConvInv, ConvOf
    <1> HIDE DEF ids
    <1>6. /\ e \in Data /\ e.state = "generating" /\ e.prompt_ids = ids /\ e.response_mask = <<>>
          /\ e.response_logprobs = <<>> /\ e.user_turns = 0 /\ e.assistant_turns = 0
        <2>1. /\ d \in Data /\ d.response_mask = <<>> /\ d.response_logprobs = <<>>
              /\ d.user_turns = 0 /\ d.assistant_turns = 0
            <3>1. d \in Data
                BY DEF ConvInv, ConvOf
            <3> QED
                BY <1>5, <3>1 DEF AgentData
        <2> HIDE DEF d
        <2> QED
            BY <1>4, <2>1 DEF Data, States
    <1> HIDE DEF d, e
    <1>7. e \in Data
        BY <1>6
    <1>8. PromptPart(e) = n /\ Len(e.response_mask) = 0 /\ Len(e.response_logprobs) = 0
        <2>1. Len(e.response_mask) = 0 /\ Len(e.response_logprobs) = 0 /\ Len(e.prompt_ids) = n
            BY <1>4, <1>6
        <2> QED
            BY <1>3, <2>1 DEF PromptPart
    <1>9. TextSound(config, e)
        <2>1. \A i \in 1..n : e.prompt_ids[i] = "prompt"
            BY <1>4, <1>6
        <2>2. 1..Len(e.response_mask) = {}
            BY <1>8
        <2>3. e.response_logprobs = <<>>
            BY <1>6
        <2> QED
            BY <1>3, <1>8, <2>1, <2>2, <2>3 DEF TextSound
    <1>10. Turns(e) = 1
        BY <1>6 DEF Turns
    <1>11. Cardinality(Positions(ids)) = 1
        <2>1. DOMAIN ids = 1..n
            BY <1>4
        <2>2. \A i \in 1..n : i # 1 => i - 1 \in 1..n
            BY <1>3
        <2>3. \A i \in 1..n : i # 1 => ids[i] = ids[i - 1]
            BY <1>4, <2>2
        <2>4. 1 \in 1..n
            BY <1>3
        <2>5. Positions(ids) = {1}
            BY <2>1, <2>3, <2>4 DEF Positions
        <2> QED
            BY <2>5, FS_Singleton
    <1>12. LastToken(e) = "prompt"
        <2>1. n \in 1..n
            BY <1>3
        <2> QED
            BY <1>4, <1>6, <2>1 DEF LastToken
    <1>13. e.state = "generating" /\ e.prompt_ids = ids
        BY <1>6
    <1>14. ConvOf(config, e)
        BY <1>3, <1>7, <1>8, <1>9, <1>10, <1>11, <1>12, <1>13 DEF ConvOf
    <1> QED
        BY <1>2, <1>14, OneChanges

(* Nothing but the state and the counters of calls changes.                 *)
LEMMA SameText ==
    ASSUME NEW conf, NEW d \in Data, NEW e \in Data,
           e.prompt_ids = d.prompt_ids, e.response_mask = d.response_mask,
           e.response_logprobs = d.response_logprobs,
           e.user_turns = d.user_turns, e.assistant_turns = d.assistant_turns
    PROVE  /\ TextSound(conf, d) => TextSound(conf, e)
           /\ Turns(e) = Turns(d) /\ LastToken(e) = LastToken(d)
    <1>1. PromptPart(e) = PromptPart(d)
        BY DEF PromptPart
    <1> QED
        BY <1>1 DEF TextSound, Turns, LastToken

(* Generate keeps the invariant: without an interaction the window has room. *)
LEMMA GenerateStep ==
    ASSUME ConvInv, NEW c \in Slots, Generate(c)
    PROVE  ConvInv'
    <1> DEFINE d == agent_data[c]
               s == IF Len(d.prompt_ids) < max_model_len THEN "waiting" ELSE "failed"
               e == [d EXCEPT !.state = s]
    <1>1. agent_data' = [agent_data EXCEPT ![c] = e] /\ config' = config /\ d.state = "generating"
        BY DEF Generate, ConvInv
    <1>2. ConvOf(config, d) /\ d \in Data /\ config \in Configs
        BY DEF ConvInv, ConvOf
    <1>3. /\ TextSound(config, d) /\ Turns(d) = Cardinality(Positions(d.prompt_ids))
          /\ LastToken(d) # "model"
          /\ ~config.interaction => Len(d.response_mask) < ResponseLength
        BY <1>1, <1>2 DEF ConvOf
    <1>4. s = "failed" => config.interaction
        <2>1. ASSUME ~config.interaction PROVE Len(d.prompt_ids) < max_model_len
            <3>1. Len(d.prompt_ids) \in Nat /\ Len(d.response_mask) \in Nat
                BY <1>2 DEF Data
            <3>2. Len(d.prompt_ids) - Len(d.response_mask) <= PromptLength
                BY <1>3 DEF TextSound, PromptPart
            <3>3. Len(d.response_mask) < ResponseLength
                BY <1>3, <2>1
            <3> HIDE DEF d
            <3> QED
                BY <3>1, <3>2, <3>3, SizesOf
        <2> QED
            BY <2>1
    <1>5. s \in {"waiting", "failed"}
        OBVIOUS
    <1> HIDE DEF d, s
    <1>6. /\ e \in Data /\ e.state = s /\ e.prompt_ids = d.prompt_ids
          /\ e.response_mask = d.response_mask /\ e.response_logprobs = d.response_logprobs
          /\ e.user_turns = d.user_turns /\ e.assistant_turns = d.assistant_turns
        BY <1>2, <1>5 DEF Data, States
    <1> HIDE DEF e
    <1>7. TextSound(config, e) /\ Turns(e) = Turns(d) /\ LastToken(e) = LastToken(d)
        BY <1>2, <1>3, <1>6, SameText
    <1>8. ConvOf(config, e)
        BY <1>3, <1>4, <1>5, <1>6, <1>7 DEF ConvOf
    <1> QED
        BY <1>1, <1>8, OneChanges

(* Calling tools keeps the invariant: the text does not change.             *)
LEMMA CallsStep ==
    ASSUME ConvInv, NEW c \in Slots, CallTools(c) \/ ToolReturns(c)
    PROVE  ConvInv'
    <1> DEFINE d == agent_data[c]
    <1>1. ConvOf(config, d) /\ d \in Data /\ config \in Configs
        BY DEF ConvInv, ConvOf
    <1>2. PICK k \in Nat : LET e == [d EXCEPT !.state = "calling", !.running = k] IN
              /\ agent_data' = [agent_data EXCEPT ![c] = e]
              /\ d.state \in {"processing_tools", "calling"} /\ config' = config
        <2>1. CASE CallTools(c)
            <3>1. Launched(d) \in Nat
                BY <1>1, LoopAssumption DEF Launched, Data
            <3>2. agent_data' = [agent_data EXCEPT ![c] = [d EXCEPT !.state = "calling", !.running = Launched(d)]]
                BY <2>1 DEF CallTools, ConvInv
            <3> QED
                BY <2>1, <3>1, <3>2 DEF CallTools
        <2>2. CASE ToolReturns(c)
            <3>1. d.running \in Nat /\ d.running > 0
                BY <1>1, <2>2 DEF Data, ToolReturns
            <3>2. d.running - 1 \in Nat
                <4> HIDE DEF d
                <4> QED
                    BY <3>1
            <3>3. agent_data' = [agent_data EXCEPT ![c] = [d EXCEPT !.running = d.running - 1]]
                BY <2>2 DEF ToolReturns, ConvInv
            <3>4. d.state = "calling"
                BY <2>2 DEF ToolReturns
            <3>5. [d EXCEPT !.running = d.running - 1] = [d EXCEPT !.state = "calling", !.running = d.running - 1]
                <4> DEFINE k == d.running - 1
                <4> HIDE DEF k, d
                <4> QED
                    BY <1>1, <3>4 DEF Data
            <3> QED
                BY <2>2, <3>2, <3>3, <3>4, <3>5 DEF ToolReturns
        <2> QED
            BY <2>1, <2>2
    <1> DEFINE e == [d EXCEPT !.state = "calling", !.running = k]
    <1> HIDE DEF d
    <1>3. /\ e \in Data /\ e.state = "calling" /\ e.prompt_ids = d.prompt_ids
          /\ e.response_mask = d.response_mask /\ e.response_logprobs = d.response_logprobs
          /\ e.user_turns = d.user_turns /\ e.assistant_turns = d.assistant_turns
        BY <1>1 DEF Data, States
    <1>4. agent_data' = [agent_data EXCEPT ![c] = e] /\ config' = config
        BY <1>2
    <1> HIDE DEF e
    <1>5. TextSound(config, d) /\ Turns(d) = Cardinality(Positions(d.prompt_ids))
          /\ LastToken(d) = "model" /\ Len(d.response_mask) >= 1
        BY <1>1, <1>2 DEF ConvOf
    <1>6. TextSound(config, e) /\ Turns(e) = Turns(d) /\ LastToken(e) = LastToken(d)
        BY <1>1, <1>3, <1>5, SameText
    <1>7. ConvOf(config, e)
        BY <1>3, <1>5, <1>6 DEF ConvOf
    <1> QED
        BY <1>4, <1>7, OneChanges

(* A text that is the same is sound as before, whoever counts the turns.    *)
LEMMA UntouchedText ==
    ASSUME NEW conf, NEW d \in Data, NEW e \in Data,
           e.prompt_ids = d.prompt_ids, e.response_mask = d.response_mask,
           e.response_logprobs = d.response_logprobs
    PROVE  /\ TextSound(conf, d) => TextSound(conf, e)
           /\ LastToken(e) = LastToken(d)
    <1>1. PromptPart(e) = PromptPart(d)
        BY DEF PromptPart
    <1> QED
        BY <1>1 DEF TextSound, LastToken

(* A conversation that is extended goes on from a sound one.                *)
LEMMA GeneratingStep ==
    ASSUME ConvInv, NEW c \in Slots, HandleGenerating(c)
    PROVE  ConvInv'
    <1> DEFINE d == agent_data[c]
    <1>1. ConvOf(config, d) /\ d \in Data /\ config \in Configs /\ d.state = "waiting" /\ config' = config
        BY DEF ConvInv, ConvOf, HandleGenerating
    <1>2. PICK n \in 1..(max_model_len - Len(d.prompt_ids)) :
              LET x == [Extended(d, "model", n) EXCEPT !.assistant_turns = @ + 1]
              IN  IF Len(x.response_mask) >= ResponseLength \/ TurnsUsedUp(x)
                  THEN agent_data' = [agent_data EXCEPT ![c] = [x EXCEPT !.state = "terminated"]]
                  ELSE \E calls \in 0..MaxCalls :
                         LET y == [x EXCEPT !.tool_calls = calls]
                         IN  agent_data' = [agent_data EXCEPT ![c] = [y EXCEPT !.state = AfterAnswer(y)]]
        BY DEF HandleGenerating
    <1> DEFINE w == Extended(d, "model", n)
               x == [w EXCEPT !.assistant_turns = @ + 1]
    <1>3. n \in Nat \ {0}
        <2>1. Len(d.prompt_ids) \in Nat
            BY <1>1 DEF Data
        <2> HIDE DEF d
        <2> QED
            BY <2>1, SizesOf
    <1>4. TextSound(config, d) /\ Turns(d) = Cardinality(Positions(d.prompt_ids)) /\ LastToken(d) # "model"
        BY <1>1 DEF ConvOf
    <1>5. /\ w \in Data /\ TextSound(config, w)
          /\ Len(w.response_mask) = Len(d.response_mask) + n
          /\ LastToken(w) = "model"
          /\ Cardinality(Positions(w.prompt_ids)) = Cardinality(Positions(d.prompt_ids)) + 1
          /\ w.user_turns = d.user_turns /\ w.assistant_turns = d.assistant_turns
        BY <1>1, <1>3, <1>4, ConfigIs, ExtendedSound
    <1> DEFINE t == w.assistant_turns + 1
    <1>6. x = [w EXCEPT !.assistant_turns = t] /\ t \in Nat
        <2>1. w.assistant_turns \in Nat
            BY <1>5 DEF Data
        <2> HIDE DEF w
        <2> QED
            BY <2>1
    <1>7. PICK calls \in Nat, s \in States :
              /\ agent_data' = [agent_data EXCEPT ![c] =
                     [w EXCEPT !.assistant_turns = t, !.tool_calls = calls, !.state = s]]
              /\ s \in {"terminated", "processing_tools", "interacting"}
              /\ s = "interacting" => config.interaction
        <2> HIDE DEF w, t, d
        <2>1. CASE Len(x.response_mask) >= ResponseLength \/ TurnsUsedUp(x)
            <3>1. agent_data' = [agent_data EXCEPT ![c] = [x EXCEPT !.state = "terminated"]]
                BY <1>2, <2>1 DEF w
            <3>2. w.tool_calls \in Nat
                BY <1>5 DEF Data
            <3>3. [x EXCEPT !.state = "terminated"] =
                  [w EXCEPT !.assistant_turns = t, !.tool_calls = w.tool_calls, !.state = "terminated"]
                <4>1. w \in Data /\ x = [w EXCEPT !.assistant_turns = t]
                    BY <1>5, <1>6
                <4> HIDE DEF x
                <4> QED
                    BY <4>1 DEF Data
            <3>4. "terminated" \in States
                BY DEF States
            <3> QED
                BY <3>1, <3>2, <3>3, <3>4
        <2>2. CASE ~(Len(x.response_mask) >= ResponseLength \/ TurnsUsedUp(x))
            <3>1. PICK calls \in 0..MaxCalls :
                     LET y == [x EXCEPT !.tool_calls = calls]
                     IN  agent_data' = [agent_data EXCEPT ![c] = [y EXCEPT !.state = AfterAnswer(y)]]
                BY <1>2, <2>2 DEF w
            <3> DEFINE y == [x EXCEPT !.tool_calls = calls]
                       s == AfterAnswer(y)
            <3>2. calls \in Nat
                BY LoopAssumption
            <3>3. /\ s \in States /\ s \in {"terminated", "processing_tools", "interacting"}
                  /\ s = "interacting" => config.interaction
                <4> HIDE DEF y
                <4> QED
                    BY DEF AfterAnswer, States
            <3> HIDE DEF s
            <3>4. [y EXCEPT !.state = s] =
                  [w EXCEPT !.assistant_turns = t, !.tool_calls = calls, !.state = s]
                <4>1. w \in Data /\ x = [w EXCEPT !.assistant_turns = t]
                    BY <1>5, <1>6
                <4> HIDE DEF x
                <4> QED
                    BY <4>1 DEF Data
            <3>5. agent_data' = [agent_data EXCEPT ![c] = [y EXCEPT !.state = s]]
                BY <3>1 DEF s
            <3> QED
                BY <3>2, <3>3, <3>4, <3>5
        <2> QED
            BY <2>1, <2>2
    <1> DEFINE e == [w EXCEPT !.assistant_turns = t, !.tool_calls = calls, !.state = s]
    <1>8. agent_data' = [agent_data EXCEPT ![c] = e]
        BY <1>7
    <1> HIDE DEF w, x
    <1>9. /\ e \in Data /\ e.state = s /\ e.prompt_ids = w.prompt_ids
          /\ e.response_mask = w.response_mask /\ e.response_logprobs = w.response_logprobs
          /\ e.user_turns = w.user_turns /\ e.assistant_turns = t
        <2> HIDE DEF t
        <2> QED
            BY <1>5, <1>6 DEF Data
    <1>10. TextSound(config, e) /\ LastToken(e) = LastToken(w)
        BY <1>5, <1>9, UntouchedText
    <1>11. Turns(e) = Turns(d) + 1
        <2>1. d.user_turns \in Nat /\ d.assistant_turns \in Nat
            BY <1>1 DEF Data
        <2>2. e.user_turns = d.user_turns /\ e.assistant_turns = d.assistant_turns + 1
            BY <1>5, <1>9
        <2> HIDE DEF d, e
        <2> QED
            BY <2>1, <2>2 DEF Turns
    <1>12. Turns(e) = Cardinality(Positions(e.prompt_ids))
        BY <1>4, <1>5, <1>9, <1>11
    <1>13. Len(e.response_mask) >= 1
        <2>1. Len(d.response_mask) \in Nat
            BY <1>1 DEF Data
        <2>2. Len(e.response_mask) = Len(d.response_mask) + n
            BY <1>5, <1>9
        <2> HIDE DEF d, e
        <2> QED
            BY <1>3, <2>1, <2>2
    <1> HIDE DEF e, d, t
    <1>14. ConvOf(config, e)
        BY <1>5, <1>7, <1>9, <1>10, <1>12, <1>13 DEF ConvOf
    <1> QED
        BY <1>1, <1>8, <1>14, OneChanges

(* The environment's turn: tool or user, after which the model goes on or    *)
(* the conversation ends.                                                  *)
LEMMA EnvironmentTurn ==
    ASSUME NEW d, config \in Configs, ConvOf(config, d), d.state \in {"calling", "interacting"},
           NEW source \in {"tool", "user"}, NEW n \in Nat \ {0}, NEW s \in {"generating", "terminated"},
           NEW e, e = [Extended(d, source, n) EXCEPT !.user_turns = @ + 1, !.state = s],
           s = "generating" /\ ~config.interaction => Len(d.response_mask) + n < ResponseLength
    PROVE  ConvOf(config, e)
    <1> DEFINE w == Extended(d, source, n)
               t == w.user_turns + 1
    <1>1. /\ d \in Data /\ TextSound(config, d) /\ Turns(d) = Cardinality(Positions(d.prompt_ids))
          /\ LastToken(d) = "model" /\ Len(d.response_mask) >= 1
        BY DEF ConvOf
    <1>2. source \in {"model", "tool", "user"} /\ LastToken(d) # source
        BY <1>1
    <1>3. /\ w \in Data /\ TextSound(config, w)
          /\ Len(w.response_mask) = Len(d.response_mask) + n
          /\ LastToken(w) = source
          /\ Cardinality(Positions(w.prompt_ids)) = Cardinality(Positions(d.prompt_ids)) + 1
          /\ w.user_turns = d.user_turns /\ w.assistant_turns = d.assistant_turns
        BY <1>1, <1>2, ConfigIs, ExtendedSound
    <1>4. e = [w EXCEPT !.user_turns = t, !.state = s]
        OBVIOUS
    <1> HIDE DEF w
    <1>5. t \in Nat
        BY <1>3 DEF Data
    <1>6. /\ e \in Data /\ e.state = s /\ e.prompt_ids = w.prompt_ids
          /\ e.response_mask = w.response_mask /\ e.response_logprobs = w.response_logprobs
          /\ e.user_turns = t /\ e.assistant_turns = w.assistant_turns
        <2> HIDE DEF t
        <2> QED
            BY <1>3, <1>4, <1>5 DEF Data, States
    <1>7. TextSound(config, e) /\ LastToken(e) = LastToken(w)
        BY <1>3, <1>6, UntouchedText
    <1>8. d.user_turns \in Nat /\ d.assistant_turns \in Nat /\ Len(d.response_mask) \in Nat
        BY <1>1 DEF Data
    <1>9. Turns(e) = Turns(d) + 1
        <2>1. e.user_turns = d.user_turns + 1 /\ e.assistant_turns = d.assistant_turns
            BY <1>3, <1>6
        <2> QED
            BY <1>8, <2>1 DEF Turns
    <1>10. Turns(e) = Cardinality(Positions(e.prompt_ids))
        BY <1>1, <1>3, <1>6, <1>9
    <1>11. Len(e.response_mask) = Len(d.response_mask) + n
        BY <1>3, <1>6
    <1>12. Len(e.response_mask) >= 1
        BY <1>8, <1>11
    <1>13. LastToken(e) # "model"
        BY <1>3, <1>7
    <1> QED
        BY <1>6, <1>7, <1>10, <1>11, <1>12, <1>13 DEF ConvOf

(* HandleProcessingTools keeps the invariant: a tool's answer that would    *)
(* fill the response is refused.                                            *)
LEMMA ToolsStep ==
    ASSUME ConvInv, NEW c \in Slots, HandleProcessingTools(c)
    PROVE  ConvInv'
    <1> DEFINE d == agent_data[c]
    <1>1. ConvOf(config, d) /\ d \in Data /\ config \in Configs /\ d.state = "calling" /\ config' = config
        BY DEF ConvInv, ConvOf, HandleProcessingTools
    <1>2. PICK n \in 1..MaxTokens :
              agent_data' = [agent_data EXCEPT ![c] =
                  IF TooLong(d, n) THEN [d EXCEPT !.state = "terminated"]
                  ELSE [Extended(d, "tool", n) EXCEPT !.state = "generating", !.user_turns = @ + 1]]
        BY DEF HandleProcessingTools
    <1>3. n \in Nat \ {0}
        BY SizesOf
    <1> HIDE DEF d
    <1>4. CASE TooLong(d, n)
        <2> DEFINE e == [d EXCEPT !.state = "terminated"]
        <2>1. agent_data' = [agent_data EXCEPT ![c] = e]
            BY <1>2, <1>4
        <2>2. /\ e \in Data /\ e.state = "terminated" /\ e.prompt_ids = d.prompt_ids
              /\ e.response_mask = d.response_mask /\ e.response_logprobs = d.response_logprobs
              /\ e.user_turns = d.user_turns /\ e.assistant_turns = d.assistant_turns
            BY <1>1 DEF Data, States
        <2> HIDE DEF e
        <2>3. TextSound(config, d) /\ Turns(d) = Cardinality(Positions(d.prompt_ids))
              /\ Len(d.response_mask) >= 1
            BY <1>1 DEF ConvOf
        <2>4. TextSound(config, e) /\ Turns(e) = Turns(d)
            BY <1>1, <2>2, <2>3, SameText
        <2>5. ConvOf(config, e)
            BY <2>2, <2>3, <2>4 DEF ConvOf
        <2> QED
            BY <1>1, <2>1, <2>5, OneChanges
    <1>5. CASE ~TooLong(d, n)
        <2> DEFINE w == Extended(d, "tool", n)
                   e == [w EXCEPT !.user_turns = @ + 1, !.state = "generating"]
        <2>1. agent_data' = [agent_data EXCEPT ![c] = [w EXCEPT !.state = "generating", !.user_turns = @ + 1]]
            BY <1>2, <1>5
        <2>2. [w EXCEPT !.state = "generating", !.user_turns = @ + 1] = e
            <3> HIDE DEF w
            <3> QED
                OBVIOUS
        <2>3. Len(d.response_mask) + n < ResponseLength
            <3>1. Len(d.response_mask) \in Nat
                BY <1>1 DEF Data
            <3> QED
                BY <1>3, <1>5, <3>1, SizesOf DEF TooLong
        <2>4. ConvOf(config, e)
            BY <1>1, <1>3, <2>3, EnvironmentTurn
        <2> HIDE DEF e
        <2> QED
            BY <1>1, <2>1, <2>2, <2>4, OneChanges
    <1> QED
        BY <1>4, <1>5

(* HandleInteracting keeps the invariant.                                   *)
LEMMA InteractionStep ==
    ASSUME ConvInv, NEW c \in Slots, HandleInteracting(c)
    PROVE  ConvInv'
    <1> DEFINE d == agent_data[c]
    <1>1. ConvOf(config, d) /\ d \in Data /\ config \in Configs /\ d.state = "interacting" /\ config' = config
        BY DEF ConvInv, ConvOf, HandleInteracting
    <1>2. config.interaction
        BY <1>1 DEF ConvOf
    <1>3. CASE \E n \in 1..MaxTokens, should_terminate_sequence \in BOOLEAN :
            agent_data' = [agent_data EXCEPT ![c] =
                [Extended(agent_data[c], "user", n) EXCEPT
                     !.user_turns = @ + 1,
                     !.state = IF should_terminate_sequence THEN "terminated" ELSE "generating"]]
        <2>1. PICK n \in 1..MaxTokens, stop \in BOOLEAN :
                agent_data' = [agent_data EXCEPT ![c] =
                    [Extended(d, "user", n) EXCEPT
                         !.user_turns = @ + 1,
                         !.state = IF stop THEN "terminated" ELSE "generating"]]
            BY <1>3
        <2> DEFINE s == IF stop THEN "terminated" ELSE "generating"
                   e == [Extended(d, "user", n) EXCEPT !.user_turns = @ + 1, !.state = s]
        <2>2. n \in Nat \ {0} /\ s \in {"generating", "terminated"}
            BY SizesOf
        <2>3. agent_data' = [agent_data EXCEPT ![c] = e]
            BY <2>1
        <2> HIDE DEF s, d
        <2>4. ConvOf(config, e)
            BY <1>1, <1>2, <2>2, EnvironmentTurn
        <2> HIDE DEF e
        <2> QED
            BY <1>1, <2>3, <2>4, OneChanges
    <1>4. CASE agent_data' = [agent_data EXCEPT ![c].state = "failed"]
        <2> DEFINE e == [d EXCEPT !.state = "failed"]
        <2>1. agent_data' = [agent_data EXCEPT ![c] = e]
            BY <1>4 DEF ConvInv
        <2> HIDE DEF d
        <2>2. /\ e \in Data /\ e.state = "failed" /\ e.prompt_ids = d.prompt_ids
              /\ e.response_mask = d.response_mask /\ e.response_logprobs = d.response_logprobs
              /\ e.user_turns = d.user_turns /\ e.assistant_turns = d.assistant_turns
            BY <1>1 DEF Data, States
        <2> HIDE DEF e
        <2>3. TextSound(config, d) /\ Turns(d) = Cardinality(Positions(d.prompt_ids))
            BY <1>1 DEF ConvOf
        <2>4. TextSound(config, e) /\ Turns(e) = Turns(d)
            BY <1>1, <2>2, <2>3, SameText
        <2>5. ConvOf(config, e)
            BY <1>2, <2>2, <2>3, <2>4 DEF ConvOf
        <2> QED
            BY <1>1, <2>1, <2>5, OneChanges
    <1> QED
        BY <1>3, <1>4 DEF HandleInteracting

(* The invariant holds at the start.                                        *)
LEMMA ConvInit == Init => ConvInv
    <1> SUFFICES ASSUME Init PROVE ConvInv
        OBVIOUS
    <1>1. \A c \in Slots : agent_data[c] = AgentData
        BY DEF Init
    <1>2. \A c \in Slots : ConvOf(config, agent_data[c])
        BY <1>1, PendingIs
    <1> QED
        BY <1>2 DEF Init, ConvInv

(* Every step keeps the invariant.                                          *)
LEMMA ConvStep == ConvInv /\ [Next]_vars => ConvInv'
    <1> SUFFICES ASSUME ConvInv, [Next]_vars PROVE ConvInv'
        OBVIOUS
    <1>1. CASE GatherOutputs \/ UNCHANGED vars
        BY <1>1 DEF GatherOutputs, vars, ConvInv
    <1>2. CASE NextBatch
        <2>1. agent_data' = [c \in Slots |-> AgentData] /\ config' = config
            BY <1>2 DEF NextBatch
        <2>2. \A c \in Slots : ConvOf(config', agent_data'[c])
            BY <2>1, PendingIs
        <2> QED
            BY <2>1, <2>2 DEF ConvInv
    <1>3. ASSUME NEW c \in Slots, Converse(c) PROVE ConvInv'
        BY <1>3, PendingStep, GenerateStep, GeneratingStep, CallsStep, ToolsStep, InteractionStep
           DEF Converse
    <1> QED
        BY <1>1, <1>2, <1>3 DEF Next

(* What the cuts at the end of run leave of a text.                         *)
LEMMA CutIs ==
    ASSUME NEW T, NEW q \in Seq(T), NEW a \in Nat \ {0}, NEW b \in Nat, a <= b + 1, b <= Len(q)
    PROVE  /\ SubSeq(q, a, b) \in Seq(T) /\ Len(SubSeq(q, a, b)) = b - a + 1
           /\ \A i \in 1..(b - a + 1) : SubSeq(q, a, b)[i] = q[a + i - 1]
    <1>1. SubSeq(q, a, b) = [i \in 1..(b - a + 1) |-> q[a + i - 1]]
        OBVIOUS
    <1>2. b - a + 1 \in Nat
        OBVIOUS
    <1>3. \A i \in 1..(b - a + 1) : a + i - 1 \in 1..Len(q)
        OBVIOUS
    <1>4. \A i \in 1..(b - a + 1) : q[a + i - 1] \in T
        BY <1>3
    <1> DEFINE r == SubSeq(q, a, b)
               n == b - a + 1
    <1>5. r = [i \in 1..n |-> q[a + i - 1]]
        BY <1>1
    <1> HIDE DEF r
    <1>6. r \in [1..n -> T]
        BY <1>4, <1>5
    <1>7. r \in Seq(T) /\ Len(r) = n
        <2> HIDE DEF n
        <2>1. n \in Nat
            BY <1>2 DEF n
        <2> QED
            BY <1>6, <2>1
    <1>8. \A i \in 1..n : r[i] = q[a + i - 1]
        BY <1>5
    <1> QED
        BY <1>7, <1>8 DEF r

(* The cut that Output makes of the mask, the log-probs and the text.        *)
Cut(q) == SubSeq(q, 1, IF Len(q) < ResponseLength THEN Len(q) ELSE ResponseLength)

(* A cut sequence is its head.                                              *)
LEMMA CutTo ==
    ASSUME NEW T, NEW q \in Seq(T), NEW r, r = IF Len(q) < ResponseLength THEN Len(q) ELSE ResponseLength
    PROVE  /\ Cut(q) \in Seq(T) /\ Len(Cut(q)) = r /\ DOMAIN Cut(q) = 1..r
           /\ \A i \in 1..r : Cut(q)[i] = q[i]
    <1>1. Len(q) \in Nat /\ ResponseLength \in Nat
        BY SizesOf
    <1>2. r \in Nat /\ r <= Len(q) /\ 1 <= r + 1 /\ r - 1 + 1 = r
        BY <1>1
    <1>3. Cut(q) = SubSeq(q, 1, r)
        BY DEF Cut
    <1>4. /\ SubSeq(q, 1, r) \in Seq(T) /\ Len(SubSeq(q, 1, r)) = r - 1 + 1
          /\ \A i \in 1..(r - 1 + 1) : SubSeq(q, 1, r)[i] = q[1 + i - 1]
        BY <1>2, CutIs
    <1>5. \A i \in 1..r : 1 + i - 1 = i
        BY <1>2
    <1> DEFINE z == Cut(q)
    <1>6. z \in Seq(T) /\ Len(z) = r /\ \A i \in 1..r : z[i] = q[i]
        BY <1>2, <1>3, <1>4, <1>5
    <1> HIDE DEF z
    <1>7. DOMAIN z = 1..r
        BY <1>6
    <1> QED
        BY <1>6, <1>7 DEF z

(* The invariant makes what run returns sound.                              *)
LEMMA ConvSound == ConvInv => AnswerSound
    <1> SUFFICES ASSUME ConvInv, NEW c \in Slots
                 PROVE  LET d == agent_data[c]
                            o == Output(d)
                        IN  /\ d.state = "failed" => config.interaction
                            /\ d.state = "terminated" =>
                                 /\ \A i \in DOMAIN o.prompt_ids : o.prompt_ids[i] = "prompt"
                                 /\ Len(o.response_ids) \in 1..ResponseLength
                                 /\ Len(o.response_mask) = Len(o.response_ids)
                                 /\ \A i \in DOMAIN o.response_ids :
                                      /\ o.response_ids[i] # "prompt"
                                      /\ o.response_mask[i] = (IF o.response_ids[i] = "model" THEN 1 ELSE 0)
                                 /\ o.response_logprobs =
                                      IF config.logprobs
                                      THEN [i \in DOMAIN o.response_ids |->
                                              IF o.response_ids[i] = "model" THEN "real" ELSE "zero"]
                                      ELSE <<>>
                                 /\ o.num_turns = Cardinality(Positions(d.prompt_ids))
        BY DEF AnswerSound
    <1> DEFINE d == agent_data[c]
               o == Output(d)
               ids == d.prompt_ids
               mask == d.response_mask
               lp == d.response_logprobs
               m == Len(ids)
               n == Len(mask)
               p == PromptPart(d)
               head == SubSeq(ids, 1, m - n)
               tail == SubSeq(ids, m - n + 1, m)
               r == IF n < ResponseLength THEN n ELSE ResponseLength
    <1>1. ConvOf(config, d) /\ config \in Configs /\ config.logprobs \in BOOLEAN
        BY ConfigIs DEF ConvInv
    <1>2. d.state = "failed" => config.interaction
        BY <1>1 DEF ConvOf
    <1> SUFFICES ASSUME d.state = "terminated"
                 PROVE  /\ \A i \in DOMAIN o.prompt_ids : o.prompt_ids[i] = "prompt"
                        /\ Len(o.response_ids) \in 1..ResponseLength
                        /\ Len(o.response_mask) = Len(o.response_ids)
                        /\ \A i \in DOMAIN o.response_ids :
                             /\ o.response_ids[i] # "prompt"
                             /\ o.response_mask[i] = (IF o.response_ids[i] = "model" THEN 1 ELSE 0)
                        /\ o.response_logprobs =
                             IF config.logprobs
                             THEN [i \in DOMAIN o.response_ids |->
                                     IF o.response_ids[i] = "model" THEN "real" ELSE "zero"]
                             ELSE <<>>
                        /\ o.num_turns = Cardinality(Positions(d.prompt_ids))
        BY <1>2
    <1>3. /\ d \in Data /\ TextSound(config, d) /\ Turns(d) = Cardinality(Positions(ids)) /\ n >= 1
        BY <1>1 DEF ConvOf
    <1>4. ids \in Seq(Src) /\ mask \in Seq({0, 1}) /\ lp \in Seq({"real", "zero"})
        BY <1>3 DEF Data
    <1>5. /\ p >= 1
          /\ \A i \in 1..p : ids[i] = "prompt"
          /\ \A i \in 1..n : /\ ids[p + i] # "prompt"
                             /\ mask[i] = IF ids[p + i] = "model" THEN 1 ELSE 0
          /\ config.logprobs => /\ Len(lp) = n
                                /\ \A i \in 1..n : lp[i] = IF ids[p + i] = "model" THEN "real" ELSE "zero"
          /\ ~config.logprobs => lp = <<>>
        BY <1>3 DEF TextSound
    <1>6. m \in Nat /\ n \in Nat /\ p = m - n
        BY <1>4 DEF PromptPart
    <1>7. o = [prompt_ids |-> head, response_ids |-> Cut(tail), response_mask |-> Cut(mask),
               response_logprobs |-> Cut(lp), num_turns |-> Turns(d)]
        <2>1. n # 0
            BY <1>3, <1>6
        <2> QED
            BY <2>1 DEF Output, Cut, Turns
    <1> HIDE DEF o, ids, mask, lp, m, n, p, r
    <1>8. r \in Nat /\ r >= 1 /\ r <= n /\ r <= ResponseLength /\ ResponseLength \in Nat
        BY <1>3, <1>6, SizesOf DEF r
    <1>9. head \in Seq(Src) /\ Len(head) = p /\ \A i \in 1..p : head[i] = ids[i]
        <2>1. m - n \in Nat /\ m - n <= Len(ids) /\ 1 <= (m - n) + 1 /\ (m - n) - 1 + 1 = p
            BY <1>5, <1>6 DEF m
        <2>2. /\ SubSeq(ids, 1, m - n) \in Seq(Src) /\ Len(SubSeq(ids, 1, m - n)) = (m - n) - 1 + 1
              /\ \A i \in 1..((m - n) - 1 + 1) : SubSeq(ids, 1, m - n)[i] = ids[1 + i - 1]
            BY <1>4, <2>1, CutIs
        <2>3. \A i \in 1..p : 1 + i - 1 = i
            BY <1>5, <1>6
        <2> QED
            BY <2>1, <2>2, <2>3
    <1>10. tail \in Seq(Src) /\ Len(tail) = n /\ \A i \in 1..n : tail[i] = ids[p + i]
        <2>1. m - n + 1 \in Nat \ {0} /\ m - n + 1 <= m + 1 /\ m <= Len(ids) /\ m - (m - n + 1) + 1 = n
            BY <1>5, <1>6 DEF m
        <2>2. /\ SubSeq(ids, m - n + 1, m) \in Seq(Src)
              /\ Len(SubSeq(ids, m - n + 1, m)) = m - (m - n + 1) + 1
              /\ \A i \in 1..(m - (m - n + 1) + 1) : SubSeq(ids, m - n + 1, m)[i] = ids[(m - n + 1) + i - 1]
            BY <1>4, <1>6, <2>1, CutIs
        <2>3. \A i \in 1..n : (m - n + 1) + i - 1 = p + i
            BY <1>5, <1>6
        <2> QED
            BY <2>1, <2>2, <2>3
    <1> HIDE DEF head, tail, d
    <1>11. /\ Cut(tail) \in Seq(Src) /\ Len(Cut(tail)) = r /\ DOMAIN Cut(tail) = 1..r
           /\ \A i \in 1..r : Cut(tail)[i] = tail[i]
        BY <1>10, CutTo DEF r
    <1>12. /\ Len(Cut(mask)) = r /\ \A i \in 1..r : Cut(mask)[i] = mask[i]
        BY <1>4, CutTo DEF r, n
    <1>13. \A i \in 1..r : i \in 1..n
        BY <1>6, <1>8
    <1>14. /\ o.prompt_ids = head /\ o.response_ids = Cut(tail) /\ o.response_mask = Cut(mask)
           /\ o.response_logprobs = Cut(lp) /\ o.num_turns = Turns(d)
        BY <1>7
    <1>15. \A i \in DOMAIN o.prompt_ids : o.prompt_ids[i] = "prompt"
        <2>1. DOMAIN head = 1..p
            BY <1>9
        <2> QED
            BY <1>5, <1>9, <1>14, <2>1
    <1>16. \A i \in 1..r : /\ o.response_ids[i] = ids[p + i]
                           /\ o.response_mask[i] = IF ids[p + i] = "model" THEN 1 ELSE 0
                           /\ ids[p + i] # "prompt"
        BY <1>5, <1>10, <1>11, <1>12, <1>13, <1>14
    <1>17. o.response_logprobs =
               IF config.logprobs
               THEN [i \in DOMAIN o.response_ids |->
                       IF o.response_ids[i] = "model" THEN "real" ELSE "zero"]
               ELSE <<>>
        <2>1. CASE config.logprobs
            <3>1. Len(lp) = n
                BY <1>5, <2>1
            <3>2. Cut(lp) \in Seq({"real", "zero"}) /\ Len(Cut(lp)) = r /\ DOMAIN Cut(lp) = 1..r
                  /\ \A i \in 1..r : Cut(lp)[i] = lp[i]
                <4>1. r = IF Len(lp) < ResponseLength THEN Len(lp) ELSE ResponseLength
                    BY <3>1 DEF r
                <4>2. lp \in Seq({"real", "zero"})
                    BY <1>4
                <4> QED
                    BY <4>1, <4>2, CutTo
            <3>3. \A i \in 1..r : Cut(lp)[i] = IF o.response_ids[i] = "model" THEN "real" ELSE "zero"
                BY <1>5, <1>13, <1>16, <2>1, <3>2
            <3> DEFINE z == Cut(lp)
                       g == [i \in 1..r |-> IF o.response_ids[i] = "model" THEN "real" ELSE "zero"]
            <3>4. z = [i \in 1..r |-> z[i]]
                BY <3>2
            <3>5. z = g
                <4>1. \A i \in 1..r : z[i] = IF o.response_ids[i] = "model" THEN "real" ELSE "zero"
                    BY <3>3
                <4> HIDE DEF z
                <4> QED
                    BY <3>4, <4>1
            <3>6. DOMAIN o.response_ids = 1..r
                BY <1>11, <1>14
            <3> QED
                BY <1>14, <2>1, <3>5, <3>6
        <2>2. CASE ~config.logprobs
            <3>1. lp = <<>>
                BY <1>5, <2>2
            <3>2. Len(lp) = 0 /\ ~(ResponseLength <= 0)
                BY <3>1, SizesOf
            <3>3. Cut(lp) \in Seq({"real", "zero"}) /\ Len(Cut(lp)) = 0
                <4>1. 0 = IF Len(lp) < ResponseLength THEN Len(lp) ELSE ResponseLength
                    BY <3>2, SizesOf
                <4> QED
                    BY <1>4, <4>1, CutTo
            <3>4. Cut(lp) = <<>>
                BY <3>3, EmptySeq
            <3> QED
                BY <1>14, <2>2, <3>4
        <2> QED
            BY <2>1, <2>2
    <1>18. Len(o.response_ids) \in 1..ResponseLength /\ Len(o.response_mask) = Len(o.response_ids)
           /\ DOMAIN o.response_ids = 1..r
        BY <1>8, <1>11, <1>12, <1>14
    <1>19. o.num_turns = Cardinality(Positions(d.prompt_ids))
        BY <1>3, <1>14 DEF ids
    <1> QED
        BY <1>15, <1>16, <1>17, <1>18, <1>19

(* Whatever mixture of turns, limits, cut and refused answers a conversation *)
(* has gone through, prompt, response, mask, log-probs and number of turns  *)
(* fit together, and only an interaction makes it fail (the handlers, and   *)
(* the cuts at the end of run).                                             *)
THEOREM AnswersSound == Spec => []AnswerSound
    <1>1. Spec => []ConvInv
        BY ConvInit, ConvStep, PTL DEF Spec
    <1> QED
        BY <1>1, ConvSound, PTL
=============================================================================
