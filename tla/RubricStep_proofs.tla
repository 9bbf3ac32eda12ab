------------------------- MODULE RubricStep_proofs --------------------------
(*****************************************************************************)
(* A step of rubric distillation for any number of rows, workers, scores     *)
(* and labels, and every configuration: whatever is appended, copied,        *)
(* reordered and dropped, a row is trained on once, and shifts, drops and    *)
(* the history follow the scores.                                            *)
(*****************************************************************************)
EXTENDS RubricStep, FiniteSetTheorems, SequenceTheorems, WellFoundedInduction, TLAPS

(* A row of the batch, whose shift is one of those given.                   *)
Row(shifts) ==
    [src : 1..Rows, kind : Kinds, score : Scores \cup {Unscored},
     pad : BOOLEAN, mask : BOOLEAN, weight : BOOLEAN, sft : BOOLEAN,
     teacher : TeacherScores \cup {0}, shift : shifts]

(* A second answer beats its own first answer.                              *)
Improves(row, first) ==
    /\ first[row.src] \in 0..(MinScore - 1)
    /\ row.score >= AppendMinScore
    /\ RequireImprovement => row.score - first[row.src] > AppendMinGain

(* What is so of every row, whatever was copied, moved or dropped; first are *)
(* the scores of the first answers.                                        *)
RowOK(row, first) ==
    /\ row.pad <=> row.kind = "padding"
    /\ row.mask <=> ~row.pad
    /\ row.kind = "orig" => row.weight /\ row.score = first[row.src]
    /\ Appended(row) => Improves(row, first)
    /\ row.kind = "reroll_hint" => row.weight
    /\ row.kind = "reroll_sft" => row.sft
    /\ row.kind = "reroll_nohint" => /\ row.score - first[row.src] >= NohintMinGain
                                     /\ row.weight <=> row.score - first[row.src] > 0

(* Rows that are not padding differ in what they are about.                 *)
Distinct(b) ==
    \A i, j \in DOMAIN b :
        ~b[i].pad /\ ~b[j].pad /\ Subject(b[i]) = Subject(b[j]) => i = j

(* A batch of such rows.                                                    *)
RowsOK(b, shifts, first) ==
    /\ b \in Seq(Row(shifts))
    /\ \A i \in DOMAIN b : RowOK(b[i], first)
    /\ Distinct(b)

(* The rollouts whose first answer is in the batch.                         *)
Originals(b) == {b[i].src : i \in {j \in DOMAIN b : b[j].kind = "orig"}}
(* The batch can be split over the workers.                                 *)
Even(b) == Len(b) > 0 /\ Len(b) % Divisor = 0
(* Something was appended.                                                  *)
HasAppended(b) == \E i \in DOMAIN b : Appended(b[i])
(* A row of the batch is trained on.                                        *)
HasTraining(b) == \E i \in DOMAIN b : Trains(b[i])
(* No row is padding.                                                       *)
NoPadding(b) == \A i \in DOMAIN b : ~b[i].pad

(* The phases before the drop, and after it.                                *)
Early == {"reroll", "pad", "logprob", "rank"}
Late == {"pad_update", "update"}

(* What is in the batch, place by place.  Padding is needed before the       *)
(* log-probs only if something was appended.                               *)
BatchInv ==
    /\ phase \in {"rollout", "done"} => batch = <<>> /\ dropped = {}
    /\ phase \in Early \cup {"failed"} => RowsOK(batch, {0}, initial) /\ dropped = {}
    /\ phase \in Late => RowsOK(batch, {-1, 0, 1}, initial)
    /\ phase \in Early \cup Late => Originals(batch) = (1..Rows) \ dropped
    /\ phase = "reroll" => Len(batch) = Rows /\ \A i \in 1..Rows : batch[i] = Rollout(i, initial[i])
    /\ phase = "pad" => Len(batch) >= Rows /\ (~HasAppended(batch) => Len(batch) = Rows /\ NoPadding(batch))
    /\ phase \in {"logprob", "rank"} => Even(batch) /\ (~HasAppended(batch) => NoPadding(batch))
    /\ phase = "pad_update" => Len(batch) > 0
    /\ phase = "update" => Even(batch)

(* After the drop there is something to train on.                           *)
TrainingInv == phase \in Late => HasTraining(batch)

(* Entries of the history are of this step or earlier ones, of this one only *)
(* after the drop.                                                          *)
StepInv ==
    /\ phase \notin {"done", "failed"} => global_steps =< MaxSteps
    /\ \A k \in DOMAIN history : history[k].step =< global_steps
    /\ phase \notin Late => \A k \in DOMAIN history : history[k].step < global_steps

(* A set of numbers has a least one.                                        *)
LEMMA LeastOf ==
    ASSUME NEW T, T \subseteq Nat, T # {}
    PROVE  \E x \in T : \A y \in T : x <= y
    <1> DEFINE R == OpToRel(<, Nat)
    <1>1. IsWellFoundedOn(R, Nat)
        BY NatLessThanWellFounded
    <1>2. \A x, y \in Nat : x < y => <<x, y>> \in R
        BY DEF OpToRel
    <1> HIDE DEF R
    <1>3. PICK x \in T : \A y \in T : <<y, x>> \notin R
        BY <1>1, WFMin
    <1>4. \A y \in T : ~(y < x)
        BY <1>2, <1>3
    <1> QED
        BY <1>4

(* A set of places is finite.                                               *)
LEMMA PlacesFinite ==
    ASSUME NEW n \in Nat, NEW S \in SUBSET (1..n)
    PROVE  /\ IsFiniteSet(S) /\ Cardinality(S) \in 0..n
           /\ \A T \in SUBSET S : IsFiniteSet(T) /\ Cardinality(T) \in 0..Cardinality(S)
    <1>1. IsFiniteSet(1..n) /\ Cardinality(1..n) = n
        BY FS_Interval
    <1>2. IsFiniteSet(S) /\ Cardinality(S) =< n
        <2> DEFINE N == 1..n
        <2>1. S \in SUBSET N /\ IsFiniteSet(N) /\ Cardinality(N) = n
            BY <1>1
        <2> HIDE DEF N
        <2> QED
            BY <2>1, FS_Subset
    <1>3. Cardinality(S) \in Nat
        BY <1>2, FS_CardinalityType
    <1>4. ASSUME NEW T \in SUBSET S
          PROVE  IsFiniteSet(T) /\ Cardinality(T) \in 0..Cardinality(S)
        <2>1. IsFiniteSet(T) /\ Cardinality(T) =< Cardinality(S)
            BY <1>2, FS_Subset
        <2>2. Cardinality(T) \in Nat
            BY <2>1, FS_CardinalityType
        <2> QED
            BY <1>3, <2>1, <2>2
    <1> QED
        BY <1>2, <1>3, <1>4

(* The places of S up to i.                                                 *)
Below(S, i) == {j \in S : j =< i}

(* How many places there are up to i, counted upwards.                      *)
LEMMA BelowSteps ==
    ASSUME NEW n \in Nat, NEW S \in SUBSET (1..n)
    PROVE  /\ Cardinality(Below(S, 0)) = 0 /\ Below(S, n) = S
           /\ \A i \in 0..n : Cardinality(Below(S, i)) \in Nat
           /\ \A i \in 1..n : Cardinality(Below(S, i)) =
                  Cardinality(Below(S, i - 1)) + (IF i \in S THEN 1 ELSE 0)
    <1>0. \A j \in S : j \in 1..n
        OBVIOUS
    <1>1. Below(S, 0) = {} /\ Below(S, n) = S
        <2>1. \A j \in S : j \in Nat /\ j =< n /\ ~(j =< 0)
            BY <1>0
        <2> QED
            BY <2>1 DEF Below
    <1>2. \A i \in 0..n : IsFiniteSet(Below(S, i)) /\ Cardinality(Below(S, i)) \in Nat
        <2>1. \A i \in 0..n : Below(S, i) \in SUBSET S
            BY DEF Below
        <2> QED
            BY <2>1, PlacesFinite
    <1>3. ASSUME NEW i \in 1..n
          PROVE  Cardinality(Below(S, i)) =
                     Cardinality(Below(S, i - 1)) + (IF i \in S THEN 1 ELSE 0)
        <2> DEFINE B == Below(S, i - 1)
        <2>1. i - 1 \in 0..n /\ i \notin B
            BY DEF Below
        <2>2. Below(S, i) = IF i \in S THEN B \cup {i} ELSE B
            <3>1. \A j \in S : j =< i <=> (j =< i - 1 \/ j = i)
                BY <1>0
            <3>2. i =< i
                OBVIOUS
            <3> QED
                BY <3>1, <3>2 DEF Below
        <2>3. IsFiniteSet(B) /\ Cardinality(B) \in Nat
            BY <1>2, <2>1
        <2> HIDE DEF B
        <2>4. Cardinality(B \cup {i}) = Cardinality(B) + 1
            BY <2>1, <2>3, FS_AddElement
        <2>5. CASE i \in S
            BY <2>2, <2>4, <2>5 DEF B
        <2>6. CASE i \notin S
            BY <2>2, <2>3, <2>6 DEF B
        <2> QED
            BY <2>5, <2>6
    <1> QED
        BY <1>1, <1>2, <1>3, FS_EmptySet

(* select_idxs finds a k-th place.                                           *)
LEMMA NthIs ==
    ASSUME NEW n \in Nat, NEW S \in SUBSET (1..n), NEW k \in 1..Cardinality(S)
    PROVE  Nth(S, k) \in S /\ Cardinality(Below(S, Nth(S, k))) = k
    <1> DEFINE C(i) == Cardinality(Below(S, i))
               T == {i \in 0..n : C(i) >= k}
    <1>1. /\ C(0) = 0 /\ C(n) = Cardinality(S)
          /\ \A i \in 0..n : C(i) \in Nat
          /\ \A i \in 1..n : C(i) = C(i - 1) + (IF i \in S THEN 1 ELSE 0)
        BY BelowSteps
    <1>2. Cardinality(S) \in Nat /\ k \in Nat /\ k >= 1
        BY PlacesFinite
    <1> HIDE DEF C
    <1>3. n \in T /\ T \subseteq Nat
        BY <1>1, <1>2
    <1>4. PICK i \in T : \A y \in T : i <= y
        BY <1>3, LeastOf
    <1>5. i # 0
        BY <1>1, <1>2, <1>4
    <1>6. i \in 1..n /\ i - 1 \in 0..n
        BY <1>4, <1>5
    <1>7. ~(C(i - 1) >= k)
        <2>1. ~(i <= i - 1)
            BY <1>6
        <2> QED
            BY <1>4, <1>6, <2>1
    <1>8. i \in S /\ C(i) = k
        BY <1>1, <1>2, <1>4, <1>6, <1>7
    <1>9. \E x \in S : Cardinality({j \in S : j =< x}) = k
        BY <1>8 DEF C, Below
    <1> QED
        BY <1>9 DEF Nth, Below

(* The k-th places are in order, and every place of S is one.               *)
LEMMA BelowGrows ==
    ASSUME NEW n \in Nat, NEW S \in SUBSET (1..n), NEW i \in S, NEW j \in S, i < j
    PROVE  Cardinality(Below(S, i)) < Cardinality(Below(S, j))
    <1>1. i \in Nat /\ j \in Nat
        OBVIOUS
    <1>2. IsFiniteSet(S)
        BY PlacesFinite
    <1>3. Below(S, j) \in SUBSET S /\ Below(S, i) \in SUBSET Below(S, j)
        <2>1. \A m \in S : m =< i => m =< j
            BY <1>1
        <2> QED
            BY <2>1 DEF Below
    <1>4. j \in Below(S, j) /\ j \notin Below(S, i)
        BY <1>1 DEF Below
    <1>5. IsFiniteSet(Below(S, j))
        BY <1>2, <1>3, FS_Subset
    <1>6. /\ Cardinality(Below(S, i)) =< Cardinality(Below(S, j))
          /\ Cardinality(Below(S, i)) # Cardinality(Below(S, j))
        BY <1>3, <1>4, <1>5, FS_Subset
    <1>7. Cardinality(Below(S, i)) \in Nat /\ Cardinality(Below(S, j)) \in Nat
        BY <1>3, <1>5, FS_Subset, FS_CardinalityType
    <1> QED
        BY <1>6, <1>7

(* Later ones of the places are greater.                                    *)
LEMMA NthGrows ==
    ASSUME NEW n \in Nat, NEW S \in SUBSET (1..n),
           NEW k \in 1..Cardinality(S), NEW l \in 1..Cardinality(S), k < l
    PROVE  Nth(S, k) < Nth(S, l)
    <1> DEFINE x == Nth(S, k)
               y == Nth(S, l)
    <1>1. x \in S /\ y \in S /\ Cardinality(Below(S, x)) = k /\ Cardinality(Below(S, y)) = l
        BY NthIs
    <1> HIDE DEF x, y
    <1>2. x \in Nat /\ y \in Nat
        BY <1>1
    <1>3. x # y
        BY <1>1
    <1>4. ~(y < x)
        <2> SUFFICES ASSUME y < x PROVE FALSE
            OBVIOUS
        <2>1. l < k
            BY <1>1, BelowGrows
        <2> QED
            BY <2>1, PlacesFinite
    <1>5. x < y
        BY <1>2, <1>3, <1>4
    <1> QED
        BY <1>5 DEF x, y

(* Every place of S is the k-th for some k.                                 *)
LEMMA NthOnto ==
    ASSUME NEW n \in Nat, NEW S \in SUBSET (1..n), NEW i \in S
    PROVE  \E k \in 1..Cardinality(S) : Nth(S, k) = i
    <1> DEFINE k == Cardinality(Below(S, i))
    <1>1. Below(S, i) \in SUBSET S /\ i \in Below(S, i)
        BY DEF Below
    <1>2. k \in 0..Cardinality(S) /\ IsFiniteSet(Below(S, i))
        BY <1>1, PlacesFinite
    <1>3. k # 0
        BY <1>1, <1>2, FS_EmptySet
    <1>4. k \in 1..Cardinality(S)
        BY <1>2, <1>3, PlacesFinite
    <1>5. Nth(S, k) \in S /\ Cardinality(Below(S, Nth(S, k))) = k
        BY <1>4, NthIs
    <1>6. ~(Nth(S, k) < i) /\ ~(i < Nth(S, k))
        <2>1. ~(k < k)
            BY <1>4, PlacesFinite
        <2> QED
            BY <1>5, <2>1, BelowGrows
    <1>7. Nth(S, k) = i
        <2> DEFINE x == Nth(S, k)
        <2>1. x \in S /\ ~(x < i) /\ ~(i < x)
            BY <1>5, <1>6
        <2> HIDE DEF x
        <2>2. x = i
            BY <2>1
        <2> QED
            BY <2>2 DEF x
    <1> QED
        BY <1>4, <1>7

(* select_idxs: the rows at the places of S, each once and in their order.   *)
LEMMA Selected ==
    ASSUME NEW R, NEW b \in Seq(R), NEW S \in SUBSET DOMAIN b
    PROVE  LET s == SelectIdxs(b, S) IN
           /\ s \in Seq(R) /\ Len(s) = Cardinality(S) /\ DOMAIN s = 1..Cardinality(S)
           /\ Cardinality(S) \in Nat
           /\ \A k \in DOMAIN s : Nth(S, k) \in S /\ s[k] = b[Nth(S, k)]
           /\ \A k, l \in DOMAIN s : k < l => Nth(S, k) < Nth(S, l)
           /\ \A k, l \in DOMAIN s : k # l => Nth(S, k) # Nth(S, l)
           /\ \A i \in S : \E k \in DOMAIN s : Nth(S, k) = i
    <1> DEFINE n == Len(b)
               s == SelectIdxs(b, S)
               c == Cardinality(S)
    <1>1. n \in Nat /\ S \in SUBSET (1..n)
        OBVIOUS
    <1>2. c \in Nat
        BY <1>1, PlacesFinite
    <1>3. s = [k \in 1..c |-> b[Nth(S, k)]]
        BY DEF SelectIdxs
    <1>4. \A k \in 1..c : Nth(S, k) \in S
        BY <1>1, NthIs
    <1>5. \A k, l \in 1..c : k < l => Nth(S, k) < Nth(S, l)
        BY <1>1, NthGrows
    <1>6. \A k, l \in 1..c : k # l => Nth(S, k) # Nth(S, l)
        <2> SUFFICES ASSUME NEW k \in 1..c, NEW l \in 1..c, k # l
                     PROVE  Nth(S, k) # Nth(S, l)
            OBVIOUS
        <2>1. k < l \/ l < k
            BY <1>2
        <2>2. Nth(S, k) \in Nat /\ Nth(S, l) \in Nat
            BY <1>1, <1>4
        <2> QED
            BY <1>5, <2>1, <2>2
    <1>7. \A i \in S : \E k \in 1..c : Nth(S, k) = i
        BY <1>1, NthOnto
    <1>8. \A k \in 1..c : b[Nth(S, k)] \in R
        BY <1>1, <1>4
    <1> HIDE DEF s, c, n
    <1>9. s \in Seq(R) /\ Len(s) = c /\ DOMAIN s = 1..c
        BY <1>2, <1>3, <1>8
    <1>10. \A k \in DOMAIN s : s[k] = b[Nth(S, k)]
        BY <1>3, <1>9
    <1> QED
        BY <1>2, <1>4, <1>5, <1>6, <1>7, <1>9, <1>10 DEF s, c, n

(* A row that trains as the other does: only what padding rows carry, the    *)
(* teacher's score and the shift may differ.                               *)
Like(r, q) ==
    /\ r.src = q.src /\ r.kind = q.kind /\ r.score = q.score
    /\ r.pad = q.pad /\ r.mask = q.mask
    /\ ~q.pad => r.weight = q.weight /\ r.sft = q.sft

(* What holds of a row holds of rows like it.                               *)
LEMMA LikeOK ==
    ASSUME NEW r, NEW q, NEW first, Like(r, q), RowOK(q, first)
    PROVE  /\ RowOK(r, first) /\ Subject(r) = Subject(q)
           /\ Appended(r) = Appended(q) /\ Trains(r) = Trains(q)
    <1>1. q.kind # "padding" => r.weight = q.weight /\ r.sft = q.sft
        BY DEF Like, RowOK
    <1>2. Appended(r) <=> Appended(q)
        BY DEF Like, Appended
    <1>3. Improves(q, first) => Improves(r, first)
        BY DEF Like, Improves
    <1>4. Subject(r) = Subject(q)
        BY DEF Like, Subject
    <1>5. Trains(r) <=> Trains(q)
        BY DEF Like, RowOK, Trains, TrainsOpd, TrainsSft
    <1>6. RowOK(r, first)
        BY <1>1, <1>2, <1>3 DEF Like, RowOK
    <1> QED
        BY <1>2, <1>4, <1>5, <1>6 DEF Appended, Trains, TrainsOpd, TrainsSft

(* Moving, dropping and reordering rows keeps them in order.                *)
LEMMA RowsMoved ==
    ASSUME NEW Sh, NEW Sh2, NEW first, NEW b, NEW s \in Seq(Row(Sh2)), NEW f,
           RowsOK(b, Sh, first),
           \A k \in DOMAIN s : f[k] \in DOMAIN b /\ Like(s[k], b[f[k]]),
           \A k, l \in DOMAIN s : k # l => f[k] # f[l]
    PROVE  RowsOK(s, Sh2, first)
    <1>1. \A i \in DOMAIN b : RowOK(b[i], first)
        BY DEF RowsOK
    <1>2. \A k \in DOMAIN s : RowOK(s[k], first) /\ Subject(s[k]) = Subject(b[f[k]])
        BY <1>1, LikeOK
    <1>3. \A k \in DOMAIN s : s[k].pad = b[f[k]].pad
        BY DEF Like
    <1>4. Distinct(b)
        BY DEF RowsOK
    <1>5. Distinct(s)
        <2>1. SUFFICES ASSUME NEW k \in DOMAIN s, NEW l \in DOMAIN s,
                              ~s[k].pad, ~s[l].pad, Subject(s[k]) = Subject(s[l])
                       PROVE  k = l
            BY DEF Distinct
        <2>2. Subject(b[f[k]]) = Subject(b[f[l]]) /\ ~b[f[k]].pad /\ ~b[f[l]].pad
            BY <1>2, <1>3, <2>1
        <2>3. f[k] = f[l]
            BY <1>4, <2>2 DEF Distinct
        <2> QED
            BY <2>3
    <1> QED
        BY <1>2, <1>5 DEF RowsOK

(* Nothing of interest is lost when every row is still there.               *)
LEMMA RowsKept ==
    ASSUME NEW Sh, NEW first, NEW b, NEW s, NEW f, RowsOK(b, Sh, first),
           \A k \in DOMAIN s : f[k] \in DOMAIN b /\ Like(s[k], b[f[k]]),
           \A i \in DOMAIN b : \E k \in DOMAIN s : f[k] = i
    PROVE  /\ Originals(s) = Originals(b)
           /\ HasAppended(s) <=> HasAppended(b)
           /\ HasTraining(s) <=> HasTraining(b)
           /\ NoPadding(s) <=> NoPadding(b)
    <1>1. \A i \in DOMAIN b : RowOK(b[i], first)
        BY DEF RowsOK
    <1>2. \A k \in DOMAIN s : /\ Appended(s[k]) = Appended(b[f[k]])
                              /\ Trains(s[k]) = Trains(b[f[k]])
        BY <1>1, LikeOK
    <1>3. \A k \in DOMAIN s : /\ s[k].pad = b[f[k]].pad /\ s[k].src = b[f[k]].src
                              /\ s[k].kind = b[f[k]].kind
        BY DEF Like
    <1>4. Originals(s) = Originals(b)
        <2>1. ASSUME NEW x \in Originals(s) PROVE x \in Originals(b)
            BY <1>3 DEF Originals
        <2>2. ASSUME NEW x \in Originals(b) PROVE x \in Originals(s)
            <3>1. PICK i \in DOMAIN b : b[i].kind = "orig" /\ x = b[i].src
                BY DEF Originals
            <3>2. PICK k \in DOMAIN s : f[k] = i
                OBVIOUS
            <3>3. s[k].kind = "orig" /\ x = s[k].src
                BY <1>3, <3>1, <3>2
            <3> QED
                BY <3>3 DEF Originals
        <2> QED
            BY <2>1, <2>2
    <1>5. HasAppended(s) <=> HasAppended(b)
        BY <1>2 DEF HasAppended
    <1>6. HasTraining(s) <=> HasTraining(b)
        BY <1>2 DEF HasTraining
    <1>7. NoPadding(s) <=> NoPadding(b)
        BY <1>3 DEF NoPadding
    <1> QED
        BY <1>4, <1>5, <1>6, <1>7

(* Nothing in x and y is about the same.                                    *)
Apart(x, y) ==
    \A i \in DOMAIN x, j \in DOMAIN y :
        ~x[i].pad /\ ~y[j].pad => Subject(x[i]) # Subject(y[j])

(* The places of a concatenation.                                           *)
LEMMA ConcatPlaces ==
    ASSUME NEW R, NEW x \in Seq(R), NEW y \in Seq(R)
    PROVE  LET z == x \o y IN
           /\ z \in Seq(R) /\ Len(z) = Len(x) + Len(y) /\ DOMAIN z = 1..(Len(x) + Len(y))
           /\ Len(x) \in Nat /\ Len(y) \in Nat
           /\ \A i \in DOMAIN x : i \in DOMAIN z /\ z[i] = x[i]
           /\ \A j \in DOMAIN y : Len(x) + j \in DOMAIN z /\ z[Len(x) + j] = y[j]
           /\ \A k \in DOMAIN z : \/ k \in DOMAIN x /\ z[k] = x[k]
                                  \/ k - Len(x) \in DOMAIN y /\ z[k] = y[k - Len(x)]
    <1> DEFINE z == x \o y
    <1>1. z \in Seq(R) /\ Len(z) = Len(x) + Len(y) /\ Len(x) \in Nat /\ Len(y) \in Nat
        OBVIOUS
    <1>2. DOMAIN x = 1..Len(x) /\ DOMAIN y = 1..Len(y) /\ DOMAIN z = 1..(Len(x) + Len(y))
        BY <1>1
    <1>3. \A k \in 1..(Len(x) + Len(y)) : z[k] = IF k =< Len(x) THEN x[k] ELSE y[k - Len(x)]
        OBVIOUS
    <1> HIDE DEF z
    <1>4. \A i \in 1..Len(x) : i \in 1..(Len(x) + Len(y)) /\ z[i] = x[i]
        BY <1>1, <1>3
    <1>5. \A j \in 1..Len(y) : Len(x) + j \in 1..(Len(x) + Len(y)) /\ z[Len(x) + j] = y[j]
        <2> DEFINE m == Len(x)
                   n == Len(y)
        <2>1. m \in Nat /\ n \in Nat /\ \A k \in 1..(m + n) : z[k] = IF k =< m THEN x[k] ELSE y[k - m]
            BY <1>1, <1>3
        <2> HIDE DEF m, n
        <2>2. \A j \in 1..n : m + j \in 1..(m + n) /\ ~(m + j =< m) /\ m + j - m = j
            BY <2>1
        <2>3. \A j \in 1..n : m + j \in 1..(m + n) /\ z[m + j] = y[j]
            BY <2>1, <2>2
        <2> QED
            BY <2>3 DEF m, n
    <1>6. \A k \in 1..(Len(x) + Len(y)) : \/ k \in 1..Len(x) /\ z[k] = x[k]
                                          \/ k - Len(x) \in 1..Len(y) /\ z[k] = y[k - Len(x)]
        BY <1>1, <1>3
    <1> QED
        BY <1>1, <1>2, <1>4, <1>5, <1>6 DEF z

(* A batch behind another one is a batch, if they are apart.                *)
LEMMA RowsJoined ==
    ASSUME NEW Sh, NEW first, NEW x, NEW y, RowsOK(x, Sh, first), RowsOK(y, Sh, first), Apart(x, y)
    PROVE  RowsOK(x \o y, Sh, first)
    <1> DEFINE z == x \o y
               n == Len(x)
    <1>1. x \in Seq(Row(Sh)) /\ y \in Seq(Row(Sh))
        BY DEF RowsOK
    <1>2. /\ z \in Seq(Row(Sh)) /\ n \in Nat /\ DOMAIN z \subseteq Nat
          /\ \A k \in DOMAIN z : \/ k \in DOMAIN x /\ z[k] = x[k]
                                 \/ k - n \in DOMAIN y /\ z[k] = y[k - n]
        BY <1>1, ConcatPlaces
    <1> HIDE DEF z, n
    <1>3. \A k \in DOMAIN z : RowOK(z[k], first)
        BY <1>2 DEF RowsOK
    <1>4. Distinct(z)
        <2>1. SUFFICES ASSUME NEW k \in DOMAIN z, NEW l \in DOMAIN z,
                              ~z[k].pad, ~z[l].pad, Subject(z[k]) = Subject(z[l])
                       PROVE  k = l
            BY DEF Distinct
        <2>2. k \in Nat /\ l \in Nat
            BY <1>2
        <2>3. CASE k \in DOMAIN x /\ z[k] = x[k]
            <3>1. CASE l \in DOMAIN x /\ z[l] = x[l]
                BY <2>1, <2>3, <3>1 DEF RowsOK, Distinct
            <3>2. CASE l - n \in DOMAIN y /\ z[l] = y[l - n]
                BY <2>1, <2>3, <3>2 DEF Apart
            <3> QED
                BY <1>2, <3>1, <3>2
        <2>4. CASE k - n \in DOMAIN y /\ z[k] = y[k - n]
            <3>1. CASE l \in DOMAIN x /\ z[l] = x[l]
                BY <2>1, <2>4, <3>1 DEF Apart
            <3>2. CASE l - n \in DOMAIN y /\ z[l] = y[l - n]
                <4>1. k - n = l - n
                    BY <2>1, <2>4, <3>2 DEF RowsOK, Distinct
                <4> QED
                    BY <1>2, <2>2, <4>1
            <3> QED
                BY <1>2, <3>1, <3>2
        <2> QED
            BY <1>2, <2>3, <2>4
    <1> QED
        BY <1>2, <1>3, <1>4 DEF RowsOK, z

(* What is in either is in the two.                                         *)
LEMMA JoinedHas ==
    ASSUME NEW R, NEW x \in Seq(R), NEW y \in Seq(R)
    PROVE  /\ Originals(x \o y) = Originals(x) \cup Originals(y)
           /\ HasAppended(x \o y) <=> HasAppended(x) \/ HasAppended(y)
           /\ HasTraining(x \o y) <=> HasTraining(x) \/ HasTraining(y)
           /\ NoPadding(x \o y) <=> NoPadding(x) /\ NoPadding(y)
    <1> DEFINE z == x \o y
               n == Len(x)
    <1>1. /\ \A k \in DOMAIN z : \/ k \in DOMAIN x /\ z[k] = x[k]
                                 \/ k - n \in DOMAIN y /\ z[k] = y[k - n]
          /\ \A i \in DOMAIN x : i \in DOMAIN z /\ z[i] = x[i]
          /\ \A j \in DOMAIN y : n + j \in DOMAIN z /\ z[n + j] = y[j]
        BY ConcatPlaces
    <1> HIDE DEF z, n
    <1>2. Originals(z) = Originals(x) \cup Originals(y)
        <2>1. ASSUME NEW v \in Originals(z) PROVE v \in Originals(x) \cup Originals(y)
            BY <1>1 DEF Originals
        <2>2. ASSUME NEW v \in Originals(x) PROVE v \in Originals(z)
            <3>1. PICK i \in DOMAIN x : x[i].kind = "orig" /\ v = x[i].src
                BY DEF Originals
            <3>2. i \in DOMAIN z /\ z[i].kind = "orig" /\ v = z[i].src
                BY <1>1, <3>1
            <3> QED
                BY <3>2 DEF Originals
        <2>3. ASSUME NEW v \in Originals(y) PROVE v \in Originals(z)
            <3>1. PICK i \in DOMAIN y : y[i].kind = "orig" /\ v = y[i].src
                BY DEF Originals
            <3>2. n + i \in DOMAIN z /\ z[n + i].kind = "orig" /\ v = z[n + i].src
                BY <1>1, <3>1
            <3> QED
                BY <3>2 DEF Originals
        <2> QED
            BY <2>1, <2>2, <2>3
    <1>3. HasAppended(z) <=> HasAppended(x) \/ HasAppended(y)
        BY <1>1 DEF HasAppended
    <1>4. HasTraining(z) <=> HasTraining(x) \/ HasTraining(y)
        BY <1>1 DEF HasTraining
    <1>5. NoPadding(z) <=> NoPadding(x) /\ NoPadding(y)
        BY <1>1 DEF NoPadding
    <1> QED
        BY <1>2, <1>3, <1>4, <1>5 DEF z

(* The padding completes the batch, and is empty when it is.                *)
LEMMA PadCompletes ==
    ASSUME NEW n \in Nat
    PROVE  LET p == (Divisor - (n % Divisor)) % Divisor IN
           p \in Nat /\ (n + p) % Divisor = 0 /\ (n % Divisor = 0 => p = 0)
    <1> DEFINE D == Divisor
               r == n % D
               q == n \div D
               p == (D - r) % D
    <1>1. D \in Nat /\ D >= 1
        BY SizeAssumption
    <1> HIDE DEF D
    <1>2. r \in 0..(D - 1) /\ q \in Int /\ n = D * q + r
        BY <1>1
    <1>3. CASE r = 0
        <2>1. D % D = 0
            BY <1>1
        <2>2. p = 0
            BY <1>1, <1>3, <2>1
        <2>3. n + p = n
            BY <2>2
        <2> QED
            BY <1>3, <2>2, <2>3 DEF D
    <1>4. CASE r # 0
        <2> HIDE DEF r, q
        <2>1. D - r \in 1..(D - 1)
            BY <1>1, <1>2, <1>4
        <2>2. (D - r) % D = D - r
            BY <1>1, <2>1
        <2>3. n + p = D * (q + 1)
            BY <1>1, <1>2, <2>2
        <2>4. (D * (q + 1)) % D = 0
            BY <1>1, <1>2
        <2>5. (n + p) % D = 0 /\ p \in Nat
            BY <1>1, <2>1, <2>2, <2>3, <2>4
        <2> QED
            BY <1>4, <2>5 DEF D, r
    <1> QED
        BY <1>3, <1>4

(* What padding rows are.                                                   *)
LEMMA PaddingIs ==
    ASSUME NEW Sh, NEW first, NEW r \in Row(Sh)
    PROVE  LET q == AsPadding(r) IN
           q \in Row(Sh) /\ q.pad /\ q.kind = "padding" /\ RowOK(q, first)
           /\ ~Appended(q) /\ ~Trains(q)
    <1> DEFINE q == AsPadding(r)
    <1>1. q \in Row(Sh)
        BY DEF AsPadding, Row, Kinds
    <1>2. q.pad /\ q.kind = "padding" /\ ~q.mask
        BY DEF AsPadding, Row
    <1> HIDE DEF q
    <1>3. RowOK(q, first) /\ ~Appended(q) /\ ~Trains(q)
        BY <1>2 DEF RowOK, Appended, Trains, TrainsOpd, TrainsSft
    <1> QED
        BY <1>1, <1>2, <1>3 DEF q

(* Only padding rows are new or changed.                                    *)
KeepsRows(z, b) ==
    \A i \in DOMAIN z : z[i].kind # "padding" => i \in DOMAIN b /\ z[i] = b[i]

(* pad_dataproto_to_divisor makes the batch even and adds padding only.     *)
LEMMA PaddedRows ==
    ASSUME NEW Sh, NEW first, NEW b, RowsOK(b, Sh, first), Len(b) > 0
    PROVE  LET z == Padded(b) IN
           /\ RowsOK(z, Sh, first) /\ Even(z) /\ Len(z) >= Len(b)
           /\ KeepsRows(z, b)
           /\ Originals(z) = Originals(b)
           /\ HasAppended(z) <=> HasAppended(b)
           /\ HasTraining(z) <=> HasTraining(b)
           /\ Len(b) % Divisor = 0 => z = b
    <1> DEFINE n == Len(b)
               p == PadSize(b)
               y == [k \in 1..p |-> AsPadding(b[((k - 1) % n) + 1])]
               z == b \o y
    <1>1. b \in Seq(Row(Sh)) /\ n \in Nat /\ n >= 1 /\ DOMAIN b = 1..n
        BY DEF RowsOK
    <1>2. p \in Nat /\ (n + p) % Divisor = 0 /\ (n % Divisor = 0 => p = 0)
        BY <1>1, PadCompletes DEF PadSize
    <1>3. \A k \in 1..p : ((k - 1) % n) + 1 \in 1..n
        <2> HIDE DEF n, p
        <2> SUFFICES ASSUME NEW k \in 1..p PROVE ((k - 1) % n) + 1 \in 1..n
            OBVIOUS
        <2>1. k - 1 \in Nat
            BY <1>2
        <2>2. (k - 1) % n \in 0..(n - 1)
            BY <1>1, <2>1
        <2> QED
            BY <1>1, <2>2
    <1>4. \A k \in 1..p : b[((k - 1) % n) + 1] \in Row(Sh)
        BY <1>1, <1>3
    <1> HIDE DEF p, n
    <1>5. y \in Seq(Row(Sh)) /\ Len(y) = p /\ DOMAIN y = 1..p
        <2>1. \A k \in 1..p : AsPadding(b[((k - 1) % n) + 1]) \in Row(Sh)
            BY <1>4, PaddingIs
        <2> QED
            BY <1>2, <2>1
    <1>6. \A k \in DOMAIN y : /\ y[k].pad /\ y[k].kind = "padding"
                              /\ RowOK(y[k], first) /\ ~Appended(y[k]) /\ ~Trains(y[k])
        <2>1. \A k \in 1..p : y[k] = AsPadding(b[((k - 1) % n) + 1])
            OBVIOUS
        <2> QED
            BY <1>4, <1>5, <2>1, PaddingIs
    <1> HIDE DEF y
    <1>7. RowsOK(y, Sh, first) /\ Apart(b, y)
        BY <1>5, <1>6 DEF RowsOK, Distinct, Apart
    <1>8. Originals(y) = {} /\ ~HasAppended(y) /\ ~HasTraining(y)
        BY <1>6 DEF Originals, HasAppended, HasTraining
    <1>9. RowsOK(z, Sh, first)
        BY <1>7, RowsJoined
    <1>10. Originals(z) = Originals(b) /\ (HasAppended(z) <=> HasAppended(b))
           /\ (HasTraining(z) <=> HasTraining(b))
        <2>1. /\ Originals(z) = Originals(b) \cup Originals(y)
              /\ HasAppended(z) <=> HasAppended(b) \/ HasAppended(y)
              /\ HasTraining(z) <=> HasTraining(b) \/ HasTraining(y)
            BY <1>1, <1>5, JoinedHas
        <2> HIDE DEF z
        <2> QED
            BY <1>8, <2>1
    <1>11. /\ Len(z) = n + p
           /\ \A i \in DOMAIN b : i \in DOMAIN z /\ z[i] = b[i]
           /\ \A i \in DOMAIN z : \/ i \in DOMAIN b /\ z[i] = b[i]
                                  \/ i - n \in DOMAIN y /\ z[i] = y[i - n]
        <2>1. /\ Len(z) = Len(b) + Len(y)
              /\ \A i \in DOMAIN b : i \in DOMAIN z /\ z[i] = b[i]
              /\ \A i \in DOMAIN z : \/ i \in DOMAIN b /\ z[i] = b[i]
                                     \/ i - Len(b) \in DOMAIN y /\ z[i] = y[i - Len(b)]
            <3>1. \A x, w \in Seq(Row(Sh)) :
                     /\ Len(x \o w) = Len(x) + Len(w)
                     /\ \A i \in DOMAIN x : i \in DOMAIN (x \o w) /\ (x \o w)[i] = x[i]
                     /\ \A i \in DOMAIN (x \o w) :
                            \/ i \in DOMAIN x /\ (x \o w)[i] = x[i]
                            \/ i - Len(x) \in DOMAIN w /\ (x \o w)[i] = w[i - Len(x)]
                BY ConcatPlaces
            <3> QED
                BY <1>1, <1>5, <3>1
        <2> HIDE DEF z
        <2> QED
            BY <1>5, <2>1 DEF n
    <1>12. n % Divisor = 0 => z = b
        <2> SUFFICES ASSUME n % Divisor = 0 PROVE z = b
            OBVIOUS
        <2>1. y = <<>>
            BY <1>2, <1>5
        <2> QED
            BY <1>1, <2>1
    <1>13. z = Padded(b)
        BY DEF Padded, y, p, n
    <1> HIDE DEF z
    <1>14. Even(z) /\ Len(z) >= n
        BY <1>1, <1>2, <1>11 DEF Even
    <1>15. KeepsRows(z, b)
        BY <1>6, <1>11 DEF KeepsRows
    <1> QED
        BY <1>9, <1>10, <1>12, <1>13, <1>14, <1>15 DEF n

(* Reversing keeps every row.                                               *)
LEMMA ReversedRows ==
    ASSUME NEW Sh, NEW first, NEW b, RowsOK(b, Sh, first)
    PROVE  LET z == Reversed(b) IN
           /\ RowsOK(z, Sh, first) /\ Len(z) = Len(b)
           /\ Originals(z) = Originals(b)
           /\ HasAppended(z) <=> HasAppended(b)
           /\ HasTraining(z) <=> HasTraining(b)
           /\ NoPadding(z) <=> NoPadding(b)
    <1> DEFINE n == Len(b)
               f == [i \in 1..n |-> n - i + 1]
               z == Reversed(b)
    <1>1. b \in Seq(Row(Sh)) /\ n \in Nat /\ DOMAIN b = 1..n
        BY DEF RowsOK
    <1>2. z = [i \in 1..n |-> b[n - i + 1]]
        BY <1>1 DEF Reversed
    <1> HIDE DEF n
    <1>3. \A i \in 1..n : n - i + 1 \in 1..n /\ n - (n - i + 1) + 1 = i
        BY <1>1
    <1>4. \A i \in 1..n : f[i] \in 1..n /\ f[i] = n - i + 1
        BY <1>3
    <1>5. \A i, j \in 1..n : i # j => f[i] # f[j]
        BY <1>1, <1>4
    <1>6. \A i \in 1..n : \E k \in 1..n : f[k] = i
        <2> SUFFICES ASSUME NEW i \in 1..n PROVE \E k \in 1..n : f[k] = i
            OBVIOUS
        <2>1. n - i + 1 \in 1..n /\ f[n - i + 1] = i
            BY <1>3, <1>4
        <2> QED
            BY <2>1
    <1> HIDE DEF f, z
    <1>7. z \in Seq(Row(Sh)) /\ Len(z) = n /\ DOMAIN z = 1..n
        <2>1. \A i \in 1..n : b[n - i + 1] \in Row(Sh)
            BY <1>1, <1>3
        <2> QED
            BY <1>1, <1>2, <2>1
    <1>8. \A k \in DOMAIN z : f[k] \in DOMAIN b /\ Like(z[k], b[f[k]])
        BY <1>1, <1>2, <1>4, <1>7 DEF Like
    <1>9. RowsOK(z, Sh, first)
        BY <1>5, <1>7, <1>8, RowsMoved
    <1>10. \A i \in DOMAIN b : \E k \in DOMAIN z : f[k] = i
        BY <1>1, <1>6, <1>7
    <1>11. /\ Originals(z) = Originals(b)
           /\ HasAppended(z) <=> HasAppended(b)
           /\ HasTraining(z) <=> HasTraining(b)
           /\ NoPadding(z) <=> NoPadding(b)
        BY <1>8, <1>10, RowsKept
    <1> QED
        BY <1>7, <1>9, <1>11 DEF z, n

(* Every row changed in place.                                              *)
LEMMA RowsChanged ==
    ASSUME NEW Sh, NEW Sh2, NEW first, NEW b, NEW z \in Seq(Row(Sh2)), RowsOK(b, Sh, first),
           DOMAIN z = DOMAIN b, \A i \in DOMAIN b : Like(z[i], b[i])
    PROVE  /\ RowsOK(z, Sh2, first) /\ Len(z) = Len(b)
           /\ Originals(z) = Originals(b)
           /\ HasAppended(z) <=> HasAppended(b)
           /\ HasTraining(z) <=> HasTraining(b)
           /\ NoPadding(z) <=> NoPadding(b)
    <1> DEFINE f == [i \in DOMAIN b |-> i]
    <1>1. \A k \in DOMAIN z : f[k] \in DOMAIN b /\ Like(z[k], b[f[k]])
        OBVIOUS
    <1>2. \A k, l \in DOMAIN z : k # l => f[k] # f[l]
        OBVIOUS
    <1>3. \A i \in DOMAIN b : \E k \in DOMAIN z : f[k] = i
        OBVIOUS
    <1> HIDE DEF f
    <1>4. RowsOK(z, Sh2, first)
        BY <1>1, <1>2, RowsMoved
    <1>5. /\ Originals(z) = Originals(b)
          /\ HasAppended(z) <=> HasAppended(b)
          /\ HasTraining(z) <=> HasTraining(b)
          /\ NoPadding(z) <=> NoPadding(b)
        BY <1>1, <1>3, RowsKept
    <1>6. Len(z) = Len(b)
        <2> DEFINE m == Len(z)
                   n == Len(b)
        <2>1. m \in Nat /\ n \in Nat /\ DOMAIN z = 1..m /\ DOMAIN b = 1..n
            BY DEF RowsOK
        <2> HIDE DEF m, n
        <2>2. ~(m < n) /\ ~(n < m)
            <3>1. 1..m = 1..n
                BY <2>1
            <3>2. m < n => n \in 1..n /\ n \notin 1..m
                BY <2>1
            <3>3. n < m => m \in 1..m /\ m \notin 1..n
                BY <2>1
            <3> QED
                BY <3>1, <3>2, <3>3
        <2>3. m = n
            BY <2>1, <2>2
        <2> QED
            BY <2>3 DEF m, n
    <1> QED
        BY <1>4, <1>5, <1>6

(* _zero_padding_rows changes padding only.                                 *)
LEMMA ZeroedRows ==
    ASSUME NEW Sh, NEW first, NEW b, RowsOK(b, Sh, first)
    PROVE  LET z == ZeroPadding(b) IN
           /\ RowsOK(z, Sh, first) /\ Len(z) = Len(b) /\ DOMAIN z = DOMAIN b
           /\ KeepsRows(z, b)
           /\ Originals(z) = Originals(b)
           /\ HasTraining(z) <=> HasTraining(b)
    <1> DEFINE z == ZeroPadding(b)
    <1>1. b \in Seq(Row(Sh)) /\ Len(b) \in Nat /\ DOMAIN b = 1..Len(b)
        BY DEF RowsOK
    <1>2. ASSUME NEW r \in Row(Sh), RowOK(r, first), r.pad
          PROVE  LET q == [r EXCEPT !.mask = FALSE, !.weight = FALSE, !.sft = FALSE] IN
                 q \in Row(Sh) /\ Like(q, r)
        BY <1>2 DEF Row, RowOK, Like
    <1>3. DOMAIN z = DOMAIN b
        BY DEF ZeroPadding
    <1>4. \A i \in DOMAIN b : z[i] = IF b[i].pad
                THEN [b[i] EXCEPT !.mask = FALSE, !.weight = FALSE, !.sft = FALSE] ELSE b[i]
        BY DEF ZeroPadding
    <1>5. z = [i \in 1..Len(b) |-> z[i]]
        BY <1>1 DEF ZeroPadding
    <1> HIDE DEF z
    <1>6. \A i \in DOMAIN b : b[i] \in Row(Sh) /\ RowOK(b[i], first)
        BY <1>1 DEF RowsOK
    <1>7. \A i \in DOMAIN b : z[i] \in Row(Sh) /\ Like(z[i], b[i])
        <2> SUFFICES ASSUME NEW i \in DOMAIN b PROVE z[i] \in Row(Sh) /\ Like(z[i], b[i])
            OBVIOUS
        <2>1. CASE b[i].pad
            BY <1>2, <1>4, <1>6, <2>1
        <2>2. CASE ~b[i].pad
            BY <1>4, <1>6, <2>2 DEF Like
        <2> QED
            BY <2>1, <2>2
    <1>8. z \in Seq(Row(Sh))
        BY <1>1, <1>5, <1>7
    <1>9. /\ RowsOK(z, Sh, first) /\ Len(z) = Len(b) /\ Originals(z) = Originals(b)
          /\ HasTraining(z) <=> HasTraining(b)
        BY <1>3, <1>7, <1>8, RowsChanged
    <1>10. \A i \in DOMAIN b : /\ ~b[i].pad => z[i] = b[i]
                               /\ z[i].pad = b[i].pad /\ z[i].kind = b[i].kind
        BY <1>4, <1>7 DEF Like
    <1>11. KeepsRows(z, b)
        BY <1>3, <1>6, <1>10 DEF KeepsRows, RowOK
    <1> QED
        BY <1>3, <1>9, <1>11 DEF z

(* What the scores of the first answers may be.                             *)
FirstScores == [1..Rows -> Scores \cup {Unscored}]

(* Scores and thresholds are numbers.                                       *)
LEMMA ScoresInt == Scores \cup {Unscored} \subseteq Int /\ Unscored \notin Scores
                   /\ MinScore \in Nat /\ AppendMinScore \in Nat /\ AppendMinGain \in Nat
                   /\ NohintMinGain \in Nat
    BY ScoreAssumption DEF Unscored

(* What the row of a first answer is.                                       *)
LEMMA RolloutIs ==
    ASSUME NEW i \in 1..Rows, NEW s \in Scores \cup {Unscored}
    PROVE  LET r == Rollout(i, s) IN
           /\ r \in Row({0}) /\ r.src = i /\ r.score = s /\ r.kind = "orig"
           /\ ~r.pad /\ r.mask /\ r.weight
    BY DEF Rollout, Row, Kinds

(* The rollouts, before anything is appended.                               *)
LEMMA RolloutRows ==
    ASSUME NEW first \in FirstScores, NEW b,
           b = [i \in 1..Rows |-> Rollout(i, first[i])]
    PROVE  /\ RowsOK(b, {0}, first) /\ Len(b) = Rows /\ Originals(b) = 1..Rows
           /\ \A i \in DOMAIN b : b[i].kind = "orig" /\ ~b[i].pad
    <1>0. Rows \in Nat
        BY SizeAssumption
    <1>1. \A i \in 1..Rows : first[i] \in Scores \cup {Unscored}
        BY DEF FirstScores
    <1>2. \A i \in 1..Rows : /\ b[i] \in Row({0}) /\ b[i].src = i /\ b[i].score = first[i]
                             /\ b[i].kind = "orig" /\ ~b[i].pad /\ b[i].mask /\ b[i].weight
        BY <1>1, RolloutIs
    <1>3. b \in Seq(Row({0})) /\ Len(b) = Rows /\ DOMAIN b = 1..Rows
        BY <1>0, <1>2
    <1>4. \A i \in DOMAIN b : RowOK(b[i], first)
        BY <1>2, <1>3 DEF RowOK, Appended
    <1>5. Distinct(b)
        BY <1>2, <1>3 DEF Distinct, Subject
    <1>6. Originals(b) = 1..Rows
        <2>1. ASSUME NEW x \in Originals(b) PROVE x \in 1..Rows
            BY <1>2, <1>3 DEF Originals
        <2>2. ASSUME NEW x \in 1..Rows PROVE x \in Originals(b)
            BY <1>2, <1>3 DEF Originals
        <2> QED
            BY <2>1, <2>2
    <1> QED
        BY <1>2, <1>3, <1>4, <1>5, <1>6 DEF RowsOK

(* The accepted second answers: each better than its own first one.         *)
Seconds(a, first) ==
    /\ a \in Seq(Row({0}))
    /\ \A p \in DOMAIN a : /\ ~a[p].pad /\ a[p].mask /\ a[p].weight
                           /\ Improves(a[p], first)
    /\ \A p, q \in DOMAIN a : a[p].src = a[q].src => p = q

(* The rows made of second answers, all of one kind.                        *)
LEMMA RowsOfKind ==
    ASSUME NEW first, NEW a, Seconds(a, first),
           NEW K \in {"reroll_hint", "reroll_sft", "reroll_nohint"},
           NEW y, DOMAIN y = DOMAIN a,
           \A p \in DOMAIN a : y[p] \in Row({0}) /\ y[p].kind = K /\ y[p].src = a[p].src
                               /\ y[p].score = a[p].score /\ ~y[p].pad /\ y[p].mask
                               /\ RowOK(y[p], first),
           y = [p \in DOMAIN a |-> y[p]]
    PROVE  RowsOK(y, {0}, first) /\ \A p \in DOMAIN y : y[p].kind = K
    <1>1. a \in Seq(Row({0})) /\ Len(a) \in Nat /\ DOMAIN a = 1..Len(a)
        BY DEF Seconds
    <1>2. y \in Seq(Row({0}))
        BY <1>1
    <1>3. Distinct(y)
        <2>1. SUFFICES ASSUME NEW p \in DOMAIN y, NEW q \in DOMAIN y,
                              Subject(y[p]) = Subject(y[q])
                       PROVE  p = q
            BY DEF Distinct
        <2>2. y[p].src = y[q].src
            BY <2>1 DEF Subject
        <2>3. a[p].src = a[q].src
            BY <2>2
        <2> QED
            BY <2>3 DEF Seconds
    <1> QED
        BY <1>2, <1>3 DEF RowsOK

(* The appended rows with the hint.                                         *)
LEMMA HintRowsOK ==
    ASSUME NEW a, Seconds(a, initial)
    PROVE  RowsOK(HintRows(a), {0}, initial) /\ \A p \in DOMAIN HintRows(a) : HintRows(a)[p].kind = "reroll_hint"
    <1>1. CASE config.hint
        <2> DEFINE y == HintRows(a)
        <2>1. y = [p \in DOMAIN a |-> [a[p] EXCEPT !.kind = "reroll_hint"]]
            BY <1>1 DEF HintRows
        <2>2. ASSUME NEW r \in Row({0}), ~r.pad, r.mask, r.weight, Improves(r, initial)
              PROVE  LET q == [r EXCEPT !.kind = "reroll_hint"] IN
                     /\ q \in Row({0}) /\ q.kind = "reroll_hint" /\ q.src = r.src
                     /\ q.score = r.score /\ ~q.pad /\ q.mask /\ RowOK(q, initial)
            BY <2>2 DEF Row, Kinds, RowOK, Improves
        <2> HIDE DEF y
        <2>3. \A p \in DOMAIN a : a[p] \in Row({0})
            BY DEF Seconds
        <2>4. \A p \in DOMAIN a :
                 /\ y[p] \in Row({0}) /\ y[p].kind = "reroll_hint" /\ y[p].src = a[p].src
                 /\ y[p].score = a[p].score /\ ~y[p].pad /\ y[p].mask /\ RowOK(y[p], initial)
            <3> SUFFICES ASSUME NEW p \in DOMAIN a
                         PROVE  /\ y[p] \in Row({0}) /\ y[p].kind = "reroll_hint" /\ y[p].src = a[p].src
                                /\ y[p].score = a[p].score /\ ~y[p].pad /\ y[p].mask
                                /\ RowOK(y[p], initial)
                OBVIOUS
            <3>1. y[p] = [a[p] EXCEPT !.kind = "reroll_hint"]
                BY <2>1
            <3> QED
                BY <2>2, <2>3, <3>1 DEF Seconds
        <2>5. RowsOK(y, {0}, initial) /\ \A p \in DOMAIN y : y[p].kind = "reroll_hint"
            BY <2>1, <2>4, RowsOfKind
        <2> QED
            BY <2>5 DEF y
    <1>2. CASE ~config.hint
        BY <1>2 DEF HintRows, RowsOK, Distinct
    <1> QED
        BY <1>1, <1>2

(* The appended rows for SFT.                                               *)
LEMMA SftRowsOK ==
    ASSUME NEW a, Seconds(a, initial)
    PROVE  RowsOK(SftRows(a), {0}, initial) /\ \A p \in DOMAIN SftRows(a) : SftRows(a)[p].kind = "reroll_sft"
    <1>1. CASE config.sft
        <2> DEFINE y == SftRows(a)
                   Made(r) == [r EXCEPT !.kind = "reroll_sft", !.weight = FALSE, !.sft = TRUE]
        <2>1. y = [p \in DOMAIN a |-> Made(a[p])]
            BY <1>1 DEF SftRows
        <2>2. ASSUME NEW r \in Row({0}), ~r.pad, r.mask, r.weight, Improves(r, initial)
              PROVE  /\ Made(r) \in Row({0}) /\ Made(r).kind = "reroll_sft" /\ Made(r).src = r.src
                     /\ Made(r).score = r.score /\ ~Made(r).pad /\ Made(r).mask /\ RowOK(Made(r), initial)
            BY <2>2 DEF Row, Kinds, RowOK, Improves
        <2> HIDE DEF y, Made
        <2>3. \A p \in DOMAIN a : a[p] \in Row({0})
            BY DEF Seconds
        <2>4. \A p \in DOMAIN a :
                 /\ y[p] \in Row({0}) /\ y[p].kind = "reroll_sft" /\ y[p].src = a[p].src
                 /\ y[p].score = a[p].score /\ ~y[p].pad /\ y[p].mask /\ RowOK(y[p], initial)
            BY <2>1, <2>2, <2>3 DEF Seconds
        <2>5. RowsOK(y, {0}, initial) /\ \A p \in DOMAIN y : y[p].kind = "reroll_sft"
            BY <2>1, <2>4, RowsOfKind
        <2> QED
            BY <2>5 DEF y
    <1>2. CASE ~config.sft
        BY <1>2 DEF SftRows, RowsOK, Distinct
    <1> QED
        BY <1>1, <1>2

(* The appended rows without the hint, which must gain enough.              *)
LEMMA NohintRowsOK ==
    ASSUME NEW a, Seconds(a, initial), initial \in FirstScores
    PROVE  RowsOK(NohintRows(a), {0}, initial) /\ \A p \in DOMAIN NohintRows(a) : NohintRows(a)[p].kind = "reroll_nohint"
    <1>1. CASE config.nohint /\ ~config.sft
        <2> DEFINE good == {p \in DOMAIN a : a[p].score >= NohintMinScore
                                  /\ Gain(a[p]) >= NohintMinGain}
                   x == SelectIdxs(a, good)
                   y == NohintRows(a)
                   Made(r) == [r EXCEPT !.kind = "reroll_nohint", !.weight = Gain(r) > 0]
        <2>1. y = [p \in DOMAIN x |-> Made(x[p])]
            BY <1>1 DEF NohintRows
        <2>2. ASSUME NEW r \in Row({0}), ~r.pad, r.mask, r.weight, Improves(r, initial),
                     Gain(r) >= NohintMinGain
              PROVE  /\ Made(r) \in Row({0}) /\ Made(r).kind = "reroll_nohint" /\ Made(r).src = r.src
                     /\ Made(r).score = r.score /\ ~Made(r).pad /\ Made(r).mask /\ RowOK(Made(r), initial)
            <3>1. /\ Made(r).kind = "reroll_nohint" /\ Made(r).src = r.src /\ Made(r).score = r.score
                  /\ Made(r).pad = r.pad /\ Made(r).mask = r.mask
                  /\ Made(r).weight = (Gain(r) > 0)
                BY DEF Row
            <3>2. (Gain(r) > 0) \in BOOLEAN
                OBVIOUS
            <3>3. Made(r) \in Row({0})
                BY <3>2 DEF Row, Kinds
            <3> HIDE DEF Made
            <3>4. RowOK(Made(r), initial)
                BY <2>2, <3>1 DEF RowOK, Improves, Gain
            <3> QED
                BY <2>2, <3>1, <3>3, <3>4
        <2>3. a \in Seq(Row({0})) /\ good \in SUBSET DOMAIN a
            BY DEF Seconds
        <2>4. /\ x \in Seq(Row({0}))
              /\ \A k \in DOMAIN x : Nth(good, k) \in good /\ x[k] = a[Nth(good, k)]
              /\ \A k, l \in DOMAIN x : k # l => Nth(good, k) # Nth(good, l)
            <3> HIDE DEF good
            <3> QED
                BY <2>3, Selected
        <2>5. \A k \in DOMAIN x : Nth(good, k) \in DOMAIN a /\ Gain(x[k]) >= NohintMinGain
            <3>1. \A p \in good : p \in DOMAIN a /\ Gain(a[p]) >= NohintMinGain
                OBVIOUS
            <3> HIDE DEF good, x
            <3> QED
                BY <2>4, <3>1
        <2> HIDE DEF good, x, y, Made
        <2>6. Seconds(x, initial)
            <3>1. \A p \in DOMAIN x : ~x[p].pad /\ x[p].mask /\ x[p].weight /\ Improves(x[p], initial)
                BY <2>4, <2>5 DEF Seconds
            <3>2. \A p, q \in DOMAIN x : x[p].src = x[q].src => p = q
                BY <2>4, <2>5 DEF Seconds
            <3> QED
                BY <2>4, <3>1, <3>2 DEF Seconds
        <2>7. \A p \in DOMAIN x : x[p] \in Row({0})
            BY <2>4
        <2>8. \A p \in DOMAIN x :
                 /\ y[p] \in Row({0}) /\ y[p].kind = "reroll_nohint" /\ y[p].src = x[p].src
                 /\ y[p].score = x[p].score /\ ~y[p].pad /\ y[p].mask /\ RowOK(y[p], initial)
            BY <2>1, <2>2, <2>5, <2>6, <2>7 DEF Seconds
        <2>9. RowsOK(y, {0}, initial) /\ \A p \in DOMAIN y : y[p].kind = "reroll_nohint"
            BY <2>1, <2>6, <2>8, RowsOfKind
        <2> QED
            BY <2>9 DEF y
    <1>2. CASE ~(config.nohint /\ ~config.sft)
        <2>1. NohintRows(a) = <<>>
            BY <1>2 DEF NohintRows
        <2>2. RowsOK(<<>>, {0}, initial)
            BY DEF RowsOK, Distinct
        <2> QED
            BY <2>1, <2>2
    <1> QED
        BY <1>1, <1>2

(* The rows that are generated again, their answers and which of these are  *)
(* accepted, as in Reroll.                                                  *)
Low(ready) == [p \in 1..Cardinality(ready) |-> Nth(ready, p)]
Answers(ready, second) == [p \in DOMAIN Low(ready) |-> Rollout(Low(ready)[p], second[p])]
Accepted(ready, second) == {p \in DOMAIN Low(ready) :
                               Accept(second[p], FirstScoreOf(Low(ready)[p], p))}

(* What is accepted is better than its own first answer.                    *)
LEMMA AcceptedAre ==
    ASSUME initial \in FirstScores, NEW ready \in SUBSET LowIdxs,
           NEW second \in GptScores(Cardinality(ready))
    PROVE  Seconds(SelectIdxs(Answers(ready, second), Accepted(ready, second)), initial)
    <1> DEFINE c == Cardinality(ready)
               low == Low(ready)
               b == Answers(ready, second)
               S == Accepted(ready, second)
               a == SelectIdxs(b, S)
    <1>1. Rows \in Nat /\ ready \in SUBSET (1..Rows) /\ \A i \in ready : i \in LowIdxs
        BY SizeAssumption DEF LowIdxs
    <1>2. c \in Nat
        BY <1>1, PlacesFinite
    <1>3. \A p \in 1..c : Nth(ready, p) \in ready
        BY <1>1, NthIs
    <1>4. \A p, q \in 1..c : p # q => Nth(ready, p) # Nth(ready, q)
        <2> SUFFICES ASSUME NEW p \in 1..c, NEW q \in 1..c, p # q
                     PROVE  Nth(ready, p) # Nth(ready, q)
            OBVIOUS
        <2>1. p < q \/ q < p
            BY <1>2
        <2>2. Nth(ready, p) < Nth(ready, q) \/ Nth(ready, q) < Nth(ready, p)
            BY <1>1, <2>1, NthGrows
        <2>3. Nth(ready, p) \in Nat /\ Nth(ready, q) \in Nat
            <3>1. \A i \in ready : i \in Nat
                BY <1>1
            <3> QED
                BY <1>3, <3>1
        <2> QED
            BY <2>2, <2>3
    <1> HIDE DEF c
    <1>5. DOMAIN low = 1..c /\ \A p \in 1..c : low[p] = Nth(ready, p)
        BY DEF Low, c
    <1>6. second \in [1..c -> Scores \cup {Unscored}]
        BY DEF GptScores, c
    <1> HIDE DEF low
    <1>7. /\ DOMAIN b = 1..c /\ b = [p \in 1..c |-> b[p]]
          /\ \A p \in 1..c : b[p] = Rollout(low[p], second[p])
        BY <1>5 DEF Answers, low
    <1> HIDE DEF b
    <1>8. \A p \in 1..c : low[p] \in 1..Rows /\ second[p] \in Scores \cup {Unscored}
        BY <1>1, <1>3, <1>5, <1>6
    <1>9. \A p \in 1..c : /\ b[p] \in Row({0}) /\ b[p].src = low[p] /\ b[p].score = second[p]
                          /\ ~b[p].pad /\ b[p].mask /\ b[p].weight
        BY <1>7, <1>8, RolloutIs
    <1>10. b \in Seq(Row({0}))
        BY <1>2, <1>7, <1>9
    <1>11. S \in SUBSET DOMAIN b /\ \A p \in S : Accept(second[p], initial[low[p]])
        BY <1>5, <1>7 DEF Accepted, FirstScoreOf, low
    <1> HIDE DEF S
    <1>12. /\ a \in Seq(Row({0}))
           /\ \A k \in DOMAIN a : Nth(S, k) \in S /\ a[k] = b[Nth(S, k)]
           /\ \A k, l \in DOMAIN a : k # l => Nth(S, k) # Nth(S, l)
        BY <1>10, <1>11, Selected
    <1> HIDE DEF a
    <1>13. \A p \in S : Improves(b[p], initial)
        <2> SUFFICES ASSUME NEW p \in S PROVE Improves(b[p], initial)
            OBVIOUS
        <2>1. p \in 1..c /\ low[p] \in LowIdxs
            BY <1>1, <1>3, <1>5, <1>7, <1>11
        <2>2. b[p].src = low[p] /\ b[p].score = second[p] /\ Accept(second[p], initial[low[p]])
            BY <1>9, <1>11, <2>1
        <2>3. initial[low[p]] \in 0..(MinScore - 1)
            <3>1. initial[low[p]] \in Scores /\ initial[low[p]] < MinScore
                BY <1>8, <2>1 DEF LowIdxs, Scored, FirstScores
            <3>2. initial[low[p]] \in Nat /\ MinScore \in Nat
                BY <3>1, ScoreAssumption
            <3> DEFINE v == initial[low[p]]
            <3> HIDE DEF v
            <3>3. v \in 0..(MinScore - 1)
                BY <3>1, <3>2 DEF v
            <3> QED
                BY <3>3 DEF v
        <2> QED
            BY <2>2, <2>3 DEF Improves, Accept
    <1>14. \A k \in DOMAIN a : ~a[k].pad /\ a[k].mask /\ a[k].weight /\ Improves(a[k], initial)
        BY <1>7, <1>9, <1>11, <1>12, <1>13
    <1>15. \A k, l \in DOMAIN a : a[k].src = a[l].src => k = l
        <2> SUFFICES ASSUME NEW k \in DOMAIN a, NEW l \in DOMAIN a, k # l
                     PROVE  a[k].src # a[l].src
            OBVIOUS
        <2>1. Nth(S, k) # Nth(S, l) /\ Nth(S, k) \in 1..c /\ Nth(S, l) \in 1..c
            BY <1>7, <1>11, <1>12
        <2>2. low[Nth(S, k)] # low[Nth(S, l)]
            BY <1>4, <1>5, <2>1
        <2> QED
            BY <1>9, <1>12, <2>1, <2>2
    <1>16. Seconds(a, initial)
        BY <1>12, <1>14, <1>15 DEF Seconds
    <1> QED
        BY <1>16 DEF a, b, S

(* The rows of the kinds given, none of them padding.                       *)
OfKinds(b, KS) == \A i \in DOMAIN b : b[i].kind \in KS /\ ~b[i].pad

(* The kinds of rows in two batches.                                        *)
LEMMA JoinedKinds ==
    ASSUME NEW R, NEW x \in Seq(R), NEW y \in Seq(R), NEW KS, NEW LS,
           OfKinds(x, KS), OfKinds(y, LS)
    PROVE  OfKinds(x \o y, KS \cup LS)
    <1> DEFINE z == x \o y
               n == Len(x)
    <1>1. \A k \in DOMAIN z : \/ k \in DOMAIN x /\ z[k] = x[k]
                              \/ k - n \in DOMAIN y /\ z[k] = y[k - n]
        BY ConcatPlaces
    <1> HIDE DEF z, n
    <1>2. OfKinds(z, KS \cup LS)
        BY <1>1 DEF OfKinds
    <1> QED
        BY <1>2 DEF z

(* Rows with the plain prompt.                                              *)
Plain == {"reroll_sft", "reroll_nohint"}

(* Rows of other kinds are about something else, unless both have the plain *)
(* prompt.                                                                  *)
LEMMA KindsApart ==
    ASSUME NEW x, NEW y, NEW KS, NEW LS, OfKinds(x, KS), OfKinds(y, LS),
           KS \cap LS = {}, KS \cap Plain = {} \/ LS \cap Plain = {},
           "plain" \notin KS \cup LS
    PROVE  Apart(x, y)
    BY DEF Apart, OfKinds, Subject, Plain

(* The rows of the step, then what is appended.                             *)
LEMMA ConcatRows ==
    ASSUME initial \in FirstScores, batch = [i \in 1..Rows |-> Rollout(i, initial[i])],
           NEW a, Seconds(a, initial)
    PROVE  LET z == ConcatTrainingBatches(a) IN
           /\ RowsOK(z, {0}, initial) /\ Originals(z) = 1..Rows
           /\ Len(z) \in Nat /\ Len(z) >= Rows /\ NoPadding(z)
           /\ ~HasAppended(z) => Len(z) = Rows
    <1> DEFINE b == batch
               H == HintRows(a)
               S == SftRows(a)
               N == NohintRows(a)
               bH == b \o H
               bHS == bH \o S
               z == bHS \o N
               T == {0}
    <1>1. /\ RowsOK(b, T, initial) /\ Len(b) = Rows /\ Originals(b) = 1..Rows
          /\ OfKinds(b, {"orig"})
        BY RolloutRows DEF OfKinds
    <1>2. RowsOK(H, T, initial) /\ \A p \in DOMAIN H : H[p].kind = "reroll_hint"
        BY HintRowsOK
    <1>3. RowsOK(S, T, initial) /\ \A p \in DOMAIN S : S[p].kind = "reroll_sft"
        BY SftRowsOK
    <1>4. RowsOK(N, T, initial) /\ \A p \in DOMAIN N : N[p].kind = "reroll_nohint"
        BY NohintRowsOK
    <1>5. S = <<>> \/ N = <<>>
        BY DEF SftRows, NohintRows
    <1>6. ConcatTrainingBatches(a) = z
        BY DEF ConcatTrainingBatches
    <1> HIDE DEF b, H, S, N, T
    <1>7. OfKinds(H, {"reroll_hint"}) /\ OfKinds(S, {"reroll_sft"}) /\ OfKinds(N, {"reroll_nohint"})
        BY <1>2, <1>3, <1>4 DEF OfKinds, RowsOK, RowOK
    <1>8. b \in Seq(Row(T)) /\ H \in Seq(Row(T)) /\ S \in Seq(Row(T)) /\ N \in Seq(Row(T))
        BY <1>1, <1>2, <1>3, <1>4 DEF RowsOK
    <1>9. bH \in Seq(Row(T)) /\ OfKinds(bH, {"orig"} \cup {"reroll_hint"}) /\ RowsOK(bH, T, initial)
        <2>1. Apart(b, H)
            BY <1>1, <1>7, KindsApart DEF Plain
        <2> QED
            BY <1>1, <1>2, <1>7, <1>8, <2>1, RowsJoined, JoinedKinds
    <1>10. Len(bH) = Len(b) + Len(H) /\ Originals(bH) = Originals(b) \cup Originals(H)
           /\ (HasAppended(bH) <=> HasAppended(b) \/ HasAppended(H))
        BY <1>8, JoinedHas
    <1> HIDE DEF bH
    <1>11. /\ bHS \in Seq(Row(T)) /\ OfKinds(bHS, ({"orig"} \cup {"reroll_hint"}) \cup {"reroll_sft"})
           /\ RowsOK(bHS, T, initial)
        <2>1. Apart(bH, S)
            BY <1>7, <1>9, KindsApart DEF Plain
        <2> QED
            BY <1>3, <1>7, <1>8, <1>9, <2>1, RowsJoined, JoinedKinds
    <1>12. Len(bHS) = Len(bH) + Len(S) /\ Originals(bHS) = Originals(bH) \cup Originals(S)
           /\ (HasAppended(bHS) <=> HasAppended(bH) \/ HasAppended(S))
        BY <1>8, <1>9, JoinedHas
    <1>13. S = <<>> => bHS = bH
        BY <1>9
    <1> HIDE DEF bHS
    <1>14. Apart(bHS, N)
        <2>1. CASE S = <<>>
            <3>1. OfKinds(bHS, {"orig", "reroll_hint"})
                BY <1>9, <1>13, <2>1 DEF OfKinds
            <3> QED
                BY <1>7, <3>1, KindsApart DEF Plain
        <2>2. CASE N = <<>>
            BY <2>2 DEF Apart
        <2> QED
            BY <1>5, <2>1, <2>2
    <1>15. RowsOK(z, T, initial) /\ OfKinds(z, {"orig", "reroll_hint", "reroll_sft"} \cup {"reroll_nohint"})
        <2>1. OfKinds(bHS, {"orig", "reroll_hint", "reroll_sft"})
            BY <1>11 DEF OfKinds
        <2> QED
            BY <1>4, <1>7, <1>8, <1>11, <1>14, <2>1, RowsJoined, JoinedKinds
    <1>16. Len(z) = Len(bHS) + Len(N) /\ Originals(z) = Originals(bHS) \cup Originals(N)
           /\ (HasAppended(z) <=> HasAppended(bHS) \/ HasAppended(N))
        BY <1>8, <1>11, JoinedHas
    <1> HIDE DEF z
    <1>17. Originals(H) = {} /\ Originals(S) = {} /\ Originals(N) = {}
        BY <1>2, <1>3, <1>4 DEF Originals
    <1>18. /\ Len(H) \in Nat /\ Len(S) \in Nat /\ Len(N) \in Nat
           /\ ~HasAppended(H) => Len(H) = 0
           /\ ~HasAppended(S) => Len(S) = 0
           /\ ~HasAppended(N) => Len(N) = 0
        <2>1. ASSUME NEW x \in {H, S, N}, ~HasAppended(x)
              PROVE  Len(x) = 0
            <3>1. Len(x) \in Nat /\ DOMAIN x = 1..Len(x)
                BY <1>8
            <3>2. \A p \in DOMAIN x : x[p].kind \in {"reroll_hint", "reroll_sft", "reroll_nohint"}
                BY <1>2, <1>3, <1>4
            <3>3. \A p \in DOMAIN x : FALSE
                BY <2>1, <3>2 DEF HasAppended, Appended
            <3> DEFINE n == Len(x)
            <3>4. n \in Nat /\ \A p \in 1..n : FALSE
                BY <3>1, <3>3
            <3> HIDE DEF n
            <3>5. ~(n > 0)
                <4>1. n > 0 => 1 \in 1..n
                    BY <3>4
                <4> QED
                    BY <3>4, <4>1
            <3> QED
                BY <3>4, <3>5 DEF n
        <2> QED
            BY <1>8, <2>1
    <1>19. Rows \in Nat
        BY SizeAssumption
    <1> QED
        BY <1>1, <1>6, <1>10, <1>12, <1>15, <1>16, <1>17, <1>18, <1>19 DEF T, OfKinds, NoPadding

(* Row j is ranked before row i.                                            *)
Better(v, j, i) == v[j] > v[i] \/ (v[j] = v[i] /\ j < i)

(* A better row has the lower rank.                                         *)
LEMMA RankOrder ==
    ASSUME NEW n \in Nat, NEW S \in SUBSET (1..n), NEW v, \A i \in S : v[i] \in Int
    PROVE  /\ \A i \in S : RankDescending(v, S)[i] \in Nat
           /\ \A i, j \in S : Better(v, i, j) => RankDescending(v, S)[i] < RankDescending(v, S)[j]
           /\ \A i \in S : RankDescending(v, S)[i] # 0 => \E j \in S : Better(v, j, i)
    <1> DEFINE B(i) == {j \in S : Better(v, j, i)}
    <1>1. \A i \in S : RankDescending(v, S)[i] = Cardinality(B(i))
        BY DEF RankDescending, Better
    <1>2. \A i \in S : B(i) \in SUBSET S
        OBVIOUS
    <1>3. \A i \in S : IsFiniteSet(B(i)) /\ Cardinality(B(i)) \in Nat
        BY <1>2, PlacesFinite
    <1>4. ASSUME NEW i \in S, NEW j \in S, Better(v, i, j)
          PROVE  Cardinality(B(i)) < Cardinality(B(j))
        <2>1. i \in Nat /\ j \in Nat /\ v[i] \in Int /\ v[j] \in Int
            OBVIOUS
        <2>2. \A k \in S : Better(v, k, i) => Better(v, k, j)
            <3> SUFFICES ASSUME NEW k \in S, Better(v, k, i) PROVE Better(v, k, j)
                OBVIOUS
            <3>1. k \in Nat /\ v[k] \in Int
                OBVIOUS
            <3> QED
                BY <1>4, <2>1, <3>1 DEF Better
        <2>3. B(i) \in SUBSET B(j)
            BY <2>2
        <2>4. i \in B(j) /\ i \notin B(i)
            BY <1>4, <2>1 DEF Better
        <2> HIDE DEF B
        <2>5. Cardinality(B(i)) <= Cardinality(B(j)) /\ Cardinality(B(i)) # Cardinality(B(j))
            BY <1>3, <2>3, <2>4, FS_Subset
        <2> QED
            BY <1>3, <2>5
    <1>5. \A i \in S : Cardinality(B(i)) # 0 => \E j \in S : Better(v, j, i)
        <2> SUFFICES ASSUME NEW i \in S, Cardinality(B(i)) # 0
                     PROVE  \E j \in S : Better(v, j, i)
            OBVIOUS
        <2>1. B(i) # {}
            BY FS_EmptySet
        <2> QED
            BY <2>1
    <1> HIDE DEF B
    <1> QED
        BY <1>1, <1>3, <1>4, <1>5

(* Some row has rank 0.                                                     *)
LEMMA SomeIsBest ==
    ASSUME NEW n \in Nat, NEW S \in SUBSET (1..n), S # {}, NEW v, \A i \in S : v[i] \in Int
    PROVE  \E i \in S : RankDescending(v, S)[i] = 0
    <1> DEFINE r(i) == RankDescending(v, S)[i]
               T == {r(i) : i \in S}
    <1>1. \A i \in S : r(i) \in Nat
        BY RankOrder
    <1>2. \A i, j \in S : Better(v, i, j) => r(i) < r(j)
        BY RankOrder
    <1>3. \A i \in S : r(i) # 0 => \E j \in S : Better(v, j, i)
        BY RankOrder
    <1> HIDE DEF r
    <1>4. T \subseteq Nat /\ T # {}
        BY <1>1
    <1>5. PICK x \in T : \A y \in T : x <= y
        BY <1>4, LeastOf
    <1>6. PICK i \in S : x = r(i)
        OBVIOUS
    <1>7. r(i) = 0
        <2> SUFFICES ASSUME r(i) # 0 PROVE FALSE
            OBVIOUS
        <2>1. PICK j \in S : Better(v, j, i)
            BY <1>3
        <2>2. r(j) < r(i) /\ r(j) \in T
            BY <1>2, <2>1
        <2> QED
            BY <1>1, <1>5, <1>6, <2>2
    <1> QED
        BY <1>7 DEF r

(* The types of the rows of a batch.                                        *)
LEMMA RowsTyped ==
    ASSUME NEW Sh, NEW first, NEW b, RowsOK(b, Sh, first)
    PROVE  /\ b \in Seq(Row(Sh)) /\ Len(b) \in Nat /\ DOMAIN b = 1..Len(b)
           /\ \A i \in DOMAIN b : /\ b[i] \in Row(Sh) /\ RowOK(b[i], first) /\ b[i].score \in Int
                                  /\ b[i].src \in 1..Rows /\ b[i].teacher \in Int
    <1>1. b \in Seq(Row(Sh)) /\ Len(b) \in Nat /\ DOMAIN b = 1..Len(b)
        BY DEF RowsOK
    <1>2. \A i \in DOMAIN b : b[i] \in Row(Sh) /\ RowOK(b[i], first)
        BY <1>1 DEF RowsOK
    <1>3. \A r \in Row(Sh) : r.score \in Int /\ r.src \in 1..Rows /\ r.teacher \in Int
        <2>1. \A r \in Row(Sh) : /\ r.score \in Scores \cup {Unscored} /\ r.src \in 1..Rows
                                  /\ r.teacher \in TeacherScores \cup {0}
            BY DEF Row
        <2>2. \A x \in Scores \cup {Unscored} : x \in Int
            BY ScoresInt
        <2>3. \A x \in TeacherScores \cup {0} : x \in Int
            BY ScoreAssumption
        <2> QED
            BY <2>1, <2>2, <2>3
    <1> QED
        BY <1>1, <1>2, <1>3

(* Only ranked first answers are candidates, and the best row stays when     *)
(* all might go.                                                           *)
LEMMA DropLeaves ==
    ASSUME NEW Sh, NEW first, NEW b, RowsOK(b, Sh, first), Len(b) > 0,
           HasAppended(b) \/ NoPadding(b), Ranked(b) # {}
    PROVE  \E i \in DOMAIN b : i \notin DropSet(b) /\ ~b[i].pad
    <1> DEFINE drop == HighGap(b) \cap DropCandidates(b)
               v == [i \in DOMAIN b |-> b[i].score]
    <1>1. /\ Len(b) \in Nat /\ DOMAIN b = 1..Len(b)
          /\ \A i \in DOMAIN b : RowOK(b[i], first) /\ b[i].score \in Int
        BY RowsTyped
    <1>2. Ranked(b) \subseteq DOMAIN b /\ \A i \in Ranked(b) : b[i].kind = "orig"
        BY DEF Ranked, Eligible
    <1>3. drop \subseteq Ranked(b)
        BY DEF HighGap
    <1> HIDE DEF drop
    <1>4. DropSet(b) = KeepBest(b, drop)
        BY DEF DropSet, drop
    <1>5. DropSet(b) \subseteq drop
        BY <1>4 DEF KeepBest
    <1>6. CASE HasAppended(b)
        <2>1. PICK i \in DOMAIN b : Appended(b[i])
            BY <1>6 DEF HasAppended
        <2>2. b[i].kind # "orig" /\ ~b[i].pad
            BY <1>1, <2>1 DEF Appended, RowOK
        <2> QED
            BY <1>2, <1>3, <1>5, <2>2
    <1>7. CASE NoPadding(b) /\ drop # DOMAIN b
        BY <1>2, <1>3, <1>5, <1>7 DEF NoPadding
    <1>8. CASE NoPadding(b) /\ drop = DOMAIN b
        <2>1. \E i \in Ranked(b) : RubricRank(b)[i] = 0
            <3>1. \A i \in Ranked(b) : v[i] \in Int
                BY <1>1, <1>2
            <3>2. Ranked(b) \in SUBSET (1..Len(b))
                BY <1>1, <1>2
            <3> HIDE DEF v
            <3>3. \E i \in Ranked(b) : RankDescending(v, Ranked(b))[i] = 0
                BY <1>1, <3>1, <3>2, SomeIsBest
            <3> QED
                BY <3>3 DEF RubricRank, v
        <2>2. DropSet(b) = {i \in drop : RubricRank(b)[i] # 0}
            BY <1>4, <1>8 DEF KeepBest
        <2> QED
            BY <1>2, <1>8, <2>1, <2>2 DEF NoPadding
    <1> QED
        BY <1>6, <1>7, <1>8

(* An accepted second answer has a gain, so that its row without the hint   *)
(* has a weight: it must improve, or the scores that make a first answer low *)
(* and a second one acceptable do not overlap, or the row needs a gain.     *)
SecondsTrain ==
    RequireImprovement \/ MinScore =< AppendMinScore \/ NohintMinGain > 0

(* Every row that is no padding is trained on.                              *)
LEMMA RowTrains ==
    ASSUME SecondsTrain, NEW Sh, NEW first \in FirstScores, NEW r \in Row(Sh), RowOK(r, first), ~r.pad
    PROVE  Trains(r)
    <1>1. r.mask /\ r.kind # "padding" /\ r.kind \in Kinds
        BY DEF RowOK, Row
    <1>2. r.score \in Int /\ first[r.src] \in Int
        BY ScoresInt DEF Row, FirstScores
    <1>3. CASE r.kind \in {"orig", "reroll_hint"}
        BY <1>1, <1>3 DEF RowOK, Trains, TrainsOpd
    <1>4. CASE r.kind = "reroll_sft"
        BY <1>1, <1>4 DEF RowOK, Trains, TrainsSft
    <1>5. CASE r.kind = "reroll_nohint"
        <2> DEFINE s == r.score
                   f == first[r.src]
        <2>1. /\ s \in Int /\ f \in 0..(MinScore - 1) /\ s >= AppendMinScore
              /\ RequireImprovement => s - f > AppendMinGain
              /\ s - f >= NohintMinGain
              /\ r.weight <=> s - f > 0
            BY <1>2, <1>5 DEF RowOK, Appended, Improves
        <2> HIDE DEF s, f
        <2>2. s - f > 0
            BY <2>1, ScoresInt DEF SecondsTrain
        <2> QED
            BY <1>1, <1>5, <2>1, <2>2 DEF Trains, TrainsOpd
    <1> QED
        BY <1>1, <1>3, <1>4, <1>5 DEF Kinds

(* The types: where the step is, and what an entry of the history is.       *)
Phases == {"rollout", "reroll", "pad", "logprob", "rank", "pad_update", "update", "done", "failed"}
Entry == [step : 1..MaxSteps, src : 1..Rows, score : Scores]

(* The types of everything but the batch.                                   *)
BaseInv ==
    /\ config \in Configs /\ phase \in Phases
    /\ global_steps \in 1..(MaxSteps + 1)
    /\ initial \in FirstScores
    /\ dropped \subseteq 1..Rows
    /\ history \in Seq(Entry)

(* The rows that go, if any is ranked.                                      *)
Drop(b) == IF Ranked(b) = {} THEN {} ELSE DropSet(b)

(* Only ranked first answers are dropped.                                   *)
LEMMA DropsFirstAnswers ==
    ASSUME NEW b
    PROVE  Drop(b) \subseteq Ranked(b) /\ Ranked(b) \subseteq Eligible(b) /\ Eligible(b) \subseteq DOMAIN b
    BY DEF Drop, DropSet, KeepBest, HighGap, Ranked, Eligible

(* What is left after a drop.                                               *)
LEMMA KeptRows ==
    ASSUME NEW Sh, NEW first, NEW b, RowsOK(b, Sh, first), NEW S \in SUBSET DOMAIN b
    PROVE  LET s == SelectIdxs(b, S) IN
           /\ RowsOK(s, Sh, first) /\ Len(s) \in Nat /\ DOMAIN s = 1..Len(s)
           /\ \A k \in DOMAIN s : \E i \in S : s[k] = b[i]
           /\ \A i \in S : \E k \in DOMAIN s : s[k] = b[i]
    <1> DEFINE s == SelectIdxs(b, S)
               f == [k \in DOMAIN s |-> Nth(S, k)]
    <1>1. b \in Seq(Row(Sh)) /\ DOMAIN b = 1..Len(b)
        BY RowsTyped
    <1>2. /\ s \in Seq(Row(Sh)) /\ Len(s) = Cardinality(S) /\ DOMAIN s = 1..Cardinality(S)
          /\ Cardinality(S) \in Nat
          /\ \A k \in DOMAIN s : Nth(S, k) \in S /\ s[k] = b[Nth(S, k)]
          /\ \A k, l \in DOMAIN s : k # l => Nth(S, k) # Nth(S, l)
          /\ \A i \in S : \E k \in DOMAIN s : Nth(S, k) = i
        BY <1>1, Selected
    <1> HIDE DEF s
    <1>3. /\ \A k \in DOMAIN s : f[k] \in DOMAIN b /\ Like(s[k], b[f[k]])
          /\ \A k, l \in DOMAIN s : k # l => f[k] # f[l]
        BY <1>2 DEF Like
    <1> HIDE DEF f
    <1>4. RowsOK(s, Sh, first)
        <2>1. s \in Seq(Row(Sh))
            BY <1>2
        <2> QED
            BY <1>3, <2>1, RowsMoved
    <1>5. \A i \in S : \E k \in DOMAIN s : s[k] = b[i]
        BY <1>2
    <1> QED
        BY <1>2, <1>4, <1>5 DEF s

(* The first answers left are those that were not dropped.                  *)
LEMMA KeptOriginals ==
    ASSUME NEW Sh, NEW first, NEW b, RowsOK(b, Sh, first), Originals(b) = 1..Rows
    PROVE  LET s == SelectIdxs(b, DOMAIN b \ Drop(b)) IN
           /\ Originals(s) = (1..Rows) \ {b[i].src : i \in Drop(b)}
           /\ {b[i].src : i \in Drop(b)} \subseteq 1..Rows
    <1> DEFINE drop == Drop(b)
               S == DOMAIN b \ drop
               s == SelectIdxs(b, S)
               gone == {b[i].src : i \in drop}
    <1>1. /\ \A k \in DOMAIN s : \E i \in S : s[k] = b[i]
          /\ \A i \in S : \E k \in DOMAIN s : s[k] = b[i]
        <2> HIDE DEF drop
        <2>1. S \in SUBSET DOMAIN b
            OBVIOUS
        <2> HIDE DEF S
        <2> QED
            BY <2>1, KeptRows
    <1>2. \A i \in drop : i \in DOMAIN b /\ b[i].kind = "orig" /\ ~b[i].pad
        BY DropsFirstAnswers DEF Eligible
    <1>3. \A i \in DOMAIN b : b[i].src \in 1..Rows /\ RowOK(b[i], first)
        BY RowsTyped
    <1> HIDE DEF s, drop
    <1>4. \A i, j \in DOMAIN b : b[i].kind = "orig" /\ b[j].kind = "orig" /\ b[i].src = b[j].src => i = j
        <2>1. \A i \in DOMAIN b : b[i].kind = "orig" => ~b[i].pad /\ Subject(b[i]) = <<b[i].src, "orig">>
            BY <1>3 DEF RowOK, Subject
        <2> QED
            BY <2>1 DEF RowsOK, Distinct
    <1>5. ASSUME NEW x \in Originals(s) PROVE x \in (1..Rows) \ gone
        <2>1. PICK k \in DOMAIN s : s[k].kind = "orig" /\ x = s[k].src
            BY DEF Originals
        <2>2. PICK i \in S : s[k] = b[i]
            BY <1>1
        <2>3. x \notin gone
            BY <1>2, <1>4, <2>1, <2>2
        <2> QED
            BY <1>3, <2>1, <2>2, <2>3
    <1>6. ASSUME NEW x \in (1..Rows) \ gone PROVE x \in Originals(s)
        <2>1. PICK i \in DOMAIN b : b[i].kind = "orig" /\ x = b[i].src
            BY DEF Originals
        <2>2. i \in S
            BY <1>6, <2>1
        <2>3. PICK k \in DOMAIN s : s[k] = b[i]
            BY <1>1, <2>2
        <2> QED
            BY <2>1, <2>3 DEF Originals
    <1>7. gone \subseteq 1..Rows
        BY <1>2, <1>3
    <1>8. Originals(s) = (1..Rows) \ gone
        BY <1>5, <1>6
    <1> QED
        BY <1>7, <1>8 DEF s, drop

(* A row that is no padding is left.                                        *)
LEMMA KeptSome ==
    ASSUME NEW Sh, NEW first, NEW b, RowsOK(b, Sh, first), Originals(b) = 1..Rows, Len(b) > 0,
           HasAppended(b) \/ NoPadding(b)
    PROVE  LET s == SelectIdxs(b, DOMAIN b \ Drop(b)) IN
           Len(s) > 0 /\ \E k \in DOMAIN s : ~s[k].pad
    <1> DEFINE S == DOMAIN b \ Drop(b)
               s == SelectIdxs(b, S)
    <1>1. \E i \in S : ~b[i].pad
        <2>1. CASE Ranked(b) = {}
            <3>1. PICK i \in DOMAIN b : b[i].kind = "orig"
                <4>1. 1 \in Originals(b)
                    BY SizeAssumption
                <4> QED
                    BY <4>1 DEF Originals
            <3>2. ~b[i].pad
                BY <3>1, RowsTyped DEF RowOK
            <3> QED
                BY <2>1, <3>2 DEF Drop
        <2>2. CASE Ranked(b) # {}
            <3>1. PICK i \in DOMAIN b : i \notin DropSet(b) /\ ~b[i].pad
                BY <2>2, DropLeaves
            <3> QED
                BY <2>2, <3>1 DEF Drop
        <2> QED
            BY <2>1, <2>2
    <1>2. S \in SUBSET DOMAIN b
        OBVIOUS
    <1> HIDE DEF S
    <1>3. /\ \A i \in S : \E k \in DOMAIN s : s[k] = b[i]
          /\ Len(s) \in Nat /\ DOMAIN s = 1..Len(s)
        BY <1>2, KeptRows
    <1> HIDE DEF s
    <1>4. PICK k \in DOMAIN s : ~s[k].pad
        BY <1>1, <1>3
    <1>5. Len(s) > 0
        BY <1>3, <1>4
    <1> QED
        BY <1>4, <1>5 DEF s, S

(* The batch with its shifts, as in RankGap.                                *)
Shifted(kept) ==
    [i \in DOMAIN kept |-> [kept[i] EXCEPT !.shift = IF i \in Ranked(kept) THEN Shift(kept, i) ELSE 0]]

(* The values of a sign.                                                    *)
LEMMA SignIs == \A x : Sign(x) \in {-1, 0, 1}
    BY DEF Sign

(* The values of a shift.                                                   *)
LEMMA ShiftIs ==
    ASSUME NEW b, NEW i
    PROVE  (IF i \in Ranked(b) THEN Shift(b, i) ELSE 0) \in {-1, 0, 1}
    <1> DEFINE x == Sign(TeacherRank(b)[i] - RubricRank(b)[i])
               y == Sign(Denominator(b) - 2 * RubricRank(b)[i])
               z == HistoryShift(b[i])
    <1>1. x \in {-1, 0, 1} /\ y \in {-1, 0, 1}
        BY SignIs
    <1>2. z \in {-1, 0, 1}
        BY SignIs DEF HistoryShift
    <1>3. Shift(b, i) = CASE config.shift = "rank_residual" -> x
                          [] config.shift = "rubric_rank" -> y
                          [] config.shift = "history_zscore" -> z
                          [] OTHER -> 0
        BY DEF Shift
    <1> HIDE DEF x, y, z
    <1> QED
        BY <1>1, <1>2, <1>3

(* Shifts leave the rest of the rows alone.                                 *)
LEMMA ShiftedRows ==
    ASSUME NEW Sh, NEW first, NEW b, RowsOK(b, Sh, first)
    PROVE  /\ RowsOK(Shifted(b), {-1, 0, 1}, first) /\ Len(Shifted(b)) = Len(b)
           /\ DOMAIN Shifted(b) = DOMAIN b
           /\ Originals(Shifted(b)) = Originals(b)
           /\ HasTraining(Shifted(b)) <=> HasTraining(b)
           /\ \A i \in DOMAIN b : /\ Like(Shifted(b)[i], b[i])
                                  /\ Shifted(b)[i].shift = IF i \in Ranked(b) THEN Shift(b, i) ELSE 0
    <1> DEFINE z == Shifted(b)
               v(i) == IF i \in Ranked(b) THEN Shift(b, i) ELSE 0
    <1>1. b \in Seq(Row(Sh)) /\ Len(b) \in Nat /\ DOMAIN b = 1..Len(b)
          /\ \A i \in DOMAIN b : b[i] \in Row(Sh)
        BY RowsTyped
    <1>2. z = [i \in 1..Len(b) |-> [b[i] EXCEPT !.shift = v(i)]]
        BY <1>1 DEF Shifted
    <1>3. \A i : v(i) \in {-1, 0, 1}
        BY ShiftIs
    <1> HIDE DEF z, v
    <1>4. ASSUME NEW r \in Row(Sh), NEW x \in {-1, 0, 1}
          PROVE  LET q == [r EXCEPT !.shift = x] IN
                 q \in Row({-1, 0, 1}) /\ Like(q, r) /\ q.shift = x
        BY DEF Row, Like
    <1>5. \A i \in DOMAIN b : z[i] \in Row({-1, 0, 1}) /\ Like(z[i], b[i]) /\ z[i].shift = v(i)
        BY <1>1, <1>2, <1>3, <1>4
    <1>6. z \in Seq(Row({-1, 0, 1})) /\ DOMAIN z = DOMAIN b
        BY <1>1, <1>2, <1>5
    <1>7. /\ RowsOK(z, {-1, 0, 1}, first) /\ Len(z) = Len(b)
          /\ Originals(z) = Originals(b) /\ (HasTraining(z) <=> HasTraining(b))
        BY <1>5, <1>6, RowsChanged
    <1> QED
        BY <1>5, <1>6, <1>7 DEF z, v

(* Types, steps and the batch: the inductive invariant of what is in the    *)
(* batch.                                                                   *)
IInv == BaseInv /\ StepInv /\ BatchInv

(* The bounds are positive.                                                 *)
LEMMA Bounds == /\ MaxSteps \in Nat /\ MaxSteps >= 1 /\ HistorySize \in Nat /\ HistorySize >= 1
                /\ Rows \in Nat /\ Rows >= 1
    BY HistoryAssumption, SizeAssumption

(* The empty batch.                                                         *)
LEMMA EmptyHas ==
    /\ RowsOK(<<>>, {0}, initial) /\ Originals(<<>>) = {} /\ ~HasAppended(<<>>) /\ ~HasTraining(<<>>)
    BY DEF RowsOK, Distinct, Originals, HasAppended, HasTraining

(* The invariant holds at the start.                                        *)
LEMMA InitRows == Init => IInv /\ TrainingInv
    <1> SUFFICES ASSUME Init PROVE IInv /\ TrainingInv
        OBVIOUS
    <1>1. /\ config \in Configs /\ phase = "rollout" /\ global_steps = 1 /\ batch = <<>>
          /\ dropped = {} /\ history = <<>> /\ initial = [i \in 1..Rows |-> Unscored]
        BY DEF Init
    <1>2. initial \in FirstScores /\ <<>> \in Seq(Entry)
        BY <1>1 DEF FirstScores
    <1>3. BaseInv
        BY <1>1, <1>2, Bounds DEF BaseInv, Phases
    <1>4. StepInv
        BY <1>1, Bounds DEF StepInv, Late
    <1> QED
        BY <1>1, <1>3, <1>4 DEF IInv, BatchInv, TrainingInv, Early, Late

(* RolloutAndScore keeps the invariant.                                     *)
LEMMA RolloutStep ==
    ASSUME IInv, RolloutAndScore
    PROVE  (IInv /\ TrainingInv)'
    <1>1. /\ phase = "rollout" /\ phase' = "reroll" /\ initial' \in FirstScores
          /\ batch' = [i \in 1..Rows |-> Rollout(i, initial'[i])]
          /\ UNCHANGED <<config, global_steps, dropped, history>>
        BY DEF RolloutAndScore, GptScores, FirstScores
    <1>2. dropped = {} /\ global_steps =< MaxSteps /\ \A k \in DOMAIN history : history[k].step < global_steps
        BY <1>1 DEF IInv, BatchInv, StepInv, Late
    <1>3. /\ RowsOK(batch', {0}, initial') /\ Len(batch') = Rows /\ Originals(batch') = 1..Rows
          /\ \A i \in 1..Rows : batch'[i] = Rollout(i, initial'[i])
        BY <1>1, RolloutRows
    <1>4. BaseInv'
        BY <1>1 DEF IInv, BaseInv, Phases
    <1>5. StepInv'
        BY <1>1, <1>2 DEF IInv, StepInv, Late
    <1>6. (BatchInv /\ TrainingInv)'
        BY <1>1, <1>2, <1>3 DEF BatchInv, TrainingInv, Early, Late
    <1> QED
        BY <1>4, <1>5, <1>6 DEF IInv

(* Reroll keeps the invariant: what is appended beats its own first answer. *)
LEMMA RerollStep ==
    ASSUME IInv, Reroll
    PROVE  (IInv /\ TrainingInv)'
    <1>1. /\ phase = "reroll" /\ phase' \in {"pad", "failed"}
          /\ UNCHANGED <<config, global_steps, initial, dropped, history>>
        BY DEF Reroll
    <1>2. /\ dropped = {} /\ RowsOK(batch, {0}, initial) /\ Len(batch) = Rows
          /\ \A i \in 1..Rows : batch[i] = Rollout(i, initial[i])
          /\ initial \in FirstScores
        BY <1>1 DEF IInv, BaseInv, BatchInv, Early
    <1>3. batch = [i \in 1..Rows |-> Rollout(i, initial[i])]
        <2>1. batch \in Seq(Row({0})) /\ DOMAIN batch = 1..Rows
            BY <1>2, RowsTyped
        <2> QED
            BY <1>2, <2>1
    <1>4. CASE phase' = "failed"
        <2>1. batch' = batch
            BY <1>4 DEF Reroll
        <2>2. BaseInv'
            BY <1>1, <1>4 DEF IInv, BaseInv, Phases
        <2>3. StepInv'
            BY <1>1, <1>4 DEF IInv, StepInv, Late
        <2>4. (BatchInv /\ TrainingInv)'
            BY <1>1, <1>2, <1>4, <2>1 DEF BatchInv, TrainingInv, Early, Late
        <2> QED
            BY <2>2, <2>3, <2>4 DEF IInv
    <1>5. CASE phase' = "pad"
        <2>1. PICK ready \in PromptReady(IF config.reroll THEN LowIdxs ELSE {}) :
              \E second \in GptScores(Cardinality(ready)) :
                 batch' = ConcatTrainingBatches(SelectIdxs(Answers(ready, second), Accepted(ready, second)))
            BY <1>5 DEF Reroll, Low, Answers, Accepted
        <2>2. PICK second \in GptScores(Cardinality(ready)) :
                 batch' = ConcatTrainingBatches(SelectIdxs(Answers(ready, second), Accepted(ready, second)))
            BY <2>1
        <2>3. ready \in SUBSET LowIdxs
            BY DEF PromptReady
        <2> DEFINE a == SelectIdxs(Answers(ready, second), Accepted(ready, second))
        <2>4. Seconds(a, initial)
            BY <1>2, <2>3, AcceptedAre
        <2> HIDE DEF a
        <2>5. /\ RowsOK(batch', {0}, initial) /\ Originals(batch') = 1..Rows
              /\ Len(batch') >= Rows /\ NoPadding(batch')
              /\ ~HasAppended(batch') => Len(batch') = Rows
            BY <1>2, <1>3, <2>2, <2>4, ConcatRows DEF a
        <2>6. BaseInv'
            BY <1>1, <1>5 DEF IInv, BaseInv, Phases
        <2>7. StepInv'
            BY <1>1, <1>5 DEF IInv, StepInv, Late
        <2>8. (BatchInv /\ TrainingInv)'
            BY <1>1, <1>2, <1>5, <2>5 DEF BatchInv, TrainingInv, Early, Late
        <2> QED
            BY <2>6, <2>7, <2>8 DEF IInv
    <1> QED
        BY <1>1, <1>4, <1>5

(* PadAndBalance keeps the invariant: it splits evenly, in either order.    *)
LEMMA PadStep ==
    ASSUME IInv, PadAndBalance
    PROVE  (IInv /\ TrainingInv)'
    <1>1. /\ phase = "pad" /\ phase' = "logprob"
          /\ batch' \in {Padded(batch), Reversed(Padded(batch))}
          /\ UNCHANGED <<config, global_steps, initial, dropped, history>>
        BY DEF PadAndBalance
    <1>2. /\ dropped = {} /\ RowsOK(batch, {0}, initial) /\ Len(batch) >= Rows
          /\ ~HasAppended(batch) => Len(batch) = Rows /\ NoPadding(batch)
          /\ Originals(batch) = (1..Rows) \ dropped
        BY <1>1 DEF IInv, BatchInv, Early, Late
    <1> DEFINE z == Padded(batch)
    <1>3. /\ RowsOK(z, {0}, initial) /\ Even(z) /\ Originals(z) = Originals(batch)
          /\ HasAppended(z) <=> HasAppended(batch)
          /\ Len(batch) % Divisor = 0 => z = batch
        <2>1. Len(batch) > 0
            BY <1>2, Bounds, RowsTyped
        <2> QED
            BY <1>2, <2>1, PaddedRows
    <1> HIDE DEF z
    <1>4. ~HasAppended(z) => NoPadding(z)
        BY <1>2, <1>3, SizeAssumption
    <1>5. /\ RowsOK(batch', {0}, initial) /\ Even(batch') /\ Originals(batch') = Originals(batch)
          /\ ~HasAppended(batch') => NoPadding(batch')
        <2>1. CASE batch' = z
            BY <1>3, <1>4, <2>1
        <2>2. CASE batch' = Reversed(z)
            <3>1. /\ RowsOK(batch', {0}, initial) /\ Len(batch') = Len(z)
                  /\ Originals(batch') = Originals(z)
                  /\ HasAppended(batch') <=> HasAppended(z)
                  /\ NoPadding(batch') <=> NoPadding(z)
                BY <1>3, <2>2, ReversedRows
            <3> QED
                BY <1>3, <1>4, <3>1 DEF Even
        <2> QED
            BY <1>1, <2>1, <2>2 DEF z
    <1>6. BaseInv'
        BY <1>1 DEF IInv, BaseInv, Phases
    <1>7. StepInv'
        BY <1>1 DEF IInv, StepInv, Late
    <1>8. (BatchInv /\ TrainingInv)'
        BY <1>1, <1>2, <1>5 DEF BatchInv, TrainingInv, Early, Late
    <1> QED
        BY <1>6, <1>7, <1>8 DEF IInv

(* ComputeLogProbs keeps the invariant.                                     *)
LEMMA LogProbStep ==
    ASSUME IInv, ComputeLogProbs
    PROVE  (IInv /\ TrainingInv)'
    <1>1. /\ phase = "logprob" /\ phase' = "rank"
          /\ UNCHANGED <<config, global_steps, initial, dropped, history>>
        BY DEF ComputeLogProbs
    <1>2. PICK t \in [1..Rows -> TeacherScores] :
             batch' = [i \in DOMAIN batch |->
                        [batch[i] EXCEPT !.teacher = IF batch[i].mask THEN t[batch[i].src] ELSE 0]]
        BY DEF ComputeLogProbs
    <1>3. /\ dropped = {} /\ RowsOK(batch, {0}, initial) /\ Even(batch)
          /\ ~HasAppended(batch) => NoPadding(batch)
          /\ Originals(batch) = (1..Rows) \ dropped
        BY <1>1 DEF IInv, BatchInv, Early, Late
    <1>4. /\ batch \in Seq(Row({0})) /\ Len(batch) \in Nat /\ DOMAIN batch = 1..Len(batch)
          /\ \A i \in DOMAIN batch : batch[i] \in Row({0}) /\ batch[i].src \in 1..Rows
        BY <1>3, RowsTyped
    <1> DEFINE z == batch'
               v(i) == IF batch[i].mask THEN t[batch[i].src] ELSE 0
    <1>5. \A i \in DOMAIN batch : v(i) \in TeacherScores \cup {0}
        BY <1>4
    <1>6. z = [i \in 1..Len(batch) |-> [batch[i] EXCEPT !.teacher = v(i)]]
        BY <1>2, <1>4
    <1> HIDE DEF v, z
    <1>7. ASSUME NEW r \in Row({0}), NEW x \in TeacherScores \cup {0}
          PROVE  LET q == [r EXCEPT !.teacher = x] IN q \in Row({0}) /\ Like(q, r)
        BY DEF Row, Like
    <1>8. \A i \in DOMAIN batch : z[i] \in Row({0}) /\ Like(z[i], batch[i])
        BY <1>4, <1>5, <1>6, <1>7
    <1>9. z \in Seq(Row({0})) /\ DOMAIN z = DOMAIN batch
        BY <1>4, <1>6, <1>8
    <1>10. /\ RowsOK(z, {0}, initial) /\ Len(z) = Len(batch) /\ Originals(z) = Originals(batch)
           /\ HasAppended(z) <=> HasAppended(batch)
           /\ NoPadding(z) <=> NoPadding(batch)
        BY <1>3, <1>8, <1>9, RowsChanged
    <1>11. Even(z) /\ (~HasAppended(z) => NoPadding(z))
        BY <1>3, <1>10 DEF Even
    <1>12. BaseInv'
        BY <1>1 DEF IInv, BaseInv, Phases
    <1>13. StepInv'
        BY <1>1 DEF IInv, StepInv, Late
    <1>14. (BatchInv /\ TrainingInv)'
        BY <1>1, <1>3, <1>10, <1>11 DEF BatchInv, TrainingInv, Early, Late, z
    <1> QED
        BY <1>12, <1>13, <1>14 DEF IInv

(* PadForUpdate keeps the invariant.                                        *)
LEMMA PadUpdateStep ==
    ASSUME IInv, PadForUpdate
    PROVE  IInv' /\ (TrainingInv => TrainingInv')
    <1>1. /\ phase = "pad_update" /\ phase' = "update" /\ batch' = ZeroPadding(Padded(batch))
          /\ UNCHANGED <<config, global_steps, initial, dropped, history>>
        BY DEF PadForUpdate
    <1> DEFINE T == {-1, 0, 1}
               z == Padded(batch)
    <1>2. RowsOK(batch, T, initial) /\ Originals(batch) = (1..Rows) \ dropped /\ Len(batch) > 0
        BY <1>1 DEF IInv, BatchInv, Early, Late
    <1> HIDE DEF T
    <1>3. /\ RowsOK(z, T, initial) /\ Even(z) /\ Originals(z) = Originals(batch)
          /\ HasTraining(z) <=> HasTraining(batch)
        BY <1>2, PaddedRows
    <1> HIDE DEF z
    <1>4. /\ RowsOK(batch', T, initial) /\ Len(batch') = Len(z) /\ Originals(batch') = Originals(z)
          /\ HasTraining(batch') <=> HasTraining(z)
        BY <1>1, <1>3, ZeroedRows DEF z
    <1>5. Even(batch')
        BY <1>3, <1>4 DEF Even
    <1>6. BaseInv'
        BY <1>1 DEF IInv, BaseInv, Phases
    <1>7. StepInv'
        BY <1>1 DEF IInv, StepInv, Late
    <1>8. BatchInv'
        BY <1>1, <1>2, <1>3, <1>4, <1>5 DEF BatchInv, Early, Late, T
    <1>9. TrainingInv => TrainingInv'
        BY <1>1, <1>3, <1>4 DEF TrainingInv, Late
    <1> QED
        BY <1>6, <1>7, <1>8, <1>9 DEF IInv

(* UpdateActor keeps the invariant: the entries of the step become entries  *)
(* of an earlier one.                                                       *)
LEMMA UpdateStep ==
    ASSUME IInv, UpdateActor
    PROVE  (IInv /\ TrainingInv)'
    <1>1. /\ phase = "update" /\ phase' = (IF global_steps < MaxSteps THEN "rollout" ELSE "done")
          /\ global_steps' = global_steps + 1 /\ initial' = [i \in 1..Rows |-> Unscored]
          /\ batch' = <<>> /\ dropped' = {}
          /\ UNCHANGED <<config, history>>
        BY DEF UpdateActor
    <1>2. /\ global_steps \in 1..MaxSteps /\ history \in Seq(Entry)
          /\ \A k \in DOMAIN history : history[k].step =< global_steps
        BY <1>1, Bounds DEF IInv, BaseInv, StepInv
    <1>3. \A k \in DOMAIN history : history[k].step \in Nat
        <2>1. \A k \in DOMAIN history : history[k] \in Entry
            BY <1>2
        <2>2. \A e \in Entry : e.step \in Nat
            BY Bounds DEF Entry
        <2> QED
            BY <2>1, <2>2
    <1>4. initial' \in FirstScores
        BY <1>1 DEF FirstScores
    <1>5. BaseInv'
        BY <1>1, <1>2, <1>4, Bounds DEF IInv, BaseInv, Phases
    <1>6. StepInv'
        BY <1>1, <1>2, <1>3, Bounds DEF StepInv, Late
    <1>7. (BatchInv /\ TrainingInv)'
        BY <1>1 DEF BatchInv, TrainingInv, Early, Late
    <1> QED
        BY <1>5, <1>6, <1>7 DEF IInv

(* The entries of the history are in the order of the steps, each once.     *)
Ordered(h) ==
    \A j, k \in DOMAIN h : j < k =>
        /\ h[j].step =< h[k].step
        /\ <<h[j].step, h[j].src>> # <<h[k].step, h[k].src>>

(* What enters the history: first answers, each with its own score.         *)
LEMMA EntriesAre ==
    ASSUME NEW Sh, NEW b, RowsOK(b, Sh, initial), global_steps \in 1..MaxSteps
    PROVE  LET e == Entries(b) IN
           /\ e \in Seq(Entry)
           /\ \A k \in DOMAIN e : /\ e[k].step = global_steps /\ e[k].src \in Originals(b)
                                  /\ e[k].score = initial[e[k].src]
           /\ \A j, k \in DOMAIN e : j # k => e[j].src # e[k].src
    <1> DEFINE S == {i \in Ranked(b) : Labelled(b[i])}
               rows == SelectIdxs(b, S)
               e == [k \in DOMAIN rows |->
                       [step |-> global_steps, src |-> rows[k].src, score |-> rows[k].score]]
    <1>1. \A i \in S : i \in DOMAIN b /\ b[i].kind = "orig" /\ ~b[i].pad /\ Scored(b[i].score)
        BY DEF Ranked, Eligible
    <1>2. S \in SUBSET DOMAIN b
        BY <1>1
    <1> HIDE DEF S
    <1>3. /\ RowsOK(rows, Sh, initial) /\ Len(rows) \in Nat /\ DOMAIN rows = 1..Len(rows)
          /\ \A k \in DOMAIN rows : \E i \in S : rows[k] = b[i]
        BY <1>2, KeptRows
    <1>4. e = Entries(b)
        BY DEF Entries, S
    <1> HIDE DEF rows
    <1>5. \A k \in DOMAIN rows : rows[k] \in Row(Sh) /\ RowOK(rows[k], initial)
        BY <1>3, RowsTyped
    <1>6. ASSUME NEW k \in DOMAIN rows
          PROVE  /\ rows[k].src \in 1..Rows /\ rows[k].score \in Scores
                 /\ rows[k].kind = "orig" /\ ~rows[k].pad
                 /\ rows[k].src \in Originals(b) /\ rows[k].score = initial[rows[k].src]
        <2>1. PICK i \in S : rows[k] = b[i]
            BY <1>3
        <2>2. rows[k].src \in 1..Rows /\ rows[k].score \in Scores
            BY <1>1, <1>5, <2>1 DEF Row, Scored
        <2>3. rows[k].src \in Originals(b)
            BY <1>1, <2>1 DEF Originals
        <2> QED
            BY <1>1, <1>5, <2>1, <2>2, <2>3 DEF RowOK
    <1>7. ASSUME NEW x \in 1..Rows, NEW y \in Scores
          PROVE  [step |-> global_steps, src |-> x, score |-> y] \in Entry
        BY DEF Entry
    <1>8. \A k \in DOMAIN rows : e[k] \in Entry
        BY <1>6, <1>7
    <1>9. DOMAIN e = 1..Len(rows)
        BY <1>3
    <1>10. \A k \in DOMAIN rows : /\ e[k].step = global_steps /\ e[k].src = rows[k].src
                                  /\ e[k].score = rows[k].score
        OBVIOUS
    <1> HIDE DEF e
    <1>11. e \in Seq(Entry)
        <2>1. e = [k \in 1..Len(rows) |-> e[k]]
            BY <1>9, <1>3 DEF e
        <2> QED
            BY <1>3, <1>8, <2>1
    <1>12. \A j, k \in DOMAIN rows : rows[j].src = rows[k].src => j = k
        <2>1. \A j \in DOMAIN rows : Subject(rows[j]) = <<rows[j].src, "orig">>
            BY <1>6 DEF Subject
        <2>2. Distinct(rows) /\ \A j \in DOMAIN rows : ~rows[j].pad
            BY <1>3, <1>6 DEF RowsOK
        <2> QED
            BY <2>1, <2>2 DEF Distinct
    <1>13. \A k \in DOMAIN e : /\ e[k].step = global_steps /\ e[k].src \in Originals(b)
                               /\ e[k].score = initial[e[k].src]
        BY <1>3, <1>6, <1>9, <1>10
    <1>14. \A j, k \in DOMAIN e : j # k => e[j].src # e[k].src
        BY <1>3, <1>9, <1>10, <1>12
    <1> QED
        BY <1>4, <1>11, <1>13, <1>14

(* The history keeps the end of what it is given.                           *)
LEMMA NewestIs ==
    ASSUME NEW R, NEW h \in Seq(R)
    PROVE  /\ Newest(h) \in Seq(R) /\ Len(Newest(h)) =< HistorySize
           /\ \E m \in Nat : \A k \in DOMAIN Newest(h) :
                  m + k \in DOMAIN h /\ Newest(h)[k] = h[m + k]
    <1> DEFINE n == Len(h)
               m == AtLeastOne(n - HistorySize + 1)
    <1>1. n \in Nat /\ DOMAIN h = 1..n
        OBVIOUS
    <1> HIDE DEF n
    <1>2. m \in Int /\ m >= 1 /\ n - m + 1 =< HistorySize
        BY <1>1, Bounds DEF AtLeastOne
    <1>3. Newest(h) = SubSeq(h, m, n)
        BY DEF Newest, n
    <1> HIDE DEF m
    <1>4. \A i \in m..n : h[i] \in R
        BY <1>1, <1>2
    <1>5. /\ SubSeq(h, m, n) \in Seq(R)
          /\ Len(SubSeq(h, m, n)) = IF m <= n THEN n - m + 1 ELSE 0
          /\ \A i \in 1..(n - m + 1) : SubSeq(h, m, n)[i] = h[m + i - 1]
        BY <1>1, <1>2, <1>4, SubSeqProperties
    <1> DEFINE z == SubSeq(h, m, n)
    <1>6. z \in Seq(R) /\ DOMAIN z = 1..Len(z)
        BY <1>5
    <1>7. Len(z) = (IF m <= n THEN n - m + 1 ELSE 0) /\ \A i \in 1..(n - m + 1) : z[i] = h[m + i - 1]
        BY <1>5
    <1> HIDE DEF z
    <1>8. Len(z) =< HistorySize
        BY <1>1, <1>2, <1>7, Bounds
    <1>9. \A k \in DOMAIN z : (m - 1) + k \in DOMAIN h /\ z[k] = h[(m - 1) + k]
        <2> SUFFICES ASSUME NEW k \in 1..Len(z) PROVE (m - 1) + k \in DOMAIN h /\ z[k] = h[(m - 1) + k]
            BY <1>6
        <2>1. k \in 1..(n - m + 1) /\ (m - 1) + k = m + k - 1
            BY <1>1, <1>2, <1>7
        <2>2. (m - 1) + k \in 1..n
            BY <1>1, <1>2, <2>1
        <2> QED
            BY <1>1, <1>7, <2>1, <2>2
    <1>10. m - 1 \in Nat
        BY <1>2
    <1> QED
        BY <1>3, <1>6, <1>8, <1>9, <1>10 DEF z

(* Entries of the running step after those of earlier steps.                *)
LEMMA HistoryGrows ==
    ASSUME NEW h \in Seq(Entry), NEW e \in Seq(Entry), NEW now \in Nat,
           Ordered(h), \A k \in DOMAIN h : h[k].step < now,
           \A k \in DOMAIN e : e[k].step = now,
           \A j, k \in DOMAIN e : j # k => e[j].src # e[k].src
    PROVE  LET z == Newest(h \o e) IN
           /\ z \in Seq(Entry) /\ Len(z) =< HistorySize /\ Ordered(z)
           /\ \A k \in DOMAIN z : \/ z[k].step < now
                                  \/ z[k].step = now /\ \E l \in DOMAIN e : z[k] = e[l]
    <1> DEFINE g == h \o e
               z == Newest(g)
    <1>1. /\ g \in Seq(Entry) /\ DOMAIN g = 1..(Len(h) + Len(e)) /\ Len(h) \in Nat /\ Len(e) \in Nat
          /\ \A k \in DOMAIN g : \/ k \in DOMAIN h /\ g[k] = h[k]
                                 \/ k - Len(h) \in DOMAIN e /\ g[k] = e[k - Len(h)]
        BY ConcatPlaces
    <1>2. DOMAIN h = 1..Len(h) /\ DOMAIN e = 1..Len(e)
        OBVIOUS
    <1>3. \A k \in DOMAIN h : h[k].step \in Int
        <2>1. \A k \in DOMAIN h : h[k] \in Entry
            OBVIOUS
        <2>2. \A x \in Entry : x.step \in Int
            BY Bounds DEF Entry
        <2> QED
            BY <2>1, <2>2
    <1> HIDE DEF g
    <1>4. Ordered(g)
        <2> SUFFICES ASSUME NEW j \in DOMAIN g, NEW k \in DOMAIN g, j < k
                     PROVE  /\ g[j].step =< g[k].step
                            /\ <<g[j].step, g[j].src>> # <<g[k].step, g[k].src>>
            BY DEF Ordered
        <2>0. j \in Nat /\ k \in Nat
            BY <1>1
        <2>1. CASE k \in DOMAIN h /\ g[k] = h[k]
            <3>1. j - Len(h) \notin DOMAIN e
                BY <1>1, <1>2, <2>0, <2>1
            <3>2. j \in DOMAIN h /\ g[j] = h[j]
                BY <1>1, <3>1
            <3> QED
                BY <2>1, <3>2 DEF Ordered
        <2>2. CASE k - Len(h) \in DOMAIN e /\ g[k] = e[k - Len(h)]
            <3>1. g[k].step = now
                BY <2>2
            <3>2. CASE j \in DOMAIN h /\ g[j] = h[j]
                <4>1. g[j].step \in Int /\ g[j].step < now
                    BY <1>3, <3>2
                <4>2. g[j].step =< now /\ g[j].step # now
                    BY <4>1
                <4> QED
                    BY <3>1, <4>2
            <3>3. CASE j - Len(h) \in DOMAIN e /\ g[j] = e[j - Len(h)]
                <4>1. g[j].step = now
                    BY <3>3
                <4>2. j - Len(h) # k - Len(h)
                    BY <1>1, <2>0
                <4>3. g[j].src # g[k].src
                    BY <2>2, <3>3, <4>2
                <4> QED
                    BY <3>1, <4>1, <4>3
            <3> QED
                BY <1>1, <3>2, <3>3
        <2> QED
            BY <1>1, <2>1, <2>2
    <1>5. /\ z \in Seq(Entry) /\ Len(z) =< HistorySize
          /\ \E m \in Nat : \A k \in DOMAIN z : m + k \in DOMAIN g /\ z[k] = g[m + k]
        BY <1>1, NewestIs
    <1>6. PICK m \in Nat : \A k \in DOMAIN z : m + k \in DOMAIN g /\ z[k] = g[m + k]
        BY <1>5
    <1>7. \A k \in DOMAIN z : k \in Nat
        BY <1>5
    <1> HIDE DEF z
    <1>8. Ordered(z)
        <2> SUFFICES ASSUME NEW j \in DOMAIN z, NEW k \in DOMAIN z, j < k
                     PROVE  /\ z[j].step =< z[k].step
                            /\ <<z[j].step, z[j].src>> # <<z[k].step, z[k].src>>
            BY DEF Ordered
        <2>1. m + j < m + k
            BY <1>7
        <2>2. /\ g[m + j].step =< g[m + k].step
              /\ <<g[m + j].step, g[m + j].src>> # <<g[m + k].step, g[m + k].src>>
            BY <1>4, <1>6, <2>1 DEF Ordered
        <2> QED
            BY <1>6, <2>2
    <1>9. \A k \in DOMAIN z : \/ z[k].step < now
                              \/ z[k].step = now /\ \E l \in DOMAIN e : z[k] = e[l]
        <2>1. \A k \in DOMAIN g : \/ g[k].step < now
                                  \/ g[k].step = now /\ \E l \in DOMAIN e : g[k] = e[l]
            BY <1>1
        <2> QED
            BY <1>6, <2>1
    <1> QED
        BY <1>5, <1>8, <1>9 DEF z, g

(* The history, with where the entries of the running step come from.       *)
HistoryInv ==
    /\ Len(history) =< HistorySize /\ Ordered(history)
    /\ phase \in Late => \A k \in DOMAIN history : history[k].step = global_steps =>
           history[k].src \notin dropped /\ history[k].score = initial[history[k].src]

(* What the drop leaves and what enters the history.                        *)
LEMMA RankGapStep ==
    ASSUME IInv, HistoryInv, RankGap
    PROVE  /\ IInv' /\ HistoryInv'
           /\ SecondsTrain => TrainingInv'
    <1> DEFINE drop == Drop(batch)
               kept == SelectIdxs(batch, DOMAIN batch \ drop)
               gone == {batch[i].src : i \in drop}
    <1>1. /\ phase = "rank" /\ phase' = "pad_update"
          /\ dropped' = gone /\ batch' = Shifted(kept)
          /\ history' = (IF config.shift = "history_zscore"
                         THEN Newest(history \o Entries(kept)) ELSE history)
          /\ UNCHANGED <<config, global_steps, initial>>
        BY DEF RankGap, Drop, Shifted
    <1>2. /\ RowsOK(batch, {0}, initial) /\ Even(batch) /\ Originals(batch) = 1..Rows
          /\ HasAppended(batch) \/ NoPadding(batch)
          /\ initial \in FirstScores /\ global_steps \in 1..MaxSteps /\ history \in Seq(Entry)
          /\ \A k \in DOMAIN history : history[k].step < global_steps
        <2>1. /\ RowsOK(batch, {0}, initial) /\ dropped = {} /\ Originals(batch) = (1..Rows) \ dropped
              /\ Even(batch) /\ (~HasAppended(batch) => NoPadding(batch))
            BY <1>1 DEF IInv, BatchInv, Early, Late
        <2>2. Originals(batch) = 1..Rows
            BY <2>1
        <2>3. /\ initial \in FirstScores /\ global_steps \in 1..MaxSteps /\ history \in Seq(Entry)
              /\ \A k \in DOMAIN history : history[k].step < global_steps
            BY <1>1, Bounds DEF IInv, BaseInv, StepInv, Late
        <2> QED
            BY <2>1, <2>2, <2>3
    <1>3. /\ Originals(kept) = (1..Rows) \ gone /\ gone \subseteq 1..Rows
          /\ Len(kept) > 0 /\ \E k \in DOMAIN kept : ~kept[k].pad
        <2>1. Len(batch) > 0
            BY <1>2 DEF Even
        <2>2. Len(kept) > 0 /\ \E k \in DOMAIN kept : ~kept[k].pad
            BY <1>2, <2>1, KeptSome
        <2>3. Originals(kept) = (1..Rows) \ gone /\ gone \subseteq 1..Rows
            <3>1. RowsOK(batch, {0}, initial) /\ Originals(batch) = 1..Rows
                BY <1>2
            <3>2. /\ Originals(SelectIdxs(batch, DOMAIN batch \ Drop(batch)))
                        = (1..Rows) \ {batch[i].src : i \in Drop(batch)}
                  /\ {batch[i].src : i \in Drop(batch)} \subseteq 1..Rows
                BY <3>1, KeptOriginals
            <3> QED
                BY <3>2
        <2> QED
            BY <2>2, <2>3
    <1>4. RowsOK(kept, {0}, initial)
        <2>1. DOMAIN batch \ drop \in SUBSET DOMAIN batch
            OBVIOUS
        <2> QED
            BY <1>2, <2>1, KeptRows
    <1> HIDE DEF kept, drop, gone
    <1> DEFINE T == {-1, 0, 1}
    <1>5. /\ RowsOK(batch', T, initial) /\ Len(batch') = Len(kept)
          /\ Originals(batch') = Originals(kept)
          /\ HasTraining(batch') <=> HasTraining(kept)
        BY <1>1, <1>4, ShiftedRows
    <1> HIDE DEF T
    <1> DEFINE e == Entries(kept)
               z == Newest(history \o e)
    <1>6. /\ e \in Seq(Entry)
          /\ \A k \in DOMAIN e : /\ e[k].step = global_steps /\ e[k].src \in Originals(kept)
                                 /\ e[k].score = initial[e[k].src]
          /\ \A j, k \in DOMAIN e : j # k => e[j].src # e[k].src
        BY <1>2, <1>4, EntriesAre
    <1> HIDE DEF e
    <1>7. /\ z \in Seq(Entry) /\ Len(z) =< HistorySize /\ Ordered(z)
          /\ \A k \in DOMAIN z :
                \/ z[k].step < global_steps
                \/ z[k].step = global_steps /\ \E l \in DOMAIN e : z[k] = e[l]
        <2>1. global_steps \in Nat /\ Ordered(history)
            BY <1>2 DEF HistoryInv
        <2> QED
            BY <1>2, <1>6, <2>1, HistoryGrows
    <1>8. history' = (IF config.shift = "history_zscore" THEN z ELSE history)
        BY <1>1 DEF e
    <1> HIDE DEF z
    <1>9. /\ history' \in Seq(Entry) /\ Len(history') =< HistorySize /\ Ordered(history')
          /\ \A k \in DOMAIN history' :
                \/ history'[k].step < global_steps
                \/ /\ history'[k].step = global_steps
                   /\ history'[k].src \in Originals(kept)
                   /\ history'[k].score = initial[history'[k].src]
        <2>1. CASE config.shift = "history_zscore"
            <3>1. history' = z
                BY <1>8, <2>1
            <3>2. \A k \in DOMAIN z :
                    \/ z[k].step < global_steps
                    \/ /\ z[k].step = global_steps
                       /\ z[k].src \in Originals(kept)
                       /\ z[k].score = initial[z[k].src]
                BY <1>6, <1>7
            <3> QED
                BY <1>7, <3>1, <3>2
        <2>2. CASE config.shift # "history_zscore"
            <3>1. history' = history
                BY <1>8, <2>2
            <3> QED
                BY <1>2, <3>1 DEF HistoryInv
        <2> QED
            BY <2>1, <2>2
    <1>10. \A k \in DOMAIN history' : history'[k].step \in Int
        <2>1. \A k \in DOMAIN history' : history'[k] \in Entry
            BY <1>9
        <2>2. \A x \in Entry : x.step \in Int
            BY Bounds DEF Entry
        <2> QED
            BY <2>1, <2>2
    <1>11. HistoryInv'
        <2>1. \A k \in DOMAIN history' : history'[k].step = global_steps =>
                 history'[k].src \notin gone /\ history'[k].score = initial[history'[k].src]
            <3> SUFFICES ASSUME NEW k \in DOMAIN history', history'[k].step = global_steps
                         PROVE  history'[k].src \notin gone /\ history'[k].score = initial[history'[k].src]
                OBVIOUS
            <3>1. ~(history'[k].step < global_steps)
                BY <1>10
            <3> QED
                BY <1>3, <1>9, <3>1
        <2> QED
            BY <1>1, <1>9, <2>1 DEF HistoryInv
    <1>12. BaseInv'
        BY <1>1, <1>3, <1>9 DEF IInv, BaseInv, Phases
    <1>13. StepInv'
        <2>1. \A k \in DOMAIN history' : history'[k].step =< global_steps
            BY <1>2, <1>9, <1>10
        <2>2. global_steps =< MaxSteps
            BY <1>2
        <2> QED
            BY <1>1, <2>1, <2>2 DEF StepInv, Late
    <1>14. BatchInv'
        BY <1>1, <1>3, <1>5 DEF BatchInv, Early, Late, T
    <1>15. SecondsTrain => TrainingInv'
        <2> SUFFICES ASSUME SecondsTrain PROVE HasTraining(kept)
            BY <1>5 DEF TrainingInv
        <2>1. PICK k \in DOMAIN kept : ~kept[k].pad
            BY <1>3
        <2>2. kept[k] \in Row({0}) /\ RowOK(kept[k], initial)
            BY <1>4, RowsTyped
        <2>3. Trains(kept[k])
            BY <1>2, <2>1, <2>2, RowTrains
        <2> QED
            BY <2>3 DEF HasTraining
    <1> QED
        BY <1>11, <1>12, <1>13, <1>14, <1>15 DEF IInv

(* The inductive invariant of the step.                                     *)
Inv == IInv /\ HistoryInv

(* The invariant holds at the start.                                        *)
LEMMA InvInit == Init => Inv /\ TrainingInv
    <1> SUFFICES ASSUME Init PROVE HistoryInv
        BY InitRows DEF Inv
    <1>1. history = <<>> /\ phase = "rollout"
        BY DEF Init
    <1>2. Len(history) =< HistorySize /\ Ordered(history)
        BY <1>1, Bounds DEF Ordered
    <1> QED
        BY <1>1, <1>2 DEF HistoryInv, Late

(* Every step keeps the invariant.                                          *)
LEMMA InvStep ==
    ASSUME Inv, [Next]_vars
    PROVE  /\ Inv'
           /\ SecondsTrain /\ TrainingInv => TrainingInv'
    <1>1. CASE RolloutAndScore
        <2>1. HistoryInv'
            BY <1>1 DEF RolloutAndScore, Inv, HistoryInv, Late
        <2> QED
            BY <1>1, <2>1, RolloutStep DEF Inv
    <1>2. CASE Reroll
        <2>1. phase' \in {"pad", "failed"} /\ UNCHANGED <<global_steps, initial, dropped, history>>
            BY <1>2 DEF Reroll
        <2>2. HistoryInv'
            BY <2>1 DEF Inv, HistoryInv, Late
        <2> QED
            BY <1>2, <2>2, RerollStep DEF Inv
    <1>3. CASE PadAndBalance
        <2>1. HistoryInv'
            BY <1>3 DEF PadAndBalance, Inv, HistoryInv, Late
        <2> QED
            BY <1>3, <2>1, PadStep DEF Inv
    <1>4. CASE ComputeLogProbs
        <2>1. phase' = "rank" /\ UNCHANGED <<global_steps, initial, dropped, history>>
            BY <1>4 DEF ComputeLogProbs
        <2>2. HistoryInv'
            BY <2>1 DEF Inv, HistoryInv, Late
        <2> QED
            BY <1>4, <2>2, LogProbStep DEF Inv
    <1>5. CASE RankGap
        BY <1>5, RankGapStep DEF Inv
    <1>6. CASE PadForUpdate
        <2>1. /\ phase = "pad_update" /\ phase' = "update"
              /\ UNCHANGED <<config, global_steps, initial, dropped, history>>
            BY <1>6 DEF PadForUpdate
        <2>2. HistoryInv'
            BY <2>1 DEF Inv, HistoryInv, Late
        <2> QED
            BY <1>6, <2>2, PadUpdateStep DEF Inv
    <1>7. CASE UpdateActor
        <2>1. phase' \in {"rollout", "done"} /\ history' = history
            BY <1>7 DEF UpdateActor
        <2>2. HistoryInv'
            BY <2>1 DEF Inv, HistoryInv, Late
        <2> QED
            BY <1>7, <2>2, UpdateStep DEF Inv
    <1>8. CASE UNCHANGED vars
        <2>1. /\ config' = config /\ phase' = phase /\ global_steps' = global_steps
              /\ initial' = initial /\ batch' = batch /\ dropped' = dropped /\ history' = history
            BY <1>8 DEF vars
        <2>2. BaseInv' /\ StepInv'
            BY <2>1 DEF Inv, IInv, BaseInv, StepInv
        <2>3. BatchInv'
            BY <2>1 DEF Inv, IInv, BatchInv
        <2>4. HistoryInv'
            BY <2>1 DEF Inv, HistoryInv
        <2>5. TrainingInv => TrainingInv'
            BY <2>1 DEF TrainingInv
        <2> QED
            BY <2>2, <2>3, <2>4, <2>5 DEF Inv, IInv
    <1> QED
        BY <1>1, <1>2, <1>3, <1>4, <1>5, <1>6, <1>7, <1>8 DEF Next

(* The invariant holds throughout.                                          *)
LEMMA InvHolds == Spec => []Inv
    <1>1. Init => Inv
        BY InvInit
    <1>2. Inv /\ [Next]_vars => Inv'
        BY InvStep
    <1> QED
        BY <1>1, <1>2, PTL DEF Spec

(* The batch at every point of the step.                                    *)
LEMMA BatchIs ==
    ASSUME Inv
    PROVE  /\ batch \in Seq(Row({-1, 0, 1}))
           /\ \A i \in DOMAIN batch : RowOK(batch[i], initial)
           /\ phase \notin Late => \A i \in DOMAIN batch : batch[i].shift = 0
    <1> DEFINE T == {-1, 0, 1}
    <1>1. phase \in Phases
        BY DEF Inv, IInv, BaseInv
    <1>2. CASE phase \in {"rollout", "done"}
        <2>1. batch = <<>>
            BY <1>2 DEF Inv, IInv, BatchInv
        <2>2. <<>> \in Seq(Row(T))
            OBVIOUS
        <2> QED
            BY <1>2, <2>1, <2>2
    <1>3. CASE phase \in Early \cup {"failed"}
        <2>1. RowsOK(batch, {0}, initial)
            BY <1>3 DEF Inv, IInv, BatchInv
        <2>2. /\ batch \in Seq(Row({0})) /\ Len(batch) \in Nat /\ DOMAIN batch = 1..Len(batch)
              /\ \A i \in DOMAIN batch : batch[i] \in Row({0}) /\ RowOK(batch[i], initial)
            BY <2>1, RowsTyped
        <2>3. \A r \in Row({0}) : r \in Row(T) /\ r.shift = 0
            BY DEF Row
        <2>4. batch = [i \in 1..Len(batch) |-> batch[i]]
            BY <2>2
        <2>5. batch \in Seq(Row(T))
            BY <2>2, <2>3, <2>4
        <2> QED
            BY <2>2, <2>3, <2>5
    <1>4. CASE phase \in Late
        <2>1. RowsOK(batch, T, initial)
            BY <1>4 DEF Inv, IInv, BatchInv
        <2> HIDE DEF T
        <2>2. batch \in Seq(Row(T)) /\ \A i \in DOMAIN batch : RowOK(batch[i], initial)
            BY <2>1 DEF RowsOK
        <2> QED
            BY <1>4, <2>2 DEF T
    <1> QED
        BY <1>1, <1>2, <1>3, <1>4 DEF Phases, Early, Late

(* Type correctness, for every size, score, label and configuration (the    *)
(* fields of a row as fit and its helpers set them).                        *)
THEOREM TypeIsOK == Spec => []TypeOK
    <1>1. Inv => TypeOK
        <2> SUFFICES ASSUME Inv PROVE TypeOK
            OBVIOUS
        <2>1. batch \in Seq(Row({-1, 0, 1}))
            BY BatchIs
        <2> QED
            BY <2>1 DEF Inv, IInv, BaseInv, TypeOK, Row, Phases, Entry, FirstScores
    <1> QED
        BY <1>1, InvHolds, PTL

(* Reroll, two paddings, balancing and the drop neither lose nor double a   *)
(* row: what is trained on are the first answers that were not dropped and  *)
(* each second answer once with a prompt (fit, _concat_training_batches,    *)
(* pad_dataproto_to_divisor).                                               *)
THEOREM RowsTrainOnceHolds == Spec => []RowsTrainOnce
    <1>1. Inv => RowsTrainOnce
        <2> SUFFICES ASSUME Inv, phase = "update" PROVE RowsTrainOnce
            BY DEF RowsTrainOnce
        <2>1. Originals(batch) = (1..Rows) \ dropped /\ Distinct(batch)
            BY DEF Inv, IInv, BatchInv, Late, RowsOK
        <2>2. \A i \in DOMAIN batch : RowOK(batch[i], initial)
            BY BatchIs
        <2>3. \A i \in InTraining : i \in DOMAIN batch /\ ~batch[i].pad /\ batch[i].kind # "padding"
            BY <2>2 DEF InTraining, Trains, TrainsOpd, TrainsSft, RowOK
        <2>4. \A i, j \in InTraining : Subject(batch[i]) = Subject(batch[j]) => i = j
            BY <2>1, <2>3 DEF Distinct
        <2>5. \A i \in DOMAIN batch : batch[i].kind = "orig" => i \in InTraining
            BY <2>2 DEF InTraining, Trains, TrainsOpd, RowOK
        <2>6. {j \in InTraining : batch[j].kind = "orig"} = {j \in DOMAIN batch : batch[j].kind = "orig"}
            BY <2>3, <2>5
        <2> QED
            BY <2>1, <2>3, <2>4, <2>6 DEF RowsTrainOnce, Originals
    <1> QED
        BY <1>1, InvHolds, PTL

(* The batch splits evenly whenever workers get it, and the update has a row *)
(* to train on, provided a second answer is appended for a gain only; the   *)
(* defaults of ppo_trainer.yaml see to that.                                *)
THEOREM UpdateIsPossible ==
    ASSUME SecondsTrain
    PROVE  Spec => []UpdatePossible
    <1>1. Init => Inv /\ TrainingInv
        BY InvInit
    <1>2. Inv /\ TrainingInv /\ [Next]_vars => (Inv /\ TrainingInv)'
        BY InvStep
    <1>3. Inv /\ TrainingInv => UpdatePossible
        <2> SUFFICES ASSUME Inv, TrainingInv PROVE UpdatePossible
            OBVIOUS
        <2>1. phase \in {"logprob", "update"} => Even(batch)
            BY DEF Inv, IInv, BatchInv
        <2>2. phase = "update" => HasTraining(batch)
            BY DEF TrainingInv, Late
        <2> QED
            BY <2>1, <2>2 DEF UpdatePossible, Even, HasTraining, InTraining
    <1> QED
        BY <1>1, <1>2, <1>3, PTL DEF Spec

(* An appended second answer beats the first answer of its own rollout,     *)
(* wherever copying, balancing and dropping have put it                     *)
(* (_maybe_reroll_low_gpt_rollouts).                                        *)
THEOREM AppendedHaveImproved == Spec => []AppendedImprove
    <1>1. Inv => AppendedImprove
        BY BatchIs DEF AppendedImprove, RowOK, Improves, Gain
    <1> QED
        BY <1>1, InvHolds, PTL

(* The history holds the newest first answers that were not dropped, each   *)
(* once with its own score (_rank_gap_drop_and_rubric_shift).               *)
THEOREM HistoryIsHonest == Spec => []HistoryHonest
    <1>1. Inv => HistoryHonest
        <2> SUFFICES ASSUME Inv PROVE HistoryHonest
            OBVIOUS
        <2>1. Len(history) =< HistorySize /\ Ordered(history)
            BY DEF Inv, HistoryInv
        <2>2. CASE phase \in Late
            BY <2>1, <2>2 DEF Inv, HistoryInv, HistoryHonest, Ordered
        <2>3. CASE phase \notin Late
            <3>1. \A k \in DOMAIN history : history[k].step < global_steps
                BY <2>3 DEF Inv, IInv, StepInv
            <3>2. global_steps \in Int
                BY DEF Inv, IInv, BaseInv
            <3>3. \A k \in DOMAIN history : history[k].step # global_steps
                BY <3>1, <3>2
            <3> QED
                BY <2>1, <3>3 DEF HistoryHonest, Ordered
        <2> QED
            BY <2>2, <2>3
    <1> QED
        BY <1>1, InvHolds, PTL

(* Rows ranked alike by the teacher and the rubric stay.                    *)
LEMMA GapNeedsDisagreement ==
    ASSUME Inv, phase = "rank", \A s \in 1..Rows : Scored(initial[s]),
           NEW i \in Drop(batch)
    PROVE  \E j \in FirstAnswers \ {i} : Scored(batch[j].score) /\ Discordant(i, j)
    <1> DEFINE b == batch
               F == FirstAnswers
               t(j) == b[j].teacher
               s(j) == b[j].score
    <1>1. /\ RowsOK(b, {0}, initial)
          /\ \A j \in DOMAIN b : RowOK(b[j], initial)
        BY DEF Inv, IInv, BatchInv, Early, RowsOK
    <1>2. /\ Len(b) \in Nat /\ DOMAIN b = 1..Len(b)
          /\ \A j \in DOMAIN b : /\ s(j) \in Int /\ t(j) \in Int /\ b[j].src \in 1..Rows
        BY <1>1, RowsTyped
    <1>3. Eligible(b) = F
        BY <1>1 DEF Eligible, FirstAnswers, RowOK
    <1>4. \A j \in F : Scored(s(j))
        BY <1>1, <1>2 DEF FirstAnswers, RowOK
    <1>5. Ranked(b) = F
        BY <1>3, <1>4 DEF Ranked
    <1>6. i \in F /\ i \in HighGap(b)
        BY <1>3, DropsFirstAnswers DEF Drop, DropSet, KeepBest, Ranked
    <1>7. F \in SUBSET (1..Len(b)) /\ \A j \in F : j \in Nat /\ s(j) \in Int /\ t(j) \in Int
        BY <1>2 DEF FirstAnswers
    <1> SUFFICES ASSUME \A j \in F \ {i} : ~Discordant(i, j) PROVE FALSE
        BY <1>4
    <1>8. \A j \in F \ {i} : (t(i) - t(j)) * (s(i) - s(j)) > 0
        BY <1>6, <1>7 DEF Discordant
    <1> DEFINE tv == [j \in DOMAIN b |-> b[j].teacher]
               sv == [j \in DOMAIN b |-> b[j].score]
    <1>9. \A j \in F : tv[j] = t(j) /\ sv[j] = s(j)
        BY DEF FirstAnswers
    <1>10. /\ TeacherRank(b)[i] = Cardinality({j \in F : t(j) > t(i) \/ (t(j) = t(i) /\ j < i)})
           /\ RubricRank(b)[i] = Cardinality({j \in F : s(j) > s(i) \/ (s(j) = s(i) /\ j < i)})
        <2>1. /\ TeacherRank(b)[i] = Cardinality({j \in F : tv[j] > tv[i] \/ (tv[j] = tv[i] /\ j < i)})
              /\ RubricRank(b)[i] = Cardinality({j \in F : sv[j] > sv[i] \/ (sv[j] = sv[i] /\ j < i)})
            <3> HIDE DEF F
            <3> QED
                BY <1>3, <1>5, <1>6 DEF TeacherRank, RubricRank, RankDescending
        <2> HIDE DEF tv, sv, F
        <2>2. /\ {j \in F : tv[j] > tv[i] \/ (tv[j] = tv[i] /\ j < i)}
                   = {j \in F : t(j) > t(i) \/ (t(j) = t(i) /\ j < i)}
              /\ {j \in F : sv[j] > sv[i] \/ (sv[j] = sv[i] /\ j < i)}
                   = {j \in F : s(j) > s(i) \/ (s(j) = s(i) /\ j < i)}
            BY <1>6, <1>9
        <2> QED
            BY <2>1, <2>2
    <1> HIDE DEF t, s, F
    <1>11. \A j \in F : (t(j) > t(i) \/ (t(j) = t(i) /\ j < i)) <=> (s(j) > s(i) \/ (s(j) = s(i) /\ j < i))
        <2> SUFFICES ASSUME NEW j \in F
                     PROVE  (t(j) > t(i) \/ (t(j) = t(i) /\ j < i)) <=> (s(j) > s(i) \/ (s(j) = s(i) /\ j < i))
            OBVIOUS
        <2>1. CASE j = i
            BY <1>7, <2>1
        <2>2. CASE j # i
            <3> DEFINE x == t(i) - t(j)
                       y == s(i) - s(j)
            <3>1. x \in Int /\ y \in Int /\ x * y > 0
                BY <1>6, <1>7, <1>8, <2>2
            <3>2. ASSUME NEW p \in Int, NEW q \in Int, p * q > 0
                  PROVE  (p < 0 <=> q < 0) /\ p # 0 /\ q # 0
                BY <3>2
            <3> HIDE DEF x, y
            <3>3. (x < 0 <=> y < 0) /\ x # 0 /\ y # 0
                BY <3>1, <3>2
            <3> QED
                BY <1>6, <1>7, <3>3 DEF x, y
        <2> QED
            BY <2>1, <2>2
    <1>12. TeacherRank(b)[i] = RubricRank(b)[i]
        <2>1. {j \in F : t(j) > t(i) \/ (t(j) = t(i) /\ j < i)} = {j \in F : s(j) > s(i) \/ (s(j) = s(i) /\ j < i)}
            BY <1>11
        <2> QED
            BY <1>10, <2>1
    <1>13. RubricRank(b)[i] \in Int
        <2>1. /\ Ranked(b) \in SUBSET (1..Len(b)) /\ \A j \in Ranked(b) : sv[j] \in Int
              /\ i \in Ranked(b)
            BY <1>5, <1>6, <1>7, <1>9 DEF s
        <2> HIDE DEF sv
        <2>2. RankDescending(sv, Ranked(b))[i] \in Nat
            BY <1>2, <2>1, RankOrder
        <2> QED
            BY <2>2 DEF RubricRank, sv
    <1>14. Denominator(b) \in Int /\ Denominator(b) >= 1
        <2>1. Cardinality(Ranked(b)) \in Nat
            BY <1>2, <1>5, <1>7, PlacesFinite
        <2> QED
            BY <2>1 DEF Denominator, AtLeastOne
    <1>15. Abs(TeacherRank(b)[i] - RubricRank(b)[i]) * DropDen > DropNum * Denominator(b)
        BY <1>6 DEF HighGap
    <1>16. Abs(TeacherRank(b)[i] - RubricRank(b)[i]) = 0
        BY <1>12, <1>13 DEF Abs
    <1>17. DropNum * Denominator(b) >= 0
        BY <1>14, ScoreAssumption
    <1>18. 0 * DropDen = 0
        BY ScoreAssumption
    <1>19. 0 > DropNum * Denominator(b)
        BY <1>15, <1>16, <1>18
    <1>20. DropNum * Denominator(b) \in Int
        BY <1>14, ScoreAssumption
    <1> QED
        BY <1>17, <1>19, <1>20

(* With all rollouts scored, a row goes only if the teacher and the rubric  *)
(* put it on different sides of another one: ranks that agree leave no gap  *)
(* (_rank_descending).                                                      *)
THEOREM DropNeedsDisagreement == Spec => ScoredDropNeedsDisagreement
    <1>1. ASSUME Inv, [Next]_vars, vars' # vars, phase = "rank",
                 \A s \in 1..Rows : Scored(initial[s]),
                 NEW i \in FirstAnswers, batch[i].src \in dropped'
          PROVE  \E j \in FirstAnswers \ {i} : Scored(batch[j].score) /\ Discordant(i, j)
        <2>1. RankGap
            BY <1>1 DEF Next, RolloutAndScore, Reroll, PadAndBalance, ComputeLogProbs,
                        PadForUpdate, UpdateActor
        <2>2. dropped' = {batch[k].src : k \in Drop(batch)}
            BY <2>1 DEF RankGap, Drop
        <2>3. PICK k \in Drop(batch) : batch[i].src = batch[k].src
            BY <1>1, <2>2
        <2>4. /\ k \in DOMAIN batch /\ batch[k].kind = "orig" /\ ~batch[k].pad
              /\ i \in DOMAIN batch /\ batch[i].kind = "orig"
            BY DropsFirstAnswers DEF Eligible, FirstAnswers
        <2>5. Distinct(batch) /\ \A j \in DOMAIN batch : RowOK(batch[j], initial)
            BY <1>1 DEF Inv, IInv, BatchInv, Early, RowsOK
        <2>6. ~batch[i].pad
            BY <2>4, <2>5 DEF RowOK
        <2>7. Subject(batch[i]) = Subject(batch[k])
            BY <2>3, <2>4 DEF Subject
        <2>8. i = k
            BY <2>4, <2>5, <2>6, <2>7 DEF Distinct
        <2> QED
            BY <1>1, <2>8, GapNeedsDisagreement
    <1>2. Inv /\ [Next]_vars =>
             [phase = "rank" /\ (\A s \in 1..Rows : Scored(initial[s])) =>
                 \A i \in FirstAnswers : batch[i].src \in dropped' =>
                     \E j \in FirstAnswers \ {i} : Scored(batch[j].score) /\ Discordant(i, j)]_vars
        BY <1>1
    <1> QED
        BY <1>2, InvHolds, PTL DEF Spec, ScoredDropNeedsDisagreement

(* A sum over the places of a sequence is a number.                         *)
LEMMA TotalIsNat ==
    ASSUME NEW n \in Nat, NEW f, DOMAIN f = 1..n, \A k \in 1..n : f[k] \in Int
    PROVE  Total(f) \in Nat
    <1> DEFINE Part(k) == {k} \X (1..f[k])
               Parts == {Part(k) : k \in 1..n}
    <1>1. \A k \in 1..n : IsFiniteSet(Part(k))
        <2> SUFFICES ASSUME NEW k \in 1..n PROVE IsFiniteSet(Part(k))
            OBVIOUS
        <2>1. IsFiniteSet({k})
            BY FS_Singleton
        <2>2. IsFiniteSet(1..f[k])
            BY FS_Interval
        <2> QED
            BY <2>1, <2>2, FS_Product
    <1> HIDE DEF Part
    <1>2. IsFiniteSet(Parts)
        <2>1. IsFiniteSet(1..n)
            BY FS_Interval
        <2> DEFINE g == [k \in 1..n |-> Part(k)]
        <2>2. g \in Surjection(1..n, Parts)
            BY DEF Surjection
        <2> QED
            BY <2>1, <2>2, FS_Surjection
    <1>3. IsFiniteSet(UNION Parts)
        <2>1. \A P \in Parts : IsFiniteSet(P)
            BY <1>1
        <2> QED
            BY <1>2, <2>1, FS_UNION
    <1>4. Cardinality(UNION Parts) \in Nat
        BY <1>3, FS_CardinalityType
    <1>5. Total(f) = Cardinality(UNION Parts)
        BY DEF Total, Part
    <1> QED
        BY <1>4, <1>5

(* How often an entry counts is a number.                                   *)
LEMMA BaselineIsInt ==
    ASSUME history \in Seq(Entry), NEW l
    PROVE  /\ DOMAIN Baseline(l) = 1..Len(history)
           /\ \A k \in 1..Len(history) : Baseline(l)[k] \in Int /\ history[k].score \in Int
    <1> DEFINE label(k) == LabelOf(history[k].src)
               exact == {k \in DOMAIN history : label(k) = l}
               domain == {k \in DOMAIN history : label(k)[1] = l[1]}
               difficulty == {k \in DOMAIN history : label(k)[2] = l[2]}
               again(k, S) == IF k \in S /\ Cardinality(S) >= AtLeastOne(MinBinCount \div 2)
                              THEN 1 ELSE 0
               copies == AtLeastOne(MinBinCount \div AtLeastOne(Cardinality(exact)))
    <1>1. DOMAIN history = 1..Len(history) /\ Len(history) \in Nat
        OBVIOUS
    <1>2. Baseline(l) = [k \in 1..Len(history) |->
            IF Cardinality(exact) >= MinBinCount
            THEN IF k \in exact THEN 1 ELSE 0
            ELSE 1 + again(k, domain) + again(k, difficulty)
                   + (IF k \in exact THEN copies ELSE 0)]
        BY <1>1 DEF Baseline
    <1>3. Cardinality(exact) \in Nat
        <2>1. exact \in SUBSET (1..Len(history))
            BY <1>1
        <2> HIDE DEF exact
        <2> QED
            BY <1>1, <2>1, PlacesFinite
    <1> HIDE DEF exact
    <1>4. copies \in Int
        <2>1. AtLeastOne(Cardinality(exact)) \in Nat \ {0}
            BY <1>3 DEF AtLeastOne
        <2>2. MinBinCount \in Nat
            BY HistoryAssumption
        <2>3. MinBinCount \div AtLeastOne(Cardinality(exact)) \in Int
            BY <2>1, <2>2
        <2> QED
            BY <2>3 DEF AtLeastOne
    <1>5. \A k, S : again(k, S) \in {0, 1}
        OBVIOUS
    <1> HIDE DEF copies, again, domain, difficulty
    <1>6. \A k \in 1..Len(history) : Baseline(l)[k] \in Int
        <2> SUFFICES ASSUME NEW k \in 1..Len(history) PROVE Baseline(l)[k] \in Int
            OBVIOUS
        <2>1. again(k, domain) \in Int /\ again(k, difficulty) \in Int
            BY <1>5
        <2> QED
            BY <1>2, <1>4, <2>1
    <1>7. \A k \in 1..Len(history) : history[k].score \in Int
        <2>1. \A k \in 1..Len(history) : history[k] \in Entry
            BY <1>1
        <2>2. \A e \in Entry : e.score \in Scores
            BY DEF Entry
        <2>3. \A x \in Scores : x \in Int
            BY ScoreAssumption
        <2> QED
            BY <2>1, <2>2, <2>3
    <1> QED
        BY <1>2, <1>6, <1>7

(* Sign is monotone.                                                        *)
LEMMA SignGrows ==
    ASSUME NEW x \in Int, NEW y \in Int, x >= y
    PROVE  Sign(x) >= Sign(y)
    BY DEF Sign

(* With one label the better score has the better z-score.                  *)
LEMMA HistoryShiftGrows ==
    ASSUME history \in Seq(Entry), NEW r, NEW q, r.score \in Int, q.score \in Int,
           r.score > q.score, LabelOf(r.src) = LabelOf(q.src)
    PROVE  HistoryShift(r) >= HistoryShift(q)
    <1> DEFINE count == Baseline(LabelOf(r.src))
               c == Total(count)
               products == [k \in DOMAIN history |-> count[k] * history[k].score]
               m == Total(products)
    <1>0. Len(history) \in Nat /\ DOMAIN history = 1..Len(history)
        OBVIOUS
    <1>1. /\ DOMAIN count = 1..Len(history)
          /\ \A k \in 1..Len(history) : count[k] \in Int /\ history[k].score \in Int
        BY BaselineIsInt
    <1> HIDE DEF count
    <1>2. c \in Nat
        BY <1>0, <1>1, TotalIsNat
    <1>3. m \in Nat
        <2>1. DOMAIN products = 1..Len(history)
            BY <1>0
        <2>2. \A k \in 1..Len(history) : products[k] \in Int
            BY <1>0, <1>1
        <2> HIDE DEF products
        <2> QED
            BY <1>0, <2>1, <2>2, TotalIsNat
    <1>4. /\ HistoryShift(r) = IF UseHistory /\ Labelled(r) THEN Sign(r.score * c - m) ELSE 0
          /\ HistoryShift(q) = IF UseHistory /\ Labelled(q) THEN Sign(q.score * c - m) ELSE 0
        BY DEF HistoryShift, count
    <1>5. Labelled(r) <=> Labelled(q)
        BY DEF Labelled
    <1> HIDE DEF c, m
    <1>6. r.score * c - m >= q.score * c - m /\ r.score * c - m \in Int /\ q.score * c - m \in Int
        <2>1. ASSUME NEW x \in Int, NEW y \in Int, x > y PROVE x * c >= y * c /\ x * c \in Int /\ y * c \in Int
            BY <1>2, <2>1
        <2> DEFINE x == r.score * c
                   y == q.score * c
        <2>2. x >= y /\ x \in Int /\ y \in Int
            BY <2>1
        <2> HIDE DEF x, y
        <2>3. x - m >= y - m /\ x - m \in Int /\ y - m \in Int
            BY <1>3, <2>2
        <2> QED
            BY <2>3 DEF x, y
    <1>7. Sign(r.score * c - m) >= Sign(q.score * c - m)
        BY <1>6, SignGrows
    <1>8. 0 >= 0
        OBVIOUS
    <1> QED
        BY <1>4, <1>5, <1>7, <1>8

(* The better score has the better rank, and the better shift.              *)
LEMMA ShiftGrows ==
    ASSUME history \in Seq(Entry), NEW Sh, NEW b, RowsOK(b, Sh, initial),
           config.shift \in {"rubric_rank", "history_zscore"},
           NEW i \in Ranked(b), NEW j \in Ranked(b), b[i].score > b[j].score,
           config.shift = "rubric_rank" \/ LabelOf(b[i].src) = LabelOf(b[j].src)
    PROVE  Shift(b, i) >= Shift(b, j)
    <1>1. /\ Len(b) \in Nat /\ DOMAIN b = 1..Len(b)
          /\ \A k \in DOMAIN b : b[k].score \in Int
        BY RowsTyped
    <1>2. Ranked(b) \in SUBSET (1..Len(b)) /\ i \in DOMAIN b /\ j \in DOMAIN b
        BY <1>1, DropsFirstAnswers
    <1>3. CASE config.shift = "rubric_rank"
        <2> DEFINE v == [k \in DOMAIN b |-> b[k].score]
                   R == Ranked(b)
                   r == RankDescending(v, R)
        <2>1. \A k \in R : v[k] \in Int
            BY <1>1, <1>2
        <2>2. v[i] > v[j]
            BY <1>2
        <2>3. r = RubricRank(b)
            BY DEF RubricRank
        <2> HIDE DEF v, R
        <2>4. Better(v, i, j)
            BY <2>2 DEF Better
        <2>5. r[i] \in Nat /\ r[j] \in Nat /\ r[i] < r[j]
            BY <1>1, <1>2, <2>1, <2>4, RankOrder DEF R
        <2> HIDE DEF r
        <2>6. Denominator(b) \in Int
            <3>1. Cardinality(Ranked(b)) \in Nat
                BY <1>1, <1>2, PlacesFinite
            <3> QED
                BY <3>1 DEF Denominator, AtLeastOne
        <2> DEFINE d == Denominator(b)
        <2>7. d \in Int
            BY <2>6
        <2>8. Shift(b, i) = Sign(d - 2 * r[i]) /\ Shift(b, j) = Sign(d - 2 * r[j])
            BY <1>3, <2>3 DEF Shift
        <2> HIDE DEF d
        <2>9. d - 2 * r[i] \in Int /\ d - 2 * r[j] \in Int /\ d - 2 * r[i] >= d - 2 * r[j]
            BY <2>5, <2>7
        <2> QED
            BY <2>8, <2>9, SignGrows
    <1>4. CASE config.shift = "history_zscore"
        <2>1. Shift(b, i) = HistoryShift(b[i]) /\ Shift(b, j) = HistoryShift(b[j])
            BY <1>4 DEF Shift
        <2>2. LabelOf(b[i].src) = LabelOf(b[j].src)
            BY <1>4
        <2>3. HistoryShift(b[i]) >= HistoryShift(b[j])
            BY <1>1, <1>2, <2>2, HistoryShiftGrows
        <2> QED
            BY <2>1, <2>3
    <1> QED
        BY <1>3, <1>4

(* The second padding leaves the first answers as they are.                 *)
LEMMA OriginalsStay ==
    ASSUME NEW Sh, NEW first, NEW b, RowsOK(b, Sh, first), Len(b) > 0
    PROVE  LET z == ZeroPadding(Padded(b)) IN
           \A i \in DOMAIN z : z[i].kind = "orig" => i \in DOMAIN b /\ z[i] = b[i]
    <1> DEFINE y == Padded(b)
               z == ZeroPadding(y)
    <1>1. RowsOK(y, Sh, first) /\ KeepsRows(y, b)
        BY PaddedRows
    <1> HIDE DEF y
    <1>2. KeepsRows(z, y)
        BY <1>1, ZeroedRows
    <1> HIDE DEF z
    <1>3. \A i \in DOMAIN z : z[i].kind = "orig" => i \in DOMAIN b /\ z[i] = b[i]
        BY <1>1, <1>2 DEF KeepsRows
    <1> QED
        BY <1>3 DEF z, y

(* The property of a batch.                                                 *)
Follows(b) ==
    \A i, j \in {k \in DOMAIN b : b[k].kind = "orig"} :
        /\ Scored(b[i].score) /\ Scored(b[j].score)
        /\ config.shift = "rubric_rank" \/ LabelOf(b[i].src) = LabelOf(b[j].src)
        /\ b[i].score > b[j].score
        => b[i].shift >= b[j].shift

(* Shifts follow the rubric after the drop.                                 *)
ShiftInv ==
    config.shift \in {"rubric_rank", "history_zscore"} /\ phase \in Late => Follows(batch)

(* Every step keeps it: the drop computes the shifts, and padding leaves the *)
(* first answers alone.                                                     *)
LEMMA ShiftStep == Inv /\ ShiftInv /\ [Next]_vars => ShiftInv'
    <1> SUFFICES ASSUME Inv, ShiftInv, [Next]_vars,
                        (config.shift \in {"rubric_rank", "history_zscore"} /\ phase \in Late)'
                 PROVE  Follows(batch)'
        BY DEF ShiftInv
    <1>1. CASE RankGap
        <2> DEFINE kept == SelectIdxs(batch, DOMAIN batch \ Drop(batch))
        <2>1. batch' = Shifted(kept) /\ config' = config /\ phase = "rank"
            BY <1>1 DEF RankGap, Drop, Shifted
        <2>2. RowsOK(kept, {0}, initial)
            <3>1. RowsOK(batch, {0}, initial)
                BY <2>1 DEF Inv, IInv, BatchInv, Early
            <3>2. DOMAIN batch \ Drop(batch) \in SUBSET DOMAIN batch
                OBVIOUS
            <3> QED
                BY <3>1, <3>2, KeptRows
        <2> HIDE DEF kept
        <2> DEFINE z == Shifted(kept)
        <2>3. /\ DOMAIN z = DOMAIN kept
              /\ \A i \in DOMAIN kept :
                    /\ Like(z[i], kept[i])
                    /\ z[i].shift = IF i \in Ranked(kept) THEN Shift(kept, i) ELSE 0
            BY <2>2, ShiftedRows
        <2> HIDE DEF z
        <2>4. \A i \in DOMAIN kept :
                /\ z[i].src = kept[i].src /\ z[i].kind = kept[i].kind /\ z[i].score = kept[i].score
                /\ kept[i].pad <=> kept[i].kind = "padding"
            <3>1. \A i \in DOMAIN kept : RowOK(kept[i], initial)
                BY <2>2 DEF RowsOK
            <3> QED
                BY <2>3, <3>1 DEF Like, RowOK
        <2>5. ASSUME NEW i \in DOMAIN z, NEW j \in DOMAIN z, z[i].kind = "orig", z[j].kind = "orig",
                     Scored(z[i].score), Scored(z[j].score),
                     config.shift = "rubric_rank" \/ LabelOf(z[i].src) = LabelOf(z[j].src),
                     z[i].score > z[j].score
              PROVE  z[i].shift >= z[j].shift
            <3>1. i \in Ranked(kept) /\ j \in Ranked(kept)
                BY <2>3, <2>4, <2>5 DEF Ranked, Eligible
            <3>2. z[i].shift = Shift(kept, i) /\ z[j].shift = Shift(kept, j)
                BY <2>3, <3>1
            <3>3. kept[i].score > kept[j].score
                BY <2>3, <2>4, <2>5
            <3>4. config.shift = "rubric_rank" \/ LabelOf(kept[i].src) = LabelOf(kept[j].src)
                BY <2>3, <2>4, <2>5
            <3>5. config.shift \in {"rubric_rank", "history_zscore"} /\ history \in Seq(Entry)
                BY <2>1 DEF Inv, IInv, BaseInv
            <3>6. Shift(kept, i) >= Shift(kept, j)
                BY <2>2, <3>1, <3>3, <3>4, <3>5, ShiftGrows
            <3> QED
                BY <3>2, <3>6
        <2>6. Follows(z)
            BY <2>5 DEF Follows
        <2> QED
            BY <2>1, <2>6 DEF Follows, z, LabelOf
    <1>2. CASE PadForUpdate
        <2> DEFINE T == {-1, 0, 1}
                   z == ZeroPadding(Padded(batch))
        <2>1. batch' = z /\ config' = config /\ phase = "pad_update"
            BY <1>2 DEF PadForUpdate
        <2>2. RowsOK(batch, T, initial) /\ Len(batch) > 0
            BY <2>1 DEF Inv, IInv, BatchInv, Late
        <2>6. \A i \in DOMAIN z : z[i].kind = "orig" => i \in DOMAIN batch /\ z[i] = batch[i]
            BY <2>2, OriginalsStay
        <2> HIDE DEF z, T
        <2>7. Follows(batch)
            BY <2>1 DEF ShiftInv, Late
        <2>8. Follows(z)
            BY <2>6, <2>7 DEF Follows
        <2> QED
            BY <2>1, <2>8 DEF Follows, LabelOf
    <1>3. CASE UNCHANGED vars
        BY <1>3 DEF vars, ShiftInv, Follows, LabelOf
    <1> QED
        BY <1>1, <1>2, <1>3 DEF Next, RolloutAndScore, Reroll, PadAndBalance, ComputeLogProbs,
                                UpdateActor, Late

(* Of two first answers the better one is never shifted lower, by rank or by *)
(* history (_rank_gap_drop_and_rubric_shift).                               *)
THEOREM ShiftFollows == Spec => []ShiftFollowsRubric
    <1>1. Init => ShiftInv
        BY DEF Init, ShiftInv, Late
    <1>2. Inv /\ ShiftInv => ShiftFollowsRubric
        <2> SUFFICES ASSUME Inv, ShiftInv, config.shift \in {"rubric_rank", "history_zscore"}
                     PROVE  ShiftFollowsRubric
            BY DEF ShiftFollowsRubric
        <2>1. CASE phase \in Late
            BY <2>1 DEF ShiftInv, Follows, ShiftFollowsRubric, FirstAnswers
        <2>2. CASE phase \notin Late
            <3>1. \A i \in FirstAnswers : batch[i].shift = 0
                BY <2>2, BatchIs DEF FirstAnswers
            <3>2. 0 >= 0
                OBVIOUS
            <3> QED
                BY <3>1, <3>2 DEF ShiftFollowsRubric
        <2> QED
            BY <2>1, <2>2
    <1> QED
        BY <1>1, <1>2, ShiftStep, InvHolds, PTL DEF Spec
=============================================================================
