---------------------------- MODULE ReaderProofs ----------------------------
(***************************************************************************)
(* Proofs about what a reader finds in the output of a run and makes of it *)
(* (modules Frames, Output and Results), for any number of ranks, bodies   *)
(* and time steps: reading succeeds, the reader's domain and its list of   *)
(* bodies are those of the frame, histories fit their arrays and queries   *)
(* keep the place.  The invariant is ReadsInv, near the end.  Its parts    *)
(* are built up in the order in which data move: bodies in the domain and  *)
(* in .bod files (BodiesInv), frames in files (ContentsInv, LogsInv), what *)
(* they give a reader (Readable), the list of bodies (ListKept), and the   *)
(* reader itself (ViewInv).                                                *)
(***************************************************************************)
EXTENDS ResultsProofs, FiniteSetTheorems, FunctionTheorems

-----------------------------------------------------------------------------
(* Lists without repetitions.                                              *)

Distinct(s) == \A i, j \in DOMAIN s : s[i] = s[j] => i = j

LEMMA AppendDistinct ==
  ASSUME NEW T, NEW s \in Seq(T), NEW e \in T, Distinct(s), e \notin Range(s)
  PROVE  Distinct(Append(s, e))
<1>1. DOMAIN Append(s, e) = 1 .. (Len(s) + 1) /\ DOMAIN s = 1 .. Len(s)
      /\ Len(s) \in Nat
  OBVIOUS
<1>2. /\ \A i \in 1 .. Len(s) : Append(s, e)[i] = s[i] /\ s[i] # e
      /\ Append(s, e)[Len(s) + 1] = e
  BY <1>1 DEF Range
<1>3. \A i \in 1 .. (Len(s) + 1) : i \in 1 .. Len(s) \/ i = Len(s) + 1
  BY <1>1
<1>4. \A i, j \in 1 .. Len(s) : s[i] = s[j] => i = j
  BY <1>1 DEF Distinct
<1> DEFINE t == Append(s, e)
<1>5. DOMAIN t = 1 .. (Len(s) + 1)
  BY <1>1
<1>6. \A i, j \in 1 .. (Len(s) + 1) : t[i] = t[j] => i = j
  <2> HIDE DEF t
  <2> QED
    BY <1>2, <1>3, <1>4 DEF t
<1> HIDE DEF t
<1>7. Distinct(t)
  BY <1>5, <1>6 DEF Distinct
<1> QED
  BY <1>7 DEF t

LEMMA ConcatDistinct ==
  ASSUME NEW T, NEW s \in Seq(T), NEW t \in Seq(T), Distinct(s), Distinct(t),
         Range(s) \cap Range(t) = {}
  PROVE  Distinct(s \o t)
<1> DEFINE u == s \o t
           m == Len(s)
           n == Len(t)
<1>1. /\ m \in Nat /\ DOMAIN s = 1 .. m /\ n \in Nat /\ DOMAIN t = 1 .. n
      /\ DOMAIN u = 1 .. (m + n)
  OBVIOUS
<1>2. /\ \A i \in 1 .. m : u[i] = s[i]
      /\ \A i \in 1 .. (m + n) : i > m => u[i] = t[i - m]
  OBVIOUS
<1> HIDE DEF u, m, n
<1>3. \A i \in 1 .. m, j \in 1 .. n : s[i] # t[j]
  BY <1>1 DEF Range
<1>4. /\ \A i, j \in 1 .. m : s[i] = s[j] => i = j
      /\ \A i, j \in 1 .. n : t[i] = t[j] => i = j
  BY <1>1 DEF Distinct
<1>5. ASSUME NEW i \in 1 .. (m + n), NEW j \in 1 .. (m + n), u[i] = u[j]
      PROVE  i = j
  <2>1. /\ i <= m => i \in 1 .. m
        /\ j <= m => j \in 1 .. m
        /\ i > m => i - m \in 1 .. n
        /\ j > m => j - m \in 1 .. n
    BY <1>1
  <2>2. CASE i <= m /\ j <= m
    BY <1>2, <1>4, <1>5, <2>1, <2>2
  <2>3. CASE i > m /\ j > m
    <3>1. t[i - m] = t[j - m]
      BY <1>2, <1>5, <2>3
    <3>2. i - m = j - m
      BY <1>4, <2>1, <2>3, <3>1
    <3> QED
      BY <1>1, <3>2
  <2>4. CASE i <= m /\ j > m
    BY <1>2, <1>3, <1>5, <2>1, <2>4
  <2>5. CASE i > m /\ j <= m
    BY <1>2, <1>3, <1>5, <2>1, <2>5
  <2> QED
    BY <1>1, <2>2, <2>3, <2>4, <2>5
<1> QED
  BY <1>1, <1>5 DEF Distinct, u

LEMMA ChosenDistinct ==
  ASSUME NEW T, NEW list \in Seq(T), NEW S, Distinct(list)
  PROVE  Distinct(Chosen(list, S))
<1>1. PICK upto : ChosenSteps(upto, list, S) /\ Chosen(list, S) = upto[Len(list)]
  BY ChosenRecursion
<1> DEFINE N == Len(list)
           Met(n) == {list[i] : i \in 1 .. n}
           Good(n) == /\ upto[n] \in Seq(T) /\ Range(upto[n]) \subseteq Met(n)
                      /\ Distinct(upto[n])
           G == {n \in Nat : n <= N => Good(n)}
<1>2. /\ N \in Nat /\ \A n \in 1 .. N : list[n] \in T
      /\ DOMAIN list = 1 .. N
  OBVIOUS
<1>3. /\ upto[0] = <<>>
      /\ \A n \in 1 .. N : upto[n] = IF list[n] \in S
                                    THEN Append(upto[n - 1], list[n])
                                    ELSE upto[n - 1]
  BY <1>1 DEF ChosenSteps
<1>4. 0 \in G
  <2>1. <<>> \in Seq(T) /\ Range(<<>>) = {} /\ Distinct(<<>>)
    BY DEF Range, Distinct
  <2> QED
    BY <1>3, <2>1
<1>5. ASSUME NEW n \in Nat, n \in G
      PROVE  n + 1 \in G
  <2> SUFFICES ASSUME n + 1 <= N PROVE Good(n + 1)
    OBVIOUS
  <2> DEFINE s == upto[n]
             e == list[n + 1]
  <2>1. s \in Seq(T) /\ Range(s) \subseteq Met(n) /\ Distinct(s) /\ e \in T
    BY <1>2, <1>5
  <2>2. upto[n + 1] = IF e \in S THEN Append(s, e) ELSE s
    BY <1>3
  <2>3. e \notin Met(n)
    <3>1. \A i \in 1 .. n : i \in 1 .. N /\ i # n + 1 /\ n + 1 \in 1 .. N
      BY <1>2
    <3> QED
      BY <1>2, <3>1 DEF Distinct
  <2>4. Met(n) \subseteq Met(n + 1) /\ e \in Met(n + 1)
    <3>1. n + 1 \in 1 .. (n + 1) /\ \A i \in 1 .. n : i \in 1 .. (n + 1)
      OBVIOUS
    <3> QED
      BY <3>1
  <2> HIDE DEF s, e
  <2>5. /\ Append(s, e) \in Seq(T)
        /\ Range(Append(s, e)) = Range(s) \cup {e}
        /\ Distinct(Append(s, e))
    <3>1. e \notin Range(s)
      BY <2>1, <2>3
    <3>2. Append(s, e) \in Seq(T)
      BY <2>1
    <3>3. Range(Append(s, e)) = Range(s) \cup {e}
      BY <2>1, AppendRange
    <3>4. Distinct(Append(s, e))
      BY <2>1, <3>1, AppendDistinct
    <3> QED
      BY <3>2, <3>3, <3>4
  <2> HIDE DEF Met
  <2>6. CASE e \in S
    <3>1. upto[n + 1] = Append(s, e)
      BY <2>2, <2>6
    <3>2. Range(Append(s, e)) \subseteq Met(n + 1)
      BY <2>1, <2>4, <2>5
    <3> QED
      BY <2>5, <3>1, <3>2
  <2>7. CASE e \notin S
    <3>1. upto[n + 1] = s
      BY <2>2, <2>7
    <3>2. Range(s) \subseteq Met(n + 1)
      BY <2>1, <2>4
    <3> QED
      BY <2>1, <3>1, <3>2
  <2> QED
    BY <2>6, <2>7
<1> HIDE DEF G
<1>6. N \in G
  BY <1>2, <1>4, <1>5, SetInduction
<1> QED
  BY <1>1, <1>2, <1>6 DEF G

LEMMA DownwardsDistinct ==
  ASSUME NEW first \in Nat, NEW n \in Nat
  PROVE  Distinct(Downwards(first, n))
BY DEF Distinct, Downwards

LEMMA DistinctLength ==
  ASSUME NEW T, NEW s \in Seq(T), Distinct(s)
  PROVE  /\ IsFiniteSet(Range(s))
         /\ Cardinality(Range(s)) = Len(s)
<1>1. Len(s) \in Nat /\ DOMAIN s = 1 .. Len(s)
  OBVIOUS
<1> DEFINE N == Len(s)
           R == Range(s)
<1>2. s \in Bijection(1 .. N, R)
  <2>1. s \in [1 .. N -> R]
    <3>1. s = [i \in 1 .. N |-> s[i]]
      OBVIOUS
    <3>2. \A i \in 1 .. N : s[i] \in R
      BY <1>1 DEF Range
    <3> HIDE DEF R
    <3> QED
      BY <3>1, <3>2
  <2>2. \A i, j \in 1 .. N : s[i] = s[j] => i = j
    BY <1>1 DEF Distinct
  <2>3. \A x \in R : \E i \in 1 .. N : s[i] = x
    BY <1>1 DEF Range
  <2> HIDE DEF R, N
  <2>4. s \in Injection(1 .. N, R)
    BY <2>1, <2>2, Fun_IsInj
  <2>5. s \in Surjection(1 .. N, R)
    BY <2>1, <2>3, Fun_IsSurj
  <2> QED
    BY <2>4, <2>5, Fun_IsBij
<1> HIDE DEF R, N
<1>3. IsFiniteSet(1 .. N) /\ Cardinality(1 .. N) = N
  <2>1. N \in Nat
    BY <1>1 DEF N
  <2>2. IsFiniteSet(1 .. N) /\ Cardinality(1 .. N) = IF 1 > N THEN 0 ELSE N - 1 + 1
    BY <2>1, FS_Interval
  <2> QED
    BY <2>1, <2>2
<1>4. ExistsBijection(1 .. N, R)
  BY <1>2 DEF ExistsBijection
<1>5. IsFiniteSet(R) /\ Cardinality(R) = Cardinality(1 .. N)
  BY <1>3, <1>4, FS_Bijection
<1> QED
  BY <1>3, <1>5 DEF R, N

(* What a list of lists made one list holds.                               *)
Apart(seqs) ==
  /\ \A i \in 1 .. Len(seqs) : Distinct(seqs[i])
  /\ \A i, j \in 1 .. Len(seqs) : i # j => Range(seqs[i]) \cap Range(seqs[j]) = {}

LEMMA FlattenRange ==
  ASSUME NEW T, NEW seqs \in Seq(Seq(T))
  PROVE  /\ Range(FlattenSeq(seqs)) = UNION {Range(seqs[i]) : i \in 1 .. Len(seqs)}
         /\ Apart(seqs) => Distinct(FlattenSeq(seqs))
<1> DEFINE N == Len(seqs)
           Met(n) == UNION {Range(seqs[i]) : i \in 1 .. n}
<1>1. N \in Nat /\ \A n \in 1 .. N : seqs[n] \in Seq(T)
  OBVIOUS
<1>2. CASE N = 0
  <2>1. seqs = <<>>
    BY <1>2
  <2>2. FlattenSeq(seqs) = <<>>
    BY <1>2, <2>1 DEF FlattenSeq
  <2>3. Range(<<>>) = {} /\ Distinct(<<>>)
    BY DEF Range, Distinct
  <2>4. 1 .. N = {}
    BY <1>2
  <2> QED
    BY <2>2, <2>3, <2>4
<1>3. CASE N # 0
  <2>0. PICK f : /\ FlattenSteps(f, seqs)
                 /\ FlattenSeq(seqs) = f[Len(seqs)]
    BY <1>3, FlattenRecursion
  <2> DEFINE Good(n) == /\ f[n] \in Seq(T)
                        /\ Range(f[n]) = Met(n)
                        /\ Apart(seqs) => Distinct(f[n])
             G == {n \in Nat : n \in 1 .. N => Good(n)}
  <2>1. 0 \in G
    BY <1>1
  <2>2. ASSUME NEW n \in Nat, n \in G
        PROVE  n + 1 \in G
    <3> SUFFICES ASSUME n + 1 \in 1 .. N PROVE Good(n + 1)
      OBVIOUS
    <3> DEFINE t == seqs[n + 1]
    <3>1. t \in Seq(T) /\ (Apart(seqs) => Distinct(t))
      BY <1>1 DEF Apart
    <3>2. f[n + 1] = IF n = 0 THEN t ELSE f[n] \o t
      BY <2>0 DEF FlattenSteps
    <3>3. Met(n + 1) = Met(n) \cup Range(t)
      <4>1. \A i : i \in 1 .. (n + 1) <=> i \in 1 .. n \/ i = n + 1
        OBVIOUS
      <4> QED
        BY <4>1
    <3>4. CASE n = 0
      <4>1. f[n + 1] = t
        BY <3>2, <3>4
      <4>2. Met(n) = {}
        BY <3>4
      <4> HIDE DEF t, Met
      <4> QED
        BY <3>1, <3>3, <4>1, <4>2
    <3>5. CASE n # 0
      <4> DEFINE s == f[n]
      <4>1. f[n + 1] = s \o t
        BY <3>2, <3>5
      <4>2. Good(n) /\ n \in 1 .. N
        BY <1>1, <2>2, <3>5
      <4>3. Apart(seqs) => Met(n) \cap Range(t) = {}
        <5>1. \A i \in 1 .. n : i \in 1 .. N /\ i # n + 1 /\ n + 1 \in 1 .. N
          BY <1>1
        <5> QED
          BY <5>1 DEF Apart
      <4>4. s \in Seq(T) /\ Range(s) = Met(n) /\ (Apart(seqs) => Distinct(s))
        BY <4>2
      <4> HIDE DEF s, t, Met
      <4>5. s \o t \in Seq(T) /\ Range(s \o t) = Range(s) \cup Range(t)
        BY <3>1, <4>4, ConcatRange
      <4>6. Apart(seqs) => Distinct(s \o t)
        BY <3>1, <4>3, <4>4, ConcatDistinct
      <4> QED
        BY <3>3, <4>1, <4>4, <4>5, <4>6
    <3> QED
      BY <3>4, <3>5
  <2> HIDE DEF G
  <2>3. N \in G
    BY <1>1, <2>1, <2>2, SetInduction
  <2>4. Good(N)
    BY <1>1, <1>3, <2>3 DEF G
  <2> QED
    BY <2>0, <2>4
<1> QED
  BY <1>2, <1>3

-----------------------------------------------------------------------------
(* The bodies of a run: in which of its lists a rank has them, what they   *)
(* are, and which of them a reader will find in a .bod file.               *)

Kept(d) ==
  /\ d.bid > InitBodies
  /\ Distinct(d.bod)
  /\ Range(d.bod) \cup d.newb \subseteq DOMAIN d.all
  /\ \A b \in d.newb : b > InitBodies

(* names is what every body is, onfile are the bodies in .bod files.       *)
Tracked(doms, names, onfile) ==
  \A r \in Ranks :
    /\ Kept(doms[r])
    /\ \A b \in DOMAIN doms[r].all : doms[r].all[b] = names[b]
    /\ \A q \in Ranks : doms[r].sparebid \cap Range(doms[q].bod) = {}
    /\ \A b \in Range(doms[r].bod) :
         b > InitBodies => b \in onfile \/ \E q \in Ranks : b \in doms[q].newb

Whole(doms, names, onfile) == Agreed(doms) /\ Tracked(doms, names, onfile)

LEMMA DroppedDistinct ==
  ASSUME NEW T, NEW list \in Seq(T), NEW S, Distinct(list)
  PROVE  Distinct(Dropped(list, S))
BY ChosenDistinct DEF Dropped

LEMMA RemovedKept ==
  ASSUME NEW d, Sound(d), Kept(d), NEW S \in SUBSET Dealt(d)
  PROVE  /\ Kept(Removed(d, S))
         /\ Removed(d, S).newb = d.newb \ S
<1> DEFINE e == Removed(d, S)
<1>1. e.newb = d.newb \ S /\ e.bod = Dropped(d.bod, S)
  <2>1. e = [d EXCEPT !.all = Without(d.all, S), !.bod = Dropped(d.bod, S),
                      !.newb = d.newb \ S, !.sparebid = d.sparebid \cup S]
    BY DEF Removed
  <2>2. DomFields(d)
    BY DEF Sound
  <2> HIDE DEF e
  <2> QED
    BY <2>1, <2>2 DEF DomFields
<1>2. /\ e.bid = d.bid
      /\ DOMAIN e.all = DOMAIN d.all \ S
      /\ Range(e.bod) = Range(d.bod) \ S
  <2>1. /\ e.bid = d.bid
        /\ e.all = Without(d.all, S)
        /\ Range(e.bod) = Range(d.bod) \ S
    BY RemovedDom
  <2> HIDE DEF e
  <2> QED
    BY <2>1, WithoutFunction
<1>3. Distinct(Dropped(d.bod, S))
  BY DroppedDistinct DEF Sound, Kept
<1> HIDE DEF e
<1>4. Kept(e)
  BY <1>1, <1>2, <1>3 DEF Kept
<1> QED
  BY <1>1, <1>4 DEF e

LEMMA InsertedKept ==
  ASSUME NEW d, Sound(d), Kept(d), NEW q, NEW T, NEW list \in Seq(T)
  PROVE  /\ Kept(Inserted(d, q, list))
         /\ Inserted(d, q, list).newb = d.newb \cup Mine(d, q, list)
<1> DEFINE e == Inserted(d, q, list)
           n == Len(list)
           front == Chosen(Downwards(d.bid, n), Mine(d, q, list))
<1>1. e.newb = d.newb \cup Mine(d, q, list) /\ e.bod = front \o d.bod
  <2> DEFINE all == [b \in DOMAIN d.all \cup New(d, list) |->
                  IF b \in New(d, list) THEN list[b - d.bid + 1].what ELSE d.all[b]]
  <2>1. DomFields(d)
    BY DEF Sound
  <2>2. e = [d EXCEPT !.all = all, !.bod = front \o d.bod,
                      !.newb = d.newb \cup Mine(d, q, list), !.bid = d.bid + n]
    BY DEF Inserted, New, Mine
  <2> HIDE DEF all, front, e
  <2> QED
    BY <2>1, <2>2 DEF DomFields
<1>2. /\ e.bid = d.bid + n
      /\ DOMAIN e.all = DOMAIN d.all \cup New(d, list)
      /\ Range(e.bod) = Mine(d, q, list) \cup Range(d.bod)
  BY InsertedDom
<1>3. n \in Nat /\ d.bid \in Nat /\ d.bid > InitBodies /\ InitBodies \in Nat
  BY OutputAssumption DEF Sound, Kept
<1> HIDE DEF e
<1>4. Distinct(front \o d.bod)
  <2> DEFINE down == Downwards(d.bid, n)
             U == Nat
  <2>1. down \in Seq(New(d, list)) /\ Distinct(down)
    BY <1>3, DownwardsList, DownwardsDistinct DEF New
  <2>2. front \in Seq(New(d, list)) /\ Distinct(front)
    <3> HIDE DEF down
    <3>1. /\ Chosen(down, Mine(d, q, list)) \in Seq(New(d, list))
          /\ Distinct(Chosen(down, Mine(d, q, list)))
      BY <2>1, ChosenList, ChosenDistinct
    <3> QED
      BY <3>1 DEF down
  <2> HIDE DEF front, down
  <2>3. Range(front) \subseteq New(d, list) /\ Range(d.bod) \subseteq Dealt(d)
    BY <2>2, SeqRange DEF Sound
  <2>4. New(d, list) \subseteq Nat /\ Dealt(d) \subseteq Nat
        /\ New(d, list) \cap Dealt(d) = {}
    BY <1>3 DEF New, Dealt
  <2>5. front \in Seq(Nat) /\ d.bod \in Seq(Nat)
    BY <2>2, <2>3, <2>4, SeqRange DEF Sound
  <2>6. Range(front) \cap Range(d.bod) = {}
    BY <2>3, <2>4
  <2> QED
    BY <2>2, <2>5, <2>6, ConcatDistinct DEF Kept
<1>5. Mine(d, q, list) \subseteq New(d, list) /\ \A b \in New(d, list) : b > InitBodies
  BY <1>3 DEF Mine, New
<1>6. Range(e.bod) \cup e.newb \subseteq DOMAIN e.all
  BY <1>1, <1>2, <1>5 DEF Kept
<1>7. /\ e.bid > InitBodies
      /\ \A b \in e.newb : b > InitBodies
  BY <1>1, <1>2, <1>3, <1>5 DEF Kept
<1>8. Kept(e)
  BY <1>1, <1>4, <1>6, <1>7 DEF Kept
<1> QED
  BY <1>1, <1>8 DEF e

LEMMA WithoutNames ==
  ASSUME NEW f, NEW S, NEW g, g = Without(f, S)
  PROVE  \A b \in DOMAIN g : b \in DOMAIN f /\ g[b] = f[b]
BY DEF Without

(* Bodies that are removed where their parents are.                        *)
LEMMA WholeRemoved ==
  ASSUME NEW doms, NEW names, NEW onfile, Whole(doms, names, onfile), NEW L,
         \A r \in Ranks : L[r] \subseteq Range(doms[r].bod)
  PROVE  Whole([r \in Ranks |-> Removed(doms[r], L[r])], names, onfile)
<1> DEFINE e == [r \in Ranks |-> Removed(doms[r], L[r])]
<1>1. \A r \in Ranks : L[r] \subseteq Dealt(doms[r])
  <2>1. \A r \in Ranks : Range(doms[r].bod) \subseteq Dealt(doms[r])
    BY SeqRange DEF Whole, Agreed, Sound
  <2> QED
    BY <2>1
<1>2. Agreed(e)
  BY <1>1, AgreedRemoved DEF Whole
<1>3. ASSUME NEW r \in Ranks
      PROVE  /\ Kept(e[r])
             /\ e[r].newb = doms[r].newb \ L[r]
             /\ e[r].all = Without(doms[r].all, L[r])
             /\ Range(e[r].bod) = Range(doms[r].bod) \ L[r]
             /\ e[r].sparebid = doms[r].sparebid \cup L[r]
  <2>1. Sound(doms[r]) /\ Kept(doms[r]) /\ L[r] \in SUBSET Dealt(doms[r])
    BY <1>1 DEF Whole, Agreed, Tracked
  <2>2. e[r] = Removed(doms[r], L[r])
    OBVIOUS
  <2> QED
    BY <2>1, <2>2, RemovedDom, RemovedKept
<1> HIDE DEF e
<1>4. \A r, q \in Ranks : r # q => Range(doms[r].bod) \cap Range(doms[q].bod) = {}
  BY DEF Whole, Agreed
<1>5. ASSUME NEW r \in Ranks, NEW b \in DOMAIN e[r].all
      PROVE  e[r].all[b] = names[b]
  <2>1. e[r].all = Without(doms[r].all, L[r])
    BY <1>3
  <2>2. b \in DOMAIN doms[r].all /\ e[r].all[b] = doms[r].all[b]
    BY <2>1, WithoutNames
  <2> QED
    BY <2>2 DEF Whole, Tracked
<1>6. ASSUME NEW r \in Ranks, NEW q \in Ranks
      PROVE  e[r].sparebid \cap Range(e[q].bod) = {}
  <2>1. doms[r].sparebid \cap Range(doms[q].bod) = {}
    BY DEF Whole, Tracked
  <2>2. L[r] \cap (Range(doms[q].bod) \ L[q]) = {}
    BY <1>4
  <2> QED
    BY <1>3, <2>1, <2>2
<1>7. ASSUME NEW r \in Ranks, NEW b \in Range(e[r].bod), b > InitBodies, b \notin onfile
      PROVE  \E q \in Ranks : b \in e[q].newb
  <2>1. b \in Range(doms[r].bod) /\ b \notin L[r]
    BY <1>3
  <2>2. PICK q \in Ranks : b \in doms[q].newb
    BY <1>7, <2>1 DEF Whole, Tracked
  <2>3. b \notin L[q]
    BY <1>4, <2>1
  <2> QED
    BY <1>3, <2>2, <2>3
<1>8. Whole(e, names, onfile)
  BY <1>2, <1>3, <1>5, <1>6, <1>7 DEF Whole, Tracked
<1> QED
  BY <1>8 DEF e

(* manage_bodies removes everywhere what is spare anywhere.                *)
LEMMA WholeSpares ==
  ASSUME NEW doms, NEW names, NEW onfile, Whole(doms, names, onfile),
         NEW spare, spare = UNION {doms[r].sparebid : r \in Ranks}
  PROVE  Whole([r \in Ranks |-> [Removed(doms[r], spare) EXCEPT !.sparebid = {}]],
               names, onfile)
<1> DEFINE e == [r \in Ranks |-> [Removed(doms[r], spare) EXCEPT !.sparebid = {}]]
<1>1. \A r \in Ranks : spare \subseteq Dealt(doms[r])
  <2>1. \A r, q \in Ranks : doms[q].sparebid \subseteq Dealt(doms[r])
    BY DEF Whole, Agreed, Sound, SameBodies, Dealt
  <2> QED
    BY <2>1
<1>2. /\ \A r \in Ranks : doms[r].sparebid \subseteq spare
      /\ \A r \in Ranks : spare \cap Range(doms[r].bod) = {}
  BY DEF Whole, Tracked
<1>3. Agreed(e)
  <2>1. Agreed(doms)
    BY DEF Whole
  <2> QED
    BY ONLY <1>1, <1>2, <2>1, AgreedSpares
<1>4. ASSUME NEW r \in Ranks
      PROVE  /\ Kept(e[r])
             /\ e[r].newb = doms[r].newb \ spare
             /\ e[r].all = Without(doms[r].all, spare)
             /\ Range(e[r].bod) = Range(doms[r].bod)
             /\ e[r].sparebid = {}
  <2> DEFINE d == Removed(doms[r], spare)
  <2>1. Sound(doms[r]) /\ Kept(doms[r]) /\ spare \in SUBSET Dealt(doms[r])
    BY <1>1 DEF Whole, Agreed, Tracked
  <2>2. /\ Kept(d) /\ DomFields(d)
        /\ d.newb = doms[r].newb \ spare
        /\ d.all = Without(doms[r].all, spare)
        /\ Range(d.bod) = Range(doms[r].bod) \ spare
    BY <2>1, RemovedDom, RemovedKept DEF Sound
  <2>3. e[r] = [d EXCEPT !.sparebid = {}]
    OBVIOUS
  <2> HIDE DEF d, e
  <2>4. e[r] = [bid |-> d.bid, all |-> d.all, bod |-> d.bod, newb |-> d.newb,
                sparebid |-> {}]
    BY <2>2, <2>3 DEF DomFields
  <2>5. /\ e[r].bid = d.bid /\ e[r].all = d.all /\ e[r].bod = d.bod
        /\ e[r].newb = d.newb /\ e[r].sparebid = {}
    BY <2>4
  <2> QED
    BY <1>2, <2>2, <2>5 DEF Kept
<1> HIDE DEF e
<1>5. ASSUME NEW r \in Ranks, NEW b \in DOMAIN e[r].all
      PROVE  e[r].all[b] = names[b]
  <2>1. e[r].all = Without(doms[r].all, spare)
    BY <1>4
  <2>2. b \in DOMAIN doms[r].all /\ e[r].all[b] = doms[r].all[b]
    BY <2>1, WithoutNames
  <2> QED
    BY <2>2 DEF Whole, Tracked
<1>6. ASSUME NEW r \in Ranks, NEW b \in Range(e[r].bod), b > InitBodies, b \notin onfile
      PROVE  \E q \in Ranks : b \in e[q].newb
  <2>1. b \in Range(doms[r].bod) /\ b \notin spare
    BY <1>2, <1>4
  <2>2. PICK q \in Ranks : b \in doms[q].newb
    BY <1>6, <2>1 DEF Whole, Tracked
  <2> QED
    BY <1>4, <2>1, <2>2
<1>7. Whole(e, names, onfile)
  BY <1>3, <1>4, <1>5, <1>6 DEF Whole, Tracked
<1> QED
  BY <1>7 DEF e

(* What the bodies are after new ones are inserted.                        *)
NamedNew(names, bid, list) ==
  [b \in DOMAIN names \cup bid .. (bid + Len(list) - 1) |->
     IF b >= bid THEN list[b - bid + 1].what ELSE names[b]]

LEMMA WholeInserted ==
  ASSUME NEW doms, NEW names, NEW onfile, Whole(doms, names, onfile),
         NEW bid, \A r \in Ranks : doms[r].bid = bid,
         1 .. (bid - 1) \subseteq DOMAIN names,
         NEW T, NEW list \in Seq(T)
  PROVE  Whole([r \in Ranks |-> Inserted(doms[r], r, list)],
               NamedNew(names, bid, list), onfile)
<1> DEFINE e == [r \in Ranks |-> Inserted(doms[r], r, list)]
           new == bid .. (bid + Len(list) - 1)
           names2 == NamedNew(names, bid, list)
<1>1. Agreed(e)
  BY AgreedInserted DEF Whole
<1>2. ASSUME NEW r \in Ranks
      PROVE  /\ Sound(doms[r]) /\ doms[r].bid = bid /\ bid \in Nat
             /\ New(doms[r], list) = new
             /\ Kept(e[r])
             /\ e[r].newb = doms[r].newb \cup Mine(doms[r], r, list)
             /\ DOMAIN e[r].all = DOMAIN doms[r].all \cup new
             /\ \A b \in DOMAIN doms[r].all : e[r].all[b] = doms[r].all[b]
             /\ \A b \in new : e[r].all[b] = list[b - bid + 1].what
             /\ Range(e[r].bod) = Mine(doms[r], r, list) \cup Range(doms[r].bod)
             /\ e[r].sparebid = doms[r].sparebid
  <2>1. Sound(doms[r]) /\ Kept(doms[r])
    BY DEF Whole, Agreed, Tracked
  <2>2. doms[r].bid = bid /\ bid \in Nat /\ New(doms[r], list) = new
    BY <2>1 DEF Sound, New
  <2>3. e[r] = Inserted(doms[r], r, list)
    OBVIOUS
  <2>4. Kept(e[r]) /\ e[r].newb = doms[r].newb \cup Mine(doms[r], r, list)
    BY <2>1, <2>3, InsertedKept
  <2>5. /\ DOMAIN e[r].all = DOMAIN doms[r].all \cup New(doms[r], list)
        /\ \A b \in DOMAIN doms[r].all : e[r].all[b] = doms[r].all[b]
        /\ \A b \in New(doms[r], list) :
             e[r].all[b] = list[b - doms[r].bid + 1].what
        /\ Range(e[r].bod) = Mine(doms[r], r, list) \cup Range(doms[r].bod)
        /\ e[r].sparebid = doms[r].sparebid
    BY <2>1, <2>3, InsertedDom
  <2> HIDE DEF e, new
  <2> QED
    BY <2>1, <2>2, <2>4, <2>5
<1> HIDE DEF e
<1>3. Len(list) \in Nat /\ bid \in Nat
  <2>1. 0 \in Ranks
    BY OutputAssumption DEF Ranks
  <2> QED
    BY <1>2, <2>1
<1>4. /\ \A b \in new : names2[b] = list[b - bid + 1].what
      /\ \A b \in 1 .. (bid - 1) : names2[b] = names[b]
  <2>1. \A b \in new : b >= bid
    BY <1>3
  <2>2. \A b \in 1 .. (bid - 1) : ~ (b >= bid)
    BY <1>3
  <2> QED
    BY <2>1, <2>2 DEF NamedNew
<1> HIDE DEF names2
<1>5. ASSUME NEW r \in Ranks, NEW b \in DOMAIN e[r].all
      PROVE  e[r].all[b] = names2[b]
  <2>1. CASE b \in new
    BY <1>2, <1>4, <2>1
  <2>2. CASE b \in DOMAIN doms[r].all
    <3>1. b \in 1 .. (bid - 1)
      BY <1>2, <2>2 DEF Sound, Dealt
    <3>2. doms[r].all[b] = names[b]
      BY <2>2 DEF Whole, Tracked
    <3> QED
      BY <1>2, <1>4, <2>2, <3>1, <3>2
  <2> QED
    BY <1>2, <2>1, <2>2
<1>6. ASSUME NEW r \in Ranks, NEW q \in Ranks
      PROVE  e[r].sparebid \cap Range(e[q].bod) = {}
  <2>1. doms[r].sparebid \cap Range(doms[q].bod) = {}
    BY DEF Whole, Tracked
  <2>2. doms[r].sparebid \subseteq 1 .. (bid - 1)
    BY <1>2 DEF Sound, Dealt
  <2>3. Mine(doms[q], q, list) \subseteq new
    BY <1>2 DEF Mine
  <2>4. new \cap 1 .. (bid - 1) = {}
    BY <1>2, <1>3
  <2> HIDE DEF new
  <2> QED
    BY <1>2, <2>1, <2>2, <2>3, <2>4
<1>7. ASSUME NEW r \in Ranks, NEW b \in Range(e[r].bod), b > InitBodies, b \notin onfile
      PROVE  \E q \in Ranks : b \in e[q].newb
  <2>1. CASE b \in Mine(doms[r], r, list)
    BY <1>2, <2>1
  <2>2. CASE b \in Range(doms[r].bod)
    <3>1. PICK q \in Ranks : b \in doms[q].newb
      BY <1>7, <2>2 DEF Whole, Tracked
    <3> QED
      BY <1>2, <3>1
  <2> QED
    BY <1>2, <2>1, <2>2
<1>8. Whole(e, names2, onfile)
  BY <1>1, <1>2, <1>5, <1>6, <1>7 DEF Whole, Tracked
<1> QED
  BY <1>8 DEF e, names2

LEMMA PrependDistinct ==
  ASSUME NEW T, NEW x \in T, NEW t \in Seq(T), Distinct(t), x \notin Range(t)
  PROVE  Distinct(<<x>> \o t)
<1> DEFINE s == <<x>>
<1>1. s \in Seq(T) /\ Range(s) = {x} /\ Distinct(s)
  BY DEF Range, Distinct
<1> HIDE DEF s
<1>2. Distinct(s \o t)
  BY <1>1, ConcatDistinct
<1> QED
  BY <1>2 DEF s

(* A parent migrates.                                                      *)
LEMMA WholeMigrated ==
  ASSUME NEW names, NEW onfile, Whole(dom, names, onfile), NEW b, NEW to \in Ranks
  PROVE  /\ Whole(Migrated(b, to), names, onfile)
         /\ \A r \in Ranks : Migrated(b, to)[r].bid = dom[r].bid
<1> DEFINE e == Migrated(b, to)
<1>0. Agreed(e)
  BY AgreedMigrated DEF Whole
<1>1. CASE b \notin Parents \/ b \in Range(dom[to].bod)
  <2>1. \A r \in Ranks : e[r] = dom[r]
    BY <1>1 DEF Migrated
  <2> HIDE DEF e
  <2>2. Whole(e, names, onfile)
    BY <1>0, <2>1 DEF Whole, Tracked
  <2> QED
    BY <2>1, <2>2 DEF e
<1>2. CASE ~ (b \notin Parents \/ b \in Range(dom[to].bod))
  <2>1. PICK p \in Ranks : b \in Range(dom[p].bod)
    BY <1>2 DEF Parents
  <2>2. b \notin Range(dom[to].bod) /\ \A r \in Ranks : b \notin dom[r].sparebid
    BY <1>2, <2>1 DEF Whole, Tracked
  <2>3. \A r \in Ranks : b \in DOMAIN dom[r].all
    <3>1. b \in DOMAIN dom[p].all
      BY <2>1 DEF Whole, Tracked, Kept
    <3> QED
      BY <2>2, <3>1 DEF Whole, Agreed, SameBodies
  <2>4. \A r \in Ranks : e[r] = IF r = to THEN [dom[r] EXCEPT !.bod = <<b>> \o dom[r].bod]
                               ELSE [dom[r] EXCEPT !.bod = Dropped(dom[r].bod, {b})]
    BY <1>2 DEF Migrated
  <2> HIDE DEF e
  <2>5. ASSUME NEW r \in Ranks
        PROVE  /\ e[r].bid = dom[r].bid /\ e[r].all = dom[r].all
               /\ e[r].sparebid = dom[r].sparebid /\ e[r].newb = dom[r].newb
               /\ e[r].bod = IF r = to THEN <<b>> \o dom[r].bod
                             ELSE Dropped(dom[r].bod, {b})
    <3> DEFINE list == IF r = to THEN <<b>> \o dom[r].bod
                       ELSE Dropped(dom[r].bod, {b})
    <3>1. e[r] = [dom[r] EXCEPT !.bod = list]
      BY <2>4
    <3>2. DomFields(dom[r])
      BY DEF Whole, Agreed, Sound
    <3> HIDE DEF list
    <3>3. e[r] = [bid |-> dom[r].bid, all |-> dom[r].all, bod |-> list,
                  newb |-> dom[r].newb, sparebid |-> dom[r].sparebid]
      BY <3>1, <3>2 DEF DomFields
    <3>4. /\ e[r].bid = dom[r].bid /\ e[r].all = dom[r].all
          /\ e[r].sparebid = dom[r].sparebid /\ e[r].newb = dom[r].newb
          /\ e[r].bod = list
      BY <3>3
    <3> QED
      BY <3>4 DEF list
  <2>6. ASSUME NEW r \in Ranks
        PROVE  /\ Distinct(e[r].bod)
               /\ Range(e[r].bod) = IF r = to THEN {b} \cup Range(dom[r].bod)
                                    ELSE Range(dom[r].bod) \ {b}
    <3>1. dom[r].bod \in Seq(Dealt(dom[r])) /\ Distinct(dom[r].bod)
      BY DEF Whole, Agreed, Sound, Tracked, Kept
    <3>2. b \in Dealt(dom[r])
      BY <2>3 DEF Whole, Agreed, Sound
    <3>3. CASE r = to
      <4>1. /\ Distinct(<<b>> \o dom[r].bod)
            /\ Range(<<b>> \o dom[r].bod) = {b} \cup Range(dom[r].bod)
        BY <2>2, <3>1, <3>2, <3>3, PrependRange, PrependDistinct
      <4> QED
        BY <2>5, <3>3, <4>1
    <3>4. CASE r # to
      <4>1. /\ Distinct(Dropped(dom[r].bod, {b}))
            /\ Range(Dropped(dom[r].bod, {b})) = Range(dom[r].bod) \ {b}
        BY <3>1, DroppedList, DroppedDistinct
      <4> QED
        BY <2>5, <3>4, <4>1
    <3> QED
      BY <3>3, <3>4
  <2>7. \A r \in Ranks : Range(e[r].bod) \subseteq Range(dom[r].bod) \cup {b}
    BY <2>6
  <2>8. ASSUME NEW r \in Ranks
        PROVE  Kept(e[r])
    <3>1. Kept(dom[r])
      BY DEF Whole, Tracked
    <3>2. Range(e[r].bod) \subseteq Range(dom[r].bod) \cup {b}
      BY <2>7
    <3> QED
      BY <2>3, <2>5, <2>6, <3>1, <3>2 DEF Kept
  <2>9. \A r, q \in Ranks : e[r].sparebid \cap Range(e[q].bod) = {}
    BY <2>2, <2>5, <2>7 DEF Whole, Tracked
  <2>10. ASSUME NEW r \in Ranks, NEW c \in Range(e[r].bod), c > InitBodies,
                c \notin onfile
         PROVE  \E q \in Ranks : c \in e[q].newb
    <3>1. c \in Range(dom[r].bod) \/ c \in Range(dom[p].bod)
      BY <2>1, <2>7
    <3>2. PICK q \in Ranks : c \in dom[q].newb
      BY <2>10, <3>1 DEF Whole, Tracked
    <3> QED
      BY <2>5, <3>2
  <2>11. \A r \in Ranks : \A c \in DOMAIN e[r].all : e[r].all[c] = names[c]
    BY <2>5 DEF Whole, Tracked
  <2>12. Whole(e, names, onfile)
    BY <1>0, <2>8, <2>9, <2>10, <2>11 DEF Whole, Tracked
  <2> QED
    BY <2>5, <2>12 DEF e
<1> QED
  BY <1>1, <1>2

(* names2 and bid2 after bodies have got ids from bid on.                  *)
Grown(names2, bid2, names, bid) ==
  /\ bid2 \in Nat /\ bid <= bid2
  /\ 1 .. (bid2 - 1) \subseteq DOMAIN names2
  /\ \A b \in 1 .. (bid - 1) : names2[b] = names[b]

LEMMA NamedGrown ==
  ASSUME NEW names, NEW bid \in Nat, 1 .. (bid - 1) \subseteq DOMAIN names,
         NEW T, NEW list \in Seq(T)
  PROVE  Grown(NamedNew(names, bid, list), bid + Len(list), names, bid)
<1>1. Len(list) \in Nat
  OBVIOUS
<1> DEFINE n == Len(list)
           names2 == NamedNew(names, bid, list)
<1>2. DOMAIN names2 = DOMAIN names \cup bid .. (bid + n - 1)
  BY DEF NamedNew
<1>3. \A b \in 1 .. (bid - 1) : names2[b] = names[b]
  <2>1. \A b \in 1 .. (bid - 1) : ~ (b >= bid)
    OBVIOUS
  <2> QED
    BY <2>1 DEF NamedNew
<1> HIDE DEF names2, n
<1>4. 1 .. (bid + n - 1) \subseteq DOMAIN names2
  <2>1. \A b \in 1 .. (bid + n - 1) : b \in 1 .. (bid - 1) \/ b \in bid .. (bid + n - 1)
    BY <1>1 DEF n
  <2> QED
    BY <1>2, <2>1
<1>5. bid + n \in Nat /\ bid <= bid + n
  BY <1>1 DEF n
<1> QED
  BY <1>3, <1>4, <1>5 DEF Grown, names2, n

LEMMA WholeManaged ==
  ASSUME NEW doms, NEW names, NEW onfile, Whole(doms, names, onfile),
         NEW bid, \A r \in Ranks : doms[r].bid = bid,
         1 .. (bid - 1) \subseteq DOMAIN names,
         NEW T, NEW pending, \A r \in Ranks : pending[r] \in Seq(T)
  PROVE  LET list == InsertOrder(pending, 0)
             e == manage_bodies(doms, pending)
         IN  /\ list \in Seq(T)
             /\ Whole(e, NamedNew(names, bid, list), onfile)
             /\ \A r \in Ranks : e[r].bid = bid + Len(list)
<1> DEFINE list == InsertOrder(pending, 0)
           ins == [r \in Ranks |-> Inserted(doms[r], r, list)]
           spare == UNION {doms[r].sparebid : r \in Ranks}
           e == manage_bodies(doms, pending)
           names2 == NamedNew(names, bid, list)
<1>1. list \in Seq(T)
  BY InsertOrderList
<1>2. e = [r \in Ranks |-> [Removed(ins[r], spare) EXCEPT !.sparebid = {}]]
  BY DEF manage_bodies, InsertOrder
<1> HIDE DEF list, e
<1>3. Whole(ins, names2, onfile)
  BY <1>1, WholeInserted
<1>4. \A r \in Ranks : Sound(doms[r])
  BY DEF Whole, Agreed
<1>5. \A r \in Ranks : /\ ins[r].sparebid = doms[r].sparebid
                       /\ ins[r].bid = bid + Len(list)
                       /\ Sound(ins[r])
  BY <1>1, <1>4, InsertedDom
<1> HIDE DEF ins, names2
<1>6. spare = UNION {ins[r].sparebid : r \in Ranks}
  BY <1>5
<1> HIDE DEF spare
<1>7. Whole(e, names2, onfile)
  <2>1. Whole([r \in Ranks |-> [Removed(ins[r], spare) EXCEPT !.sparebid = {}]],
              names2, onfile)
    BY ONLY <1>3, <1>6, WholeSpares
  <2> QED
    BY <1>2, <2>1
<1>8. \A r \in Ranks : spare \subseteq Dealt(ins[r])
  <2>1. \A r, q \in Ranks : doms[q].sparebid \subseteq Dealt(ins[r])
    BY <1>5 DEF Sound, Dealt
  <2> QED
    BY <1>5, <1>6, <2>1
<1>9. ASSUME NEW r \in Ranks
      PROVE  e[r].bid = bid + Len(list)
  <2> DEFINE d == Removed(ins[r], spare)
  <2>1. DomFields(d) /\ d.bid = bid + Len(list)
    BY <1>5, <1>8, RemovedDom DEF Sound
  <2> HIDE DEF d
  <2>2. e[r] = [d EXCEPT !.sparebid = {}]
    BY <1>2 DEF d
  <2>3. [d EXCEPT !.sparebid = {}].bid = d.bid
    BY <2>1 DEF DomFields
  <2> QED
    BY <2>1, <2>2, <2>3
<1> QED
  BY <1>1, <1>7, <1>9 DEF e, list, names2

(* The fragments of cracked bodies: each is listed once.                   *)
LEMMA FragmentsOf ==
  ASSUME NEW r \in Ranks, NEW bod \in Seq(Nat), Distinct(bod), NEW cracked,
         NEW parts \in Nat
  PROVE  LET list == Fragments(r, bod, cracked, parts)
         IN  /\ list \in Seq(Fragment)
             /\ Distinct(list)
             /\ \A x \in Range(list) :
                  /\ x.rank = r
                  /\ x.what \in (cracked \cap Range(bod)) \X (1 .. parts)
<1> DEFINE split == Chosen(bod, cracked)
           of(i) == [k \in 1 .. parts |-> [rank |-> r, what |-> <<split[i], k>>]]
           lists == [i \in DOMAIN split |-> of(i)]
           list == Fragments(r, bod, cracked, parts)
<1>0. list \in Seq(Fragment)
  BY FragmentList
<1>1. /\ split \in Seq(Nat) /\ Distinct(split)
      /\ Range(split) = Range(bod) \cap cracked
  BY ChosenList, ChosenDistinct
<1>2. list = FlattenSeq(lists)
  BY DEF Fragments
<1> HIDE DEF split, list
<1>3. Len(split) \in Nat /\ DOMAIN split = 1 .. Len(split)
      /\ \A i \in 1 .. Len(split) : split[i] \in Nat
  BY <1>1
<1>4. ASSUME NEW i \in 1 .. Len(split)
      PROVE  /\ of(i) \in Seq(Fragment)
             /\ Distinct(of(i))
             /\ Range(of(i)) = {[rank |-> r, what |-> <<split[i], k>>] : k \in 1 .. parts}
  <2>1. \A k \in 1 .. parts : [rank |-> r, what |-> <<split[i], k>>] \in Fragment
    BY <1>3 DEF Fragment
  <2>2. of(i) \in [1 .. parts -> Fragment]
    BY <2>1
  <2>3. of(i) \in Seq(Fragment)
    BY <2>2
  <2>4. Distinct(of(i))
    BY DEF Distinct
  <2>5. Range(of(i)) = {[rank |-> r, what |-> <<split[i], k>>] : k \in 1 .. parts}
    BY DEF Range
  <2> QED
    BY <2>3, <2>4, <2>5
<1> HIDE DEF of
<1>5. lists \in Seq(Seq(Fragment)) /\ Len(lists) = Len(split)
      /\ \A i \in 1 .. Len(split) : lists[i] = of(i)
  <2>1. lists \in [1 .. Len(split) -> Seq(Fragment)]
    BY <1>3, <1>4
  <2> QED
    BY <1>3, <2>1
<1> HIDE DEF lists
<1>6. Apart(lists)
  <2>1. ASSUME NEW i \in 1 .. Len(split), NEW j \in 1 .. Len(split), i # j
        PROVE  Range(of(i)) \cap Range(of(j)) = {}
    <3>1. split[i] # split[j]
      BY <1>1, <1>3, <2>1 DEF Distinct
    <3>2. \A k, l \in 1 .. parts : [rank |-> r, what |-> <<split[i], k>>]
                                     # [rank |-> r, what |-> <<split[j], l>>]
      BY <3>1
    <3> QED
      BY <1>4, <3>2
  <2>2. \A i \in 1 .. Len(lists) : Distinct(lists[i])
    BY <1>4, <1>5
  <2> QED
    BY <1>5, <2>1, <2>2 DEF Apart
<1>7. /\ Distinct(list)
      /\ Range(list) = UNION {Range(lists[i]) : i \in 1 .. Len(lists)}
  BY <1>2, <1>5, <1>6, FlattenRange
<1>8. ASSUME NEW x \in Range(list)
      PROVE  x.rank = r /\ x.what \in (cracked \cap Range(bod)) \X (1 .. parts)
  <2>1. PICK i \in 1 .. Len(split) : x \in Range(of(i))
    BY <1>5, <1>7
  <2>2. PICK k \in 1 .. parts : x = [rank |-> r, what |-> <<split[i], k>>]
    BY <1>4, <2>1
  <2>3. split[i] \in cracked \cap Range(bod)
    <3>1. split[i] \in Range(split)
      BY <1>3 DEF Range
    <3> QED
      BY <1>1, <3>1
  <2> QED
    BY <2>2, <2>3
<1> QED
  BY <1>0, <1>7, <1>8 DEF list

(* There are at most so many of them as the guard of Step counts.          *)
LEMMA FragmentsBounded ==
  ASSUME NEW bods, \A r \in Ranks : bods[r] \in Seq(Nat) /\ Distinct(bods[r]),
         \A r, q \in Ranks : r # q => Range(bods[r]) \cap Range(bods[q]) = {},
         NEW cracked, IsFiniteSet(cracked), NEW parts \in Nat, NEW pending,
         \A r \in Ranks : pending[r] = Fragments(r, bods[r], cracked, parts)
  PROVE  /\ InsertOrder(pending, 0) \in Seq(Fragment)
         /\ Len(InsertOrder(pending, 0)) <= parts * Cardinality(cracked)
         /\ Cardinality(cracked) \in Nat
<1> DEFINE lists == [i \in 1 .. NP |-> pending[i - 1]]
           list == InsertOrder(pending, 0)
           S == cracked \X (1 .. parts)
<1>0. NP \in Nat \ {0} /\ \A i \in 1 .. NP : i - 1 \in Ranks
  BY OutputAssumption DEF Ranks
<1>1. ASSUME NEW r \in Ranks
      PROVE  /\ pending[r] \in Seq(Fragment)
             /\ Distinct(pending[r])
             /\ \A x \in Range(pending[r]) :
                  /\ x.rank = r
                  /\ x.what \in (cracked \cap Range(bods[r])) \X (1 .. parts)
  BY FragmentsOf
<1>2. lists \in Seq(Seq(Fragment)) /\ Len(lists) = NP
      /\ \A i \in 1 .. NP : lists[i] = pending[i - 1]
  <2>1. lists \in [1 .. NP -> Seq(Fragment)]
    BY <1>0, <1>1
  <2> QED
    BY <1>0, <2>1
<1>3. list = FlattenSeq(lists)
  BY DEF InsertOrder
<1> HIDE DEF lists, list
<1>4. Apart(lists)
  <2>1. ASSUME NEW i \in 1 .. NP, NEW j \in 1 .. NP, i # j
        PROVE  Range(pending[i - 1]) \cap Range(pending[j - 1]) = {}
    <3>1. i - 1 # j - 1
      BY <1>0, <2>1
    <3>2. i - 1 \in Ranks /\ j - 1 \in Ranks
      BY <1>0
    <3>3. /\ \A x \in Range(pending[i - 1]) : x.rank = i - 1
          /\ \A x \in Range(pending[j - 1]) : x.rank = j - 1
      BY <1>1, <3>2
    <3> QED
      BY <3>1, <3>3
  <2>2. \A i \in 1 .. NP : Distinct(pending[i - 1])
    BY <1>0, <1>1
  <2>3. \A i \in 1 .. NP : Distinct(lists[i])
    BY <1>2, <2>2
  <2>4. \A i, j \in 1 .. NP : i # j => Range(lists[i]) \cap Range(lists[j]) = {}
    BY <1>2, <2>1
  <2> QED
    BY <1>2, <2>3, <2>4 DEF Apart
<1>5. /\ list \in Seq(Fragment)
      /\ Distinct(list)
      /\ Range(list) = UNION {Range(lists[i]) : i \in 1 .. Len(lists)}
  BY <1>2, <1>3, <1>4, FlattenRange, FlattenList
<1>6. ASSUME NEW x \in Range(list)
      PROVE  \E r \in Ranks : /\ x.rank = r
                              /\ x.what \in (cracked \cap Range(bods[r])) \X (1 .. parts)
  <2>1. PICK i \in 1 .. NP : x \in Range(pending[i - 1])
    <3>1. PICK i \in 1 .. Len(lists) : x \in Range(lists[i])
      BY <1>5
    <3>2. i \in 1 .. NP /\ lists[i] = pending[i - 1]
      BY <1>2
    <3> QED
      BY <3>1, <3>2
  <2> QED
    BY <1>0, <1>1, <2>1
<1>7. Range(list) \subseteq Fragment
  BY <1>5, SeqRange
<1> DEFINE g == [x \in Range(list) |-> x.what]
<1>8. g \in [Range(list) -> S]
  BY <1>6
<1>9. ASSUME NEW x \in Range(list), NEW y \in Range(list), g[x] = g[y]
      PROVE  x = y
  <2>1. x.what = y.what
    BY <1>9
  <2>2. PICK r \in Ranks : /\ x.rank = r
                           /\ x.what \in (cracked \cap Range(bods[r])) \X (1 .. parts)
    BY <1>6
  <2>3. PICK q \in Ranks : /\ y.rank = q
                           /\ y.what \in (cracked \cap Range(bods[q])) \X (1 .. parts)
    BY <1>6
  <2>4. x.what[1] \in Range(bods[r]) /\ x.what[1] \in Range(bods[q])
    BY <2>1, <2>2, <2>3
  <2>5. r = q
    BY <2>4
  <2>6. x \in Fragment /\ y \in Fragment
    BY <1>7
  <2> QED
    BY <2>1, <2>2, <2>3, <2>5, <2>6 DEF Fragment
<1> HIDE DEF g
<1>10. g \in Injection(Range(list), S)
  <2> HIDE DEF S
  <2> QED
    BY <1>8, <1>9, Fun_IsInj
<1>11. /\ IsFiniteSet(S)
       /\ Cardinality(S) = Cardinality(cracked) * parts
       /\ Cardinality(cracked) \in Nat
  <2>1. IsFiniteSet(1 .. parts) /\ Cardinality(1 .. parts) = parts
    <3>1. /\ IsFiniteSet(1 .. parts)
          /\ Cardinality(1 .. parts) = IF 1 > parts THEN 0 ELSE parts - 1 + 1
      BY FS_Interval
    <3> QED
      BY <3>1
  <2>2. IsFiniteSet(S) /\ Cardinality(S) = Cardinality(cracked) * Cardinality(1 .. parts)
    BY <2>1, FS_Product
  <2>3. Cardinality(cracked) \in Nat
    BY FS_CardinalityType
  <2> QED
    BY <2>1, <2>2, <2>3
<1>12. Cardinality(Range(list)) <= Cardinality(S)
  <2> HIDE DEF S
  <2> QED
    BY <1>10, <1>11, FS_Injection
<1>13. Cardinality(Range(list)) = Len(list)
  BY <1>5, DistinctLength
<1>14. Cardinality(cracked) * parts = parts * Cardinality(cracked)
  BY <1>11
<1> QED
  BY <1>5, <1>11, <1>12, <1>13, <1>14 DEF list

LEMMA ZeroRank == 0 \in Ranks
BY OutputAssumption DEF Ranks

LEMMA WholeStep ==
  ASSUME NEW names, NEW onfile, Whole(dom, names, onfile),
         1 .. (dom[0].bid - 1) \subseteq DOMAIN names,
         NEW b, NEW to \in Ranks, NEW gone, NEW cracked \in SUBSET Parents,
         NEW parts \in Nat, Step(b, to, gone, cracked, parts)
  PROVE  \E names2 : /\ Whole(dom', names2, onfile)
                     /\ Grown(names2, dom'[0].bid, names, dom[0].bid)
                     /\ dom'[0].bid <= MaxId + 1
<1> DEFINE doms == Migrated(b, to)
           L == [r \in Ranks |-> Range(doms[r].bod) \cap (gone \cup cracked)]
           left == [r \in Ranks |-> Removed(doms[r], L[r])]
           pending == [r \in Ranks |-> Fragments(r, doms[r].bod, cracked, parts)]
           list == InsertOrder(pending, 0)
           bid == dom[0].bid
<1>1. /\ dom' = manage_bodies(left, pending)
      /\ bid + parts * Cardinality(cracked) <= MaxId + 1
  BY ZeroRank DEF Step
<1>2. /\ Whole(doms, names, onfile)
      /\ \A r \in Ranks : doms[r].bid = dom[r].bid
  BY WholeMigrated
<1>3. bid \in Nat /\ \A r \in Ranks : doms[r].bid = bid
  <2>1. bid \in Nat /\ \A r \in Ranks : dom[r].bid = bid
    BY ZeroRank DEF Whole, Agreed, SameBodies, Sound
  <2> QED
    BY <1>2, <2>1
<1> HIDE DEF doms
<1>4. \A r \in Ranks : L[r] \subseteq Range(doms[r].bod)
  OBVIOUS
<1>5. \A r \in Ranks : L[r] \in SUBSET Dealt(doms[r])
  <2>1. \A r \in Ranks : Range(doms[r].bod) \subseteq Dealt(doms[r])
    BY <1>2, SeqRange DEF Whole, Agreed, Sound
  <2> QED
    BY <2>1
<1> HIDE DEF L
<1>6. Whole(left, names, onfile)
  BY ONLY <1>2, <1>4, WholeRemoved
<1>7. \A r \in Ranks : left[r].bid = bid
  <2>1. \A r \in Ranks : Sound(doms[r])
    BY <1>2 DEF Whole, Agreed
  <2> QED
    BY <1>3, <1>5, <2>1, RemovedDom
<1> HIDE DEF left
<1>8. IsFiniteSet(cracked)
  <2>1. \A r \in Ranks : Range(dom[r].bod) \subseteq 1 .. (bid - 1)
    <3>1. \A r \in Ranks : Range(dom[r].bod) \subseteq Dealt(dom[r])
      BY SeqRange DEF Whole, Agreed, Sound
    <3>2. \A r \in Ranks : dom[r].bid = bid
      BY <1>2, <1>3
    <3> QED
      BY <3>1, <3>2 DEF Dealt
  <2>2. cracked \in SUBSET (1 .. (bid - 1))
    BY <2>1 DEF Parents
  <2>3. IsFiniteSet(1 .. (bid - 1))
    <3> HIDE DEF bid
    <3>1. bid - 1 \in Int /\ 1 \in Int
      BY <1>3
    <3> QED
      BY <3>1, FS_Interval
  <2> QED
    BY <2>2, <2>3, FS_Subset
<1>9. /\ list \in Seq(Fragment)
      /\ Len(list) <= parts * Cardinality(cracked)
      /\ Cardinality(cracked) \in Nat
      /\ \A r \in Ranks : pending[r] \in Seq(Fragment)
  <2> DEFINE bods == [r \in Ranks |-> doms[r].bod]
  <2>1. \A r \in Ranks : bods[r] \in Seq(Nat) /\ Distinct(bods[r])
    <3>1. \A r \in Ranks : /\ doms[r].bod \in Seq(Dealt(doms[r]))
                           /\ Dealt(doms[r]) \subseteq Nat
                           /\ Distinct(doms[r].bod)
      BY <1>2 DEF Whole, Agreed, Sound, Tracked, Kept, Dealt
    <3>2. \A r \in Ranks : doms[r].bod \in Seq(Nat)
      BY <3>1, SeqRange
    <3> QED
      BY <3>1, <3>2
  <2>2. \A r, q \in Ranks : r # q => Range(bods[r]) \cap Range(bods[q]) = {}
    BY <1>2 DEF Whole, Agreed
  <2>3. \A r \in Ranks : pending[r] = Fragments(r, bods[r], cracked, parts)
    OBVIOUS
  <2> HIDE DEF bods, pending
  <2>4. \A r \in Ranks : pending[r] \in Seq(Fragment)
    BY <2>1, <2>3, FragmentList
  <2> QED
    BY <1>8, <2>1, <2>2, <2>3, <2>4, FragmentsBounded
<1> HIDE DEF pending
<1> DEFINE names2 == NamedNew(names, bid, list)
<1>10. /\ Whole(dom', names2, onfile)
       /\ \A r \in Ranks : dom'[r].bid = bid + Len(list)
  <2>1. /\ Whole(manage_bodies(left, pending), names2, onfile)
        /\ \A r \in Ranks : manage_bodies(left, pending)[r].bid = bid + Len(list)
    BY ONLY <1>6, <1>7, <1>9, WholeManaged, 1 .. (dom[0].bid - 1) \subseteq DOMAIN names
  <2> QED
    BY <1>1, <2>1
<1>11. Grown(names2, bid + Len(list), names, bid)
  BY <1>3, <1>9, NamedGrown
<1>12. bid + Len(list) <= MaxId + 1
  <2>1. Len(list) \in Nat /\ parts * Cardinality(cracked) \in Nat
    BY <1>9
  <2> QED
    BY <1>1, <1>3, <1>9, <2>1, OutputAssumption
<1>13. dom'[0].bid = bid + Len(list)
  BY <1>10, ZeroRank
<1> HIDE DEF names2, list, bid
<1> QED
  BY <1>10, <1>11, <1>12, <1>13 DEF bid

LEMMA WholeChanged ==
  ASSUME NEW names, NEW onfile, Whole(dom, names, onfile),
         1 .. (dom[0].bid - 1) \subseteq DOMAIN names,
         dom[0].bid <= MaxId + 1,
         NEW S, NEW create \in BOOLEAN, create => \A r \in Ranks : dom[r].bid <= MaxId,
         NEW e, e = [r \in Ranks |-> Changed(r, S, create)]
  PROVE  \E names2 : /\ Whole(e, names2, onfile)
                     /\ Grown(names2, e[0].bid, names, dom[0].bid)
                     /\ e[0].bid <= MaxId + 1
<1> DEFINE L == [r \in Ranks |-> S \cap Range(dom[r].bod)]
           d == [r \in Ranks |-> Removed(dom[r], L[r])]
           bid == dom[0].bid
<1>1. \A r \in Ranks : L[r] \subseteq Range(dom[r].bod)
  OBVIOUS
<1>2. Whole(d, names, onfile)
  <2> HIDE DEF L
  <2> QED
    BY ONLY Whole(dom, names, onfile), <1>1, WholeRemoved
<1>3. /\ bid \in Nat /\ \A r \in Ranks : dom[r].bid = bid
      /\ \A r \in Ranks : Sound(dom[r])
      /\ \A r \in Ranks : Range(dom[r].bod) \subseteq Dealt(dom[r])
  BY ZeroRank, SeqRange DEF Whole, Agreed, SameBodies, Sound
<1>4. \A r \in Ranks : d[r].bid = bid
  <2>1. \A r \in Ranks : L[r] \in SUBSET Dealt(dom[r])
    BY <1>3
  <2> HIDE DEF L
  <2>2. \A r \in Ranks : Removed(dom[r], L[r]).bid = dom[r].bid
    BY <1>3, <2>1, RemovedDom
  <2> QED
    BY <1>3, <2>2
<1>5. CASE ~create
  <2>1. e = d
    BY <1>5 DEF Changed
  <2>2. Grown(names, bid, names, bid)
    BY <1>3 DEF Grown
  <2>3. e[0].bid = bid
    BY <1>4, <2>1, ZeroRank
  <2> HIDE DEF d
  <2> QED
    BY <1>2, <2>1, <2>2, <2>3
<1>6. CASE create
  <2> DEFINE one(r) == <<[rank |-> d[r].bid % NP, what |-> <<-time, 0>>]>>
             x == [rank |-> bid % NP, what |-> <<-time, 0>>]
             list == <<x>>
             names2 == NamedNew(names, bid, list)
  <2>1. \A r \in Ranks : one(r) = list
    <3> HIDE DEF d, bid
    <3> QED
      BY <1>4
  <2>2. list \in Seq({x}) /\ Len(list) = 1
    OBVIOUS
  <2>3. \A r \in Ranks : e[r] = Inserted(d[r], r, one(r))
    BY <1>6 DEF Changed
  <2> HIDE DEF x, list, one, d, names2
  <2>4. e = [r \in Ranks |-> Inserted(d[r], r, list)]
    BY <2>1, <2>3
  <2>5. Whole(e, names2, onfile)
    <3>1. Whole([r \in Ranks |-> Inserted(d[r], r, list)], NamedNew(names, bid, list),
                onfile)
      BY ONLY <1>2, <1>4, <2>2, WholeInserted, 1 .. (dom[0].bid - 1) \subseteq DOMAIN names
    <3> QED
      BY <2>4, <3>1 DEF names2
  <2>6. Grown(names2, bid + 1, names, bid)
    BY <1>3, <2>2, NamedGrown DEF names2
  <2>7. e[0].bid = bid + 1
    <3>1. Sound(d[0])
      BY <1>2, ZeroRank DEF Whole, Agreed
    <3> QED
      BY <1>4, <2>2, <2>4, <3>1, ZeroRank, InsertedDom
  <2>8. bid + 1 <= MaxId + 1
    BY <1>3, <1>6, ZeroRank, OutputAssumption
  <2> HIDE DEF bid
  <2> QED
    BY <2>5, <2>6, <2>7, <2>8 DEF bid
<1> QED
  BY <1>5, <1>6

LEMMA WholeInit ==
  ASSUME NEW names, NEW onfile, \A b \in 1 .. InitBodies : names[b] = <<0, b>>,
         NEW e, e = [r \in Ranks |-> InitDom(r)]
  PROVE  Whole(e, names, onfile) /\ e[0].bid = InitBodies + 1
<1>1. Agreed(e)
  BY AgreedInit
<1>2. ASSUME NEW r \in Ranks
      PROVE  /\ e[r].bid = InitBodies + 1
             /\ e[r].all = [b \in 1 .. InitBodies |-> <<0, b>>]
             /\ e[r].newb = {}
             /\ e[r].sparebid = {}
             /\ e[r].bod = Chosen(Downwards(1, InitBodies),
                                  {b \in 1 .. InitBodies : b % NP = r})
  BY DEF InitDom
<1>3. ASSUME NEW r \in Ranks
      PROVE  Distinct(e[r].bod) /\ Range(e[r].bod) \subseteq 1 .. InitBodies
  <2> DEFINE down == Downwards(1, InitBodies)
             S == {b \in 1 .. InitBodies : b % NP = r}
  <2>1. Distinct(down) /\ down \in Seq(1 .. (1 + InitBodies - 1))
    BY DownwardsList, DownwardsDistinct, OutputAssumption
  <2> HIDE DEF down
  <2>2. Distinct(Chosen(down, S)) /\ Range(Chosen(down, S)) = Range(down) \cap S
    BY <2>1, ChosenList, ChosenDistinct
  <2>3. e[r].bod = Chosen(down, S)
    BY <1>2 DEF down
  <2> QED
    BY <2>2, <2>3
<1>4. ASSUME NEW r \in Ranks
      PROVE  Kept(e[r])
  <2>1. DOMAIN e[r].all = 1 .. InitBodies
    BY <1>2
  <2>2. Distinct(e[r].bod) /\ Range(e[r].bod) \subseteq 1 .. InitBodies
    BY <1>3
  <2>3. e[r].bid > InitBodies
    <3>1. e[r].bid = InitBodies + 1 /\ InitBodies \in Nat
      BY <1>2, OutputAssumption
    <3> QED
      BY ONLY <3>1
  <2>4. e[r].newb = {}
    BY <1>2
  <2> QED
    BY ONLY <2>1, <2>2, <2>3, <2>4 DEF Kept
<1>5. ASSUME NEW r \in Ranks, NEW b \in DOMAIN e[r].all
      PROVE  e[r].all[b] = names[b]
  BY <1>2, ZenonT(30)
<1>6. \A r \in Ranks : \A b \in Range(e[r].bod) : ~ (b > InitBodies)
  BY <1>3, OutputAssumption
<1>7. Tracked(e, names, onfile)
  BY <1>2, <1>4, <1>5, <1>6 DEF Tracked
<1> QED
  BY <1>1, <1>2, <1>7, ZeroRank DEF Whole

-----------------------------------------------------------------------------
(* The bodies in the files and in the log.                                 *)

OnFile == UNION {DOMAIN bodfile[r] : r \in Ranks}

(* The bodies that are in .bod files, and those that have been recorded.   *)
Written(names) ==
  \A r \in Ranks :
    /\ \A b \in DOMAIN bodfile[r] : bodfile[r][b] = names[b]
    /\ \A n \in 1 .. Len(log[r]) : \A b \in DOMAIN log[r][n].bod :
         log[r][n].bod[b] = names[b]

(* A body of the input file is known to the script of the reader; any      *)
(* other one that has been recorded is in a .bod file.                     *)
Found ==
  \A r \in Ranks : \A n \in 1 .. Len(log[r]) : \A b \in DOMAIN log[r][n].bod :
    b > InitBodies => b \in OnFile

Within(top) ==
  \A r \in Ranks :
    /\ DOMAIN bodfile[r] \subseteq (InitBodies + 1) .. top
    /\ \A n \in 1 .. Len(log[r]) : DOMAIN log[r][n].bod \subseteq 1 .. top

Known(names) ==
  /\ Whole(dom, names, OnFile)
  /\ 1 .. (dom[0].bid - 1) \subseteq DOMAIN names
  /\ \A b \in 1 .. InitBodies : names[b] = <<0, b>>
  /\ Written(names)

(* A process has died and left files that no reader accepts.               *)
Refused == \E r \in Ranks : file[r].stage = "dead" /\ ~Intact(file[r])

BodiesInv ==
  /\ dom[0].bid <= MaxId + 1
  /\ \A r \in Ranks : IsList(log[r])
  /\ Within(MaxId)
  /\ pc \in Running => Within(dom[0].bid - 1)
  /\ pc \in Running => Found
  /\ Refused \/ Found
  /\ \E names : Known(names)

(* Nothing changes the files of a process that has died.                   *)
LEMMA RefusedStays ==
  ASSUME Inv, \/ file' = file
              \/ \E r \in Ranks : Close(r)
              \/ \E lost : Crash(lost)
  PROVE  Refused => Refused'
<1> SUFFICES ASSUME NEW r \in Ranks, file[r].stage = "dead", ~Intact(file[r])
             PROVE  Refused'
  BY DEF Refused
<1>1. file'[r] = file[r]
  <2>1. CASE file' = file
    BY <2>1
  <2>2. ASSUME NEW q \in Ranks, Close(q)
        PROVE  file'[r] = file[r]
    <3>1. file' = [file EXCEPT ![q] = PBF_Close(@)] /\ q # r
      BY <2>2 DEF Close, Left
    <3>2. file = [p \in Ranks |-> file[p]]
      BY DEF Inv, FilesInv
    <3> QED
      BY <3>1, <3>2
  <2>3. ASSUME NEW lost, Crash(lost)
        PROVE  file'[r] = file[r]
    <3>1. file'[r] = Torn(file[r], lost[r])
      BY <2>3 DEF Crash
    <3> QED
      BY <3>1 DEF Torn, Left
  <2> QED
    BY <2>1, <2>2, <2>3
<1> QED
  BY <1>1 DEF Refused, Ranks

(* A rank that does not get to SOLFEC_Abort dies while its files are       *)
(* written to.                                                             *)
LEMMA AbortRefused ==
  ASSUME Inv, NEW S \in SUBSET Ranks, S # Ranks,
         NEW lost \in [Ranks \ S -> Losses], SOLFEC_Abort(S, lost)
  PROVE  Refused'
<1>1. PICK r \in Ranks : r \notin S
  OBVIOUS
<1>2. IsOpen(file[r]) /\ file'[r] = Torn(file[r], lost[r]) /\ lost[r] \in Losses
  BY <1>1 DEF SOLFEC_Abort, Inv, FilesInv, AllOpen
<1>3. ~Intact(file'[r])
  BY <1>2, TornRefused
<1>4. file'[r].stage = "dead"
  BY <1>2 DEF Torn, Left, IsOpen, IsFile, HasFields
<1> QED
  BY <1>3, <1>4 DEF Refused, Ranks

LEMMA NewBodiesAdded ==
  ASSUME NEW r
  PROVE  /\ DOMAIN NewBodies(r) = DOMAIN bodfile[r] \cup dom[r].newb
         /\ \A b \in DOMAIN bodfile[r] : NewBodies(r)[b] = bodfile[r][b]
         /\ \A b \in dom[r].newb : b \notin DOMAIN bodfile[r] =>
              NewBodies(r)[b] = dom[r].all[b]
BY DEF NewBodies

Noted(W) ==
  /\ bodfile' = [r \in Ranks |-> IF r \in W THEN NewBodies(r) ELSE bodfile[r]]
  /\ log' = [r \in Ranks |-> IF r \in W THEN Append(log[r], Record(r)) ELSE log[r]]

(* What the ranks of W write: nothing is missing if all write, or none.    *)
LEMMA RecordingBodies ==
  ASSUME BodiesInv, NEW names, Known(names), NEW W \in SUBSET Ranks,
         pc \in Running, Noted(W)
  PROVE  /\ \A r \in Ranks : IsList(log'[r])
         /\ Within(MaxId)' /\ Written(names)'
         /\ \A h \in Int : h = dom[0].bid - 1 /\ Within(h) => Within(h)'
         /\ W \in {{}, Ranks} => Found'
         /\ OnFile \subseteq OnFile'
         /\ \A r \in Ranks : r \in W => dom[r].newb \subseteq OnFile'
<1> DEFINE top == dom[0].bid - 1
<1>1. /\ \A r \in Ranks : dom[r].newb \subseteq DOMAIN dom[r].all
      /\ \A r \in Ranks : Range(dom[r].bod) \subseteq DOMAIN dom[r].all
      /\ \A r \in Ranks : DOMAIN dom[r].all \subseteq 1 .. top
      /\ \A r \in Ranks : \A b \in dom[r].newb : b > InitBodies
      /\ \A r \in Ranks : \A b \in DOMAIN dom[r].all : dom[r].all[b] = names[b]
      /\ top \in Int /\ top <= MaxId /\ MaxId \in Nat /\ InitBodies \in Nat
  <2>1. \A r \in Ranks : dom[r].bid = dom[0].bid /\ dom[r].bid \in Nat
    BY ZeroRank DEF Known, Whole, Agreed, Sound, SameBodies
  <2>2. \A r \in Ranks : DOMAIN dom[r].all \subseteq 1 .. top
    BY <2>1 DEF Known, Whole, Agreed, Sound, Dealt
  <2>3. top \in Int /\ top <= MaxId /\ MaxId \in Nat /\ InitBodies \in Nat
    BY <2>1, ZeroRank, OutputAssumption DEF BodiesInv
  <2> HIDE DEF top
  <2> QED
    BY <2>2, <2>3 DEF Known, Whole, Tracked, Kept
<1> HIDE DEF top
<1>2. /\ \A r \in Ranks : bodfile'[r] = IF r \in W THEN NewBodies(r) ELSE bodfile[r]
      /\ \A r \in Ranks : log'[r] = IF r \in W THEN Append(log[r], Record(r)) ELSE log[r]
  BY DEF Noted
<1>3. ASSUME NEW r \in Ranks
      PROVE  /\ DOMAIN bodfile'[r] = DOMAIN bodfile[r] \cup IF r \in W THEN dom[r].newb ELSE {}
             /\ \A b \in DOMAIN bodfile'[r] : bodfile'[r][b] = names[b]
  <2>1. CASE r \in W
    <3>1. bodfile'[r] = NewBodies(r)
      BY <1>2, <2>1
    <3>2. DOMAIN bodfile'[r] = DOMAIN bodfile[r] \cup dom[r].newb
      BY <3>1, NewBodiesAdded
    <3>3. ASSUME NEW b \in DOMAIN bodfile'[r]
          PROVE  bodfile'[r][b] = names[b]
      <4>1. CASE b \in DOMAIN bodfile[r]
        BY <3>1, <4>1, NewBodiesAdded DEF Known, Written
      <4>2. CASE b \notin DOMAIN bodfile[r]
        <5>1. b \in dom[r].newb /\ bodfile'[r][b] = dom[r].all[b]
          BY <3>1, <3>2, <4>2, NewBodiesAdded
        <5> QED
          BY <1>1, <5>1
      <4> QED
        BY <4>1, <4>2
    <3> QED
      BY <2>1, <3>2, <3>3
  <2>2. CASE r \notin W
    BY <1>2, <2>2 DEF Known, Written
  <2> QED
    BY <2>1, <2>2
<1>4. OnFile \subseteq OnFile' /\ \A r \in Ranks : r \in W => dom[r].newb \subseteq OnFile'
  BY <1>3 DEF OnFile
<1>5. ASSUME NEW r \in Ranks
      PROVE  /\ IsList(log'[r])
             /\ \A n \in 1 .. Len(log'[r]) :
                  \/ n \in 1 .. Len(log[r]) /\ log'[r][n] = log[r][n]
                  \/ r \in W /\ log'[r][n] = Record(r)
  <2>1. IsList(log[r])
    BY DEF BodiesInv
  <2>2. CASE r \in W
    <3> DEFINE x == Record(r)
    <3> HIDE DEF x
    <3>1. log'[r] = Append(log[r], x)
      BY <1>2, <2>2 DEF x
    <3>2. /\ IsList(Append(log[r], x))
          /\ Len(Append(log[r], x)) = Len(log[r]) + 1
          /\ \A n \in 1 .. Len(log[r]) : Append(log[r], x)[n] = log[r][n]
          /\ Append(log[r], x)[Len(log[r]) + 1] = x
      BY <2>1, AppendList
    <3>3. Len(log[r]) \in Nat
      BY <2>1 DEF IsList
    <3>4. \A n \in 1 .. (Len(log[r]) + 1) : n \in 1 .. Len(log[r]) \/ n = Len(log[r]) + 1
      BY <3>3
    <3> QED
      BY <2>2, <3>1, <3>2, <3>4 DEF x
  <2>3. CASE r \notin W
    BY <1>2, <2>1, <2>3
  <2> QED
    BY <2>2, <2>3
<1>6. ASSUME NEW r \in Ranks
      PROVE  /\ DOMAIN Record(r).bod = Range(dom[r].bod)
             /\ \A b \in Range(dom[r].bod) : Record(r).bod[b] = names[b]
  <2>1. Record(r).bod = [b \in Range(dom[r].bod) |-> dom[r].all[b]]
    BY DEF Record
  <2> QED
    BY <1>1, <2>1
<1>7. ASSUME NEW h \in Int, Within(h), h <= MaxId, top <= h
      PROVE  Within(h)'
  <2>1. \A r \in Ranks : DOMAIN bodfile'[r] \subseteq (InitBodies + 1) .. h
    <3> SUFFICES ASSUME NEW r \in Ranks, NEW b \in DOMAIN bodfile'[r]
                 PROVE  b \in (InitBodies + 1) .. h
      OBVIOUS
    <3>1. CASE b \in DOMAIN bodfile[r]
      BY <1>7, <3>1 DEF Within
    <3>2. CASE b \in dom[r].newb
      <4>1. b \in 1 .. top /\ b > InitBodies
        BY <1>1, <3>2
      <4> QED
        BY <1>1, <1>7, <4>1
    <3> QED
      BY <1>3, <3>1, <3>2
  <2>2. ASSUME NEW r \in Ranks, NEW n \in 1 .. Len(log'[r])
        PROVE  DOMAIN log'[r][n].bod \subseteq 1 .. h
    <3>1. CASE n \in 1 .. Len(log[r]) /\ log'[r][n] = log[r][n]
      BY <1>7, <3>1 DEF Within
    <3>2. CASE log'[r][n] = Record(r)
      <4>1. DOMAIN log'[r][n].bod \subseteq 1 .. top
        BY <1>1, <1>6, <3>2
      <4>2. 1 .. top \subseteq 1 .. h
        BY <1>1, <1>7
      <4> QED
        BY <4>1, <4>2
    <3> QED
      BY <1>5, <3>1, <3>2
  <2> QED
    BY <2>1, <2>2 DEF Within
<1>8. Within(MaxId)'
  BY <1>1, <1>7 DEF BodiesInv
<1>9. ASSUME NEW h \in Int, h = top, Within(h)
      PROVE  Within(h)'
  BY <1>1, <1>7, <1>9
<1>10. Written(names)'
  <2>1. ASSUME NEW r \in Ranks, NEW n \in 1 .. Len(log'[r]),
               NEW b \in DOMAIN log'[r][n].bod
        PROVE  log'[r][n].bod[b] = names[b]
    <3>1. CASE n \in 1 .. Len(log[r]) /\ log'[r][n] = log[r][n]
      BY <2>1, <3>1 DEF Known, Written
    <3>2. CASE log'[r][n] = Record(r)
      BY <1>6, <2>1, <3>2
    <3> QED
      BY <1>5, <3>1, <3>2
  <2> QED
    BY <1>3, <2>1 DEF Written
<1>11. ASSUME W \in {{}, Ranks}
       PROVE  Found'
  <2> SUFFICES ASSUME NEW r \in Ranks, NEW n \in 1 .. Len(log'[r]),
                      NEW b \in DOMAIN log'[r][n].bod, b > InitBodies
               PROVE  b \in OnFile'
    BY DEF Found
  <2>1. CASE n \in 1 .. Len(log[r]) /\ log'[r][n] = log[r][n]
    <3>1. b \in OnFile
      BY <2>1 DEF BodiesInv, Found, Running
    <3> QED
      BY <1>4, <3>1
  <2>2. CASE r \in W /\ log'[r][n] = Record(r)
    <3>1. W = Ranks
      BY <1>11, <2>2
    <3>2. b \in Range(dom[r].bod)
      BY <1>6, <2>2
    <3>3. b \in OnFile \/ \E q \in Ranks : b \in dom[q].newb
      BY <3>2 DEF Known, Whole, Tracked
    <3> QED
      BY <1>4, <3>1, <3>3
  <2> QED
    BY <1>5, <2>1, <2>2
<1> QED
  BY <1>4, <1>5, <1>8, <1>9, <1>10, <1>11 DEF top

LEMMA BodiesWritten ==
  ASSUME BodiesInv, NEW W \in {{}, Ranks}, NEW s, NEW lw, write_state(W, s, lw),
         pc \in Running, pc' \in Running
  PROVE  BodiesInv'
<1>1. PICK names : Known(names)
  BY DEF BodiesInv
<1>2. Noted(W)
  BY DEF write_state, Recording, Noted
<1>3. /\ \A r \in Ranks : IsList(log'[r])
      /\ Within(MaxId)' /\ Written(names)'
      /\ \A h \in Int : h = dom[0].bid - 1 /\ Within(h) => Within(h)'
      /\ Found'
      /\ OnFile \subseteq OnFile'
      /\ \A r \in Ranks : r \in W => dom[r].newb \subseteq OnFile'
  BY ONLY BodiesInv, <1>1, <1>2, pc \in Running, W \in {{}, Ranks}, RecordingBodies
<1>4. ASSUME NEW r \in Ranks
      PROVE  /\ dom'[r].bid = dom[r].bid /\ dom'[r].all = dom[r].all
             /\ dom'[r].bod = dom[r].bod /\ dom'[r].sparebid = dom[r].sparebid
             /\ dom'[r].newb = IF r \in W THEN {} ELSE dom[r].newb
  <2>1. dom'[r] = IF r \in W THEN [dom[r] EXCEPT !.newb = {}] ELSE dom[r]
    BY DEF write_state
  <2>2. DomFields(dom[r])
    BY <1>1 DEF Known, Whole, Agreed, Sound
  <2>3. CASE r \in W
    <3>1. dom'[r] = [bid |-> dom[r].bid, all |-> dom[r].all, bod |-> dom[r].bod,
                     newb |-> {}, sparebid |-> dom[r].sparebid]
      BY <2>1, <2>2, <2>3 DEF DomFields
    <3> QED
      BY <2>3, <3>1
  <2> QED
    BY <2>1, <2>3
<1>5. Whole(dom', names, OnFile')
  <2>1. Agreed(dom')
    BY <1>1, AgreedRecorded DEF Known, Whole
  <2>2. \A r \in Ranks : Kept(dom'[r])
    BY <1>1, <1>4 DEF Known, Whole, Tracked, Kept
  <2>3. ASSUME NEW r \in Ranks, NEW b \in Range(dom'[r].bod), b > InitBodies
        PROVE  b \in OnFile' \/ \E q \in Ranks : b \in dom'[q].newb
    <3>1. b \in OnFile \/ \E q \in Ranks : b \in dom[q].newb
      BY <1>1, <1>4, <2>3 DEF Known, Whole, Tracked
    <3> QED
      BY <1>3, <1>4, <3>1
  <2>4. \A r \in Ranks :
          /\ \A b \in DOMAIN dom'[r].all : dom'[r].all[b] = names[b]
          /\ \A q \in Ranks : dom'[r].sparebid \cap Range(dom'[q].bod) = {}
    BY <1>1, <1>4 DEF Known, Whole, Tracked
  <2> QED
    BY <2>1, <2>2, <2>3, <2>4 DEF Whole, Tracked
<1>6. dom'[0].bid = dom[0].bid /\ dom[0].bid - 1 \in Int
  BY <1>1, <1>4, ZeroRank DEF Known, Whole, Agreed, Sound
<1>7. Known(names)'
  BY <1>1, <1>3, <1>5, <1>6 DEF Known
<1>8. Within(dom[0].bid - 1)'
  <2>1. Within(dom[0].bid - 1)
    BY DEF BodiesInv
  <2> DEFINE h == dom[0].bid - 1
  <2>2. ASSUME NEW i \in Int, i = h
        PROVE  Within(i)'
    BY <1>3, <2>1, <2>2
  <2>3. \A i : i \in Int /\ i = dom'[0].bid - 1 => Within(i)'
    BY <1>6, <2>2
  <2> QED
    BY <1>6, <2>3 DEF Within
<1>9. dom'[0].bid <= MaxId + 1
  BY <1>6 DEF BodiesInv
<1> QED
  BY <1>3, <1>7, <1>8, <1>9 DEF BodiesInv, Running

(* The bodies change, the files do not.                                    *)
LEMMA BodiesMoved ==
  ASSUME BodiesInv, NEW names, Known(names), NEW names2,
         Whole(dom', names2, OnFile), Grown(names2, dom'[0].bid, names, dom[0].bid),
         dom'[0].bid <= MaxId + 1,
         UNCHANGED <<bodfile, log>>, pc \in Running, pc' \in Running
  PROVE  BodiesInv'
<1>1. dom[0].bid \in Nat /\ InitBodies \in Nat /\ dom[0].bid > InitBodies
  BY ZeroRank, OutputAssumption DEF Known, Whole, Agreed, Sound, Tracked, Kept
<1>2. dom'[0].bid \in Nat /\ dom[0].bid <= dom'[0].bid
  BY DEF Grown
<1>3. OnFile' = OnFile /\ Within(MaxId)' /\ Found'
  <2>1. OnFile' = OnFile
    BY DEF OnFile
  <2> QED
    BY <2>1 DEF BodiesInv, Within, Found, Running
<1>4. Within(dom[0].bid - 1)
  BY DEF BodiesInv
<1>5. Within(dom[0].bid - 1)'
  <2>1. \A i \in 1 .. (dom[0].bid - 1) : i \in 1 .. (dom'[0].bid - 1)
    BY <1>1, <1>2
  <2>2. \A i \in (InitBodies + 1) .. (dom[0].bid - 1) :
           i \in (InitBodies + 1) .. (dom'[0].bid - 1)
    BY <1>1, <1>2
  <2> QED
    BY <1>4, <2>1, <2>2 DEF Within
<1>6. Written(names2)'
  <2>1. \A b \in 1 .. (dom[0].bid - 1) : names2[b] = names[b]
    BY DEF Grown
  <2>2. \A b \in (InitBodies + 1) .. (dom[0].bid - 1) : b \in 1 .. (dom[0].bid - 1)
    BY <1>1
  <2>3. ASSUME NEW r \in Ranks
        PROVE  \A b \in DOMAIN bodfile[r] : bodfile[r][b] = names2[b]
    BY <1>4, <2>1, <2>2 DEF Known, Written, Within
  <2>4. ASSUME NEW r \in Ranks, NEW n \in 1 .. Len(log[r]), NEW b \in DOMAIN log[r][n].bod
        PROVE  log[r][n].bod[b] = names2[b]
    BY <1>4, <2>1 DEF Known, Written, Within
  <2> QED
    BY <2>3, <2>4 DEF Written
<1>7. \A b \in 1 .. InitBodies : names2[b] = <<0, b>>
  <2>1. \A b \in 1 .. InitBodies : b \in 1 .. (dom[0].bid - 1)
    BY <1>1
  <2> QED
    BY <2>1 DEF Known, Grown
<1>8. Known(names2)'
  BY <1>3, <1>6, <1>7 DEF Known, Grown
<1> QED
  BY <1>3, <1>5, <1>8 DEF BodiesInv, Running

(* The memory of the processes is gone, their domains are as they were at  *)
(* the start.                                                              *)
LEMMA GoneDomains ==
  ASSUME NEW names, Known(names), Gone
  PROVE  /\ \A f : f = OnFile' => Whole(dom', names, f)
         /\ dom'[0].bid = InitBodies + 1
         /\ 1 .. (dom'[0].bid - 1) \subseteq DOMAIN names
         /\ dom'[0].bid <= MaxId + 1
<1>1. InitBodies \in Nat /\ MaxId \in Nat /\ InitBodies <= MaxId
  BY OutputAssumption
<1>2. dom[0].bid > InitBodies /\ dom[0].bid \in Nat
  BY ZeroRank DEF Known, Whole, Agreed, Sound, Tracked, Kept
<1>3. \A b \in 1 .. InitBodies : names[b] = <<0, b>>
  BY DEF Known
<1>4. dom' = [r \in Ranks |-> InitDom(r)]
  BY DEF Gone
<1>5. \A f : Whole(dom', names, f) /\ dom'[0].bid = InitBodies + 1
  BY ONLY <1>3, <1>4, WholeInit
<1>6. 1 .. InitBodies \subseteq 1 .. (dom[0].bid - 1)
  BY <1>1, <1>2
<1>7. dom'[0].bid - 1 = InitBodies
  BY <1>1, <1>5
<1> QED
  BY <1>1, <1>5, <1>6, <1>7 DEF Known

LEMMA BodiesGone ==
  ASSUME BodiesInv, NEW W \in SUBSET Ranks, Noted(W), Gone,
         pc \in Running, pc' \notin Running, Refused' \/ W \in {{}, Ranks}
  PROVE  BodiesInv'
<1>1. PICK names : Known(names)
  BY DEF BodiesInv
<1>2. /\ \A r \in Ranks : IsList(log'[r])
      /\ Within(MaxId)' /\ Written(names)'
      /\ W \in {{}, Ranks} => Found'
  BY ONLY BodiesInv, <1>1, Noted(W), pc \in Running, W \in SUBSET Ranks, RecordingBodies
<1>3. /\ \A f : f = OnFile' => Whole(dom', names, f)
      /\ 1 .. (dom'[0].bid - 1) \subseteq DOMAIN names
      /\ dom'[0].bid <= MaxId + 1
  BY ONLY <1>1, Gone, GoneDomains
<1>4. Known(names)'
  BY <1>1, <1>2, <1>3 DEF Known
<1> QED
  BY <1>2, <1>3, <1>4 DEF BodiesInv

LEMMA BodiesLost ==
  ASSUME BodiesInv, Gone, UNCHANGED <<bodfile, log>>, pc' = "crashed",
         Refused => Refused'
  PROVE  BodiesInv'
<1>1. PICK names : Known(names)
  BY DEF BodiesInv
<1>2. /\ \A f : f = OnFile' => Whole(dom', names, f)
      /\ 1 .. (dom'[0].bid - 1) \subseteq DOMAIN names
      /\ dom'[0].bid <= MaxId + 1
  BY ONLY <1>1, Gone, GoneDomains
<1>3. Known(names)'
  BY <1>1, <1>2 DEF Known, Written
<1>4. Within(MaxId)' /\ \A r \in Ranks : IsList(log'[r])
  BY DEF BodiesInv, Within
<1>5. OnFile' = OnFile
  BY DEF OnFile
<1>6. Refused' \/ Found'
  BY <1>5 DEF BodiesInv, Found
<1> QED
  BY <1>2, <1>3, <1>4, <1>6 DEF BodiesInv, Running

LEMMA BodiesSame ==
  ASSUME BodiesInv, UNCHANGED <<dom, bodfile, log>>,
         pc' \in Running => pc \in Running, Refused => Refused'
  PROVE  BodiesInv'
<1>1. OnFile' = OnFile
  BY DEF OnFile
<1>2. \A names : Known(names) => Known(names)'
  BY <1>1 DEF Known, Written
<1>3. Within(MaxId)' /\ (Within(dom[0].bid - 1) => Within(dom[0].bid - 1)')
  BY DEF BodiesInv, Within
<1>4. Found => Found'
  BY <1>1 DEF Found
<1> QED
  BY <1>2, <1>3, <1>4 DEF BodiesInv

LEMMA BodiesInit == ResultsInit => BodiesInv
<1> SUFFICES ASSUME ResultsInit PROVE BodiesInv
  OBVIOUS
<1> DEFINE names == [b \in 1 .. InitBodies |-> <<0, b>>]
<1>1. /\ dom = [r \in Ranks |-> InitDom(r)] /\ bodfile = [r \in Ranks |-> NoBody]
      /\ log = [r \in Ranks |-> <<>>]
  BY DEF ResultsInit, Init
<1>2. InitBodies \in Nat /\ MaxId \in Nat /\ InitBodies <= MaxId
  BY OutputAssumption
<1>3. \A b \in 1 .. InitBodies : names[b] = <<0, b>>
  OBVIOUS
<1>4. DOMAIN names = 1 .. InitBodies
  OBVIOUS
<1> HIDE DEF names
<1>5. Whole(dom, names, OnFile) /\ dom[0].bid = InitBodies + 1
  BY ONLY <1>1, <1>3, WholeInit
<1>6. \A r \in Ranks : DOMAIN bodfile[r] = {} /\ Len(log[r]) = 0 /\ IsList(log[r])
  BY <1>1 DEF NoBody, IsList
<1>7. \A h \in Int : Within(h)
  BY <1>6 DEF Within
<1>8. Known(names)
  BY <1>2, <1>3, <1>4, <1>5, <1>6 DEF Known, Written
<1>9. Found
  BY <1>6 DEF Found
<1>10. dom[0].bid - 1 \in Int
  BY <1>2, <1>5
<1> QED
  BY <1>2, <1>5, <1>6, <1>7, <1>8, <1>9, <1>10 DEF BodiesInv

(* Which ranks write, in each action that does.                            *)
LEMMA RunBodies ==
  ASSUME BodiesInv, NEW duration, Run(duration)
  PROVE  BodiesInv'
<1>1. write_state(IF time = 0 THEN Ranks ELSE {}, Uniform, FALSE)
  BY DEF Run
<1>2. (IF time = 0 THEN Ranks ELSE {}) \in {{}, Ranks}
  OBVIOUS
<1>3. pc \in Running /\ pc' \in Running
  BY DEF Run, Running
<1> QED
  BY ONLY BodiesInv, <1>1, <1>2, <1>3, BodiesWritten

LEMMA OutputBodies ==
  ASSUME TimesInv, BodiesInv, Output
  PROVE  BodiesInv'
<1>1. PICK s : write_state(DueOutput, s, TRUE)
  BY DEF Output
<1>2. pc = "output" /\ pc \in Running /\ pc' \in Running
  BY DEF Output, Running
<1>3. DueOutput \in {{}, Ranks}
  BY <1>2, DueOutputSame
<1> QED
  BY ONLY BodiesInv, <1>1, <1>2, <1>3, BodiesWritten

LEMMA RecordLastBodies ==
  ASSUME TimesInv, BodiesInv, RecordLast
  PROVE  BodiesInv'
<1> DEFINE W == {r \in Ranks : ~sol[r].lastwrite}
<1>1. write_state(W, sol, FALSE)
  BY DEF RecordLast
<1>2. pc = "last" /\ pc \in Running /\ pc' \in Running
  BY DEF RecordLast, Running
<1>3. ASSUME NEW r \in Ranks, NEW q \in Ranks
      PROVE  r \in W <=> q \in W
  <2>1. /\ Times(r) = Times(q) /\ Reached(Times(r), sol[r]) /\ Reached(Times(q), sol[q])
        /\ Times(r) \in Seq(Nat)
    BY <1>2, TimesRunning
  <2>2. /\ IF sol[r].lastwrite THEN Times(r)[Len(Times(r))] = time
                               ELSE Times(r)[Len(Times(r))] < time
        /\ IF sol[q].lastwrite THEN Times(r)[Len(Times(r))] = time
                               ELSE Times(r)[Len(Times(r))] < time
        /\ Times(r)[Len(Times(r))] \in Nat /\ time \in Nat
    <3>1. Times(r) # <<>>
      BY <1>2, <2>1 DEF Reached
    <3>2. Times(r)[Len(Times(r))] \in Nat
      <4> HIDE DEF Times
      <4> QED
        BY <2>1, <3>1
    <3> QED
      BY <1>2, <2>1, <3>2 DEF Reached, TimesInv, ClockInv
  <2> QED
    BY <2>2
<1>4. W \in {{}, Ranks}
  <2>1. W \subseteq Ranks
    OBVIOUS
  <2> HIDE DEF W
  <2> QED
    BY <1>3, <2>1
<1> HIDE DEF W
<1> QED
  BY ONLY BodiesInv, <1>1, <1>2, <1>4, BodiesWritten

LEMMA DestroyBodies ==
  ASSUME TimesInv, BodiesInv, SOLFEC_Destroy
  PROVE  BodiesInv'
<1> DEFINE W == {r \in Ranks : ~sol[r].written}
<1>1. Noted(W) /\ Gone
  BY DEF SOLFEC_Destroy, Recording, Noted
<1>2. pc \in Running /\ pc' \notin Running
  BY DEF SOLFEC_Destroy, Running
<1>3. ASSUME NEW r \in Ranks, NEW q \in Ranks
      PROVE  r \in W <=> q \in W
  <2>1. Times(r) = Times(q) /\ Reached(Times(r), sol[r]) /\ Reached(Times(q), sol[q])
    BY <1>2, TimesRunning
  <2> QED
    BY <2>1 DEF Reached
<1>4. W \in {{}, Ranks} /\ W \in SUBSET Ranks
  <2>1. W \subseteq Ranks
    OBVIOUS
  <2> HIDE DEF W
  <2> QED
    BY <1>3, <2>1
<1> HIDE DEF W
<1> QED
  BY ONLY BodiesInv, <1>1, <1>2, <1>4, BodiesGone

LEMMA AbortBodies ==
  ASSUME Inv, BodiesInv, NEW S \in SUBSET Ranks, NEW lost \in [Ranks \ S -> Losses],
         SOLFEC_Abort(S, lost)
  PROVE  BodiesInv'
<1>1. Noted(S) /\ Gone
  BY DEF SOLFEC_Abort, Noted
<1>2. pc \in Running /\ pc' \notin Running
  BY DEF SOLFEC_Abort, Running
<1>3. Refused' \/ S \in {{}, Ranks}
  BY AbortRefused
<1> QED
  BY ONLY BodiesInv, S \in SUBSET Ranks, <1>1, <1>2, <1>3, BodiesGone

LEMMA StepBodies ==
  ASSUME BodiesInv, NEW b, NEW to \in Ranks, NEW gone, NEW cracked \in SUBSET Parents,
         NEW parts \in Nat, Step(b, to, gone, cracked, parts)
  PROVE  BodiesInv'
<1>1. PICK names : Known(names)
  BY DEF BodiesInv
<1>2. PICK names2 : /\ Whole(dom', names2, OnFile)
                    /\ Grown(names2, dom'[0].bid, names, dom[0].bid)
                    /\ dom'[0].bid <= MaxId + 1
  <2>1. Whole(dom, names, OnFile) /\ 1 .. (dom[0].bid - 1) \subseteq DOMAIN names
    BY <1>1 DEF Known
  <2> DEFINE onfile == OnFile
  <2> HIDE DEF onfile
  <2>2. Whole(dom, names, onfile)
    BY <2>1 DEF onfile
  <2>3. \E names2 : /\ Whole(dom', names2, onfile)
                    /\ Grown(names2, dom'[0].bid, names, dom[0].bid)
                    /\ dom'[0].bid <= MaxId + 1
    BY ONLY <2>1, <2>2, to \in Ranks, cracked \in SUBSET Parents, parts \in Nat,
            Step(b, to, gone, cracked, parts), WholeStep
  <2> QED
    BY <2>3 DEF onfile
<1>3. UNCHANGED <<bodfile, log>> /\ pc \in Running /\ pc' \in Running
  BY DEF Step, Running
<1> QED
  BY ONLY BodiesInv, <1>1, <1>2, <1>3, BodiesMoved

LEMMA CallbackBodies ==
  ASSUME TimesInv, BodiesInv, NEW S, NEW create \in BOOLEAN, NEW go,
         Callback(S, create, go)
  PROVE  BodiesInv'
<1>1. UNCHANGED <<bodfile, log>> /\ pc \in Running /\ pc' \in Running
      /\ DueCallback \in {{}, Ranks}
      /\ dom' = [r \in Ranks |-> IF r \in DueCallback THEN Changed(r, S, create) ELSE dom[r]]
  BY DEF Callback, Running
<1>2. PICK names : Known(names)
  BY DEF BodiesInv
<1>3. CASE DueCallback = {}
  <2>1. \A r \in Ranks : dom'[r] = dom[r]
    BY <1>1, <1>3
  <2>2. Whole(dom', names, OnFile)
    BY <1>2, <2>1 DEF Known, Whole, Agreed, Tracked
  <2>3. dom'[0].bid = dom[0].bid /\ dom'[0].bid <= MaxId + 1 /\ dom[0].bid \in Nat
    BY <1>2, <2>1, ZeroRank DEF BodiesInv, Known, Whole, Agreed, Sound
  <2>4. Grown(names, dom'[0].bid, names, dom[0].bid)
    BY <1>2, <2>3 DEF Grown, Known
  <2> QED
    BY ONLY BodiesInv, <1>1, <1>2, <2>2, <2>3, <2>4, BodiesMoved
<1>4. CASE DueCallback = Ranks
  <2>1. dom' = [r \in Ranks |-> Changed(r, S, create)]
    BY <1>1, <1>4
  <2>2. /\ create => \A r \in Ranks : dom[r].bid <= MaxId
        /\ dom[0].bid <= MaxId + 1
    BY DEF Callback, BodiesInv
  <2> DEFINE onfile == OnFile
  <2>3. Whole(dom, names, onfile) /\ 1 .. (dom[0].bid - 1) \subseteq DOMAIN names
    BY <1>2 DEF Known
  <2> HIDE DEF onfile
  <2>4. \E names2 : /\ Whole(dom', names2, onfile)
                    /\ Grown(names2, dom'[0].bid, names, dom[0].bid)
                    /\ dom'[0].bid <= MaxId + 1
    BY ONLY <2>1, <2>2, <2>3, create \in BOOLEAN, WholeChanged, ZenonT(30)
  <2>5. PICK names2 : /\ Whole(dom', names2, OnFile)
                      /\ Grown(names2, dom'[0].bid, names, dom[0].bid)
                      /\ dom'[0].bid <= MaxId + 1
    BY <2>4 DEF onfile
  <2> QED
    BY ONLY BodiesInv, <1>1, <1>2, <2>5, BodiesMoved
<1> QED
  BY <1>1, <1>3, <1>4

LEMMA BodiesNext == Inv /\ TimesInv /\ BodiesInv /\ [Next]_allvars => BodiesInv'
<1> SUFFICES ASSUME Inv, TimesInv, BodiesInv, [Next]_allvars PROVE BodiesInv'
  OBVIOUS
<1>0. file' = file => (Refused => Refused')
  BY RefusedStays
<1>1. CASE UNCHANGED vars
  BY <1>0, <1>1, BodiesSame DEF vars
<1>2. CASE Write
  <2>1. CASE \E interval \in [Ranks -> Intervals] : SOLFEC_Output(interval)
    BY <1>0, <2>1, BodiesSame DEF SOLFEC_Output
  <2>2. CASE \E S \in SUBSET Ranks, interval \in [Ranks -> Intervals] :
               SOLFEC_Set_Callback(S, interval)
    BY <1>0, <2>2, BodiesSame DEF SOLFEC_Set_Callback
  <2>3. CASE \E b \in Movers \cup {0}, to \in Ranks,
                gone, cracked \in SUBSET Parents, parts \in Parts :
                gone \cap cracked = {} /\ Step(b, to, gone, cracked, parts)
    <3>1. PICK b \in Movers \cup {0}, to \in Ranks, gone \in SUBSET Parents,
               cracked \in SUBSET Parents, parts \in Parts :
                 Step(b, to, gone, cracked, parts)
      BY <2>3
    <3>2. parts \in Nat
      BY ResultsAssumption
    <3> QED
      BY ONLY BodiesInv, <3>1, <3>2, StepBodies
  <2>4. CASE \E S \in SUBSET Parents, create, go \in BOOLEAN : Callback(S, create, go)
    BY <2>4, CallbackBodies
  <2>5. CASE \E r \in Ranks : Close(r)
    <3>1. Refused => Refused'
      BY <2>5, RefusedStays
    <3>2. UNCHANGED <<dom, bodfile, log>> /\ pc' \notin Running
      BY <2>5 DEF Close, Running
    <3> QED
      BY <3>1, <3>2, BodiesSame
  <2>6. CASE \E S \in SUBSET Ranks \ {{}} :
                \E lost \in [Ranks \ S -> Losses] : SOLFEC_Abort(S, lost)
    BY <2>6, AbortBodies
  <2>7. CASE \E lost \in [Ranks -> Losses] : Crash(lost)
    <3>1. Refused => Refused'
      BY <2>7, RefusedStays
    <3> QED
      BY <2>7, <3>1, BodiesLost DEF Crash
  <2> QED
    BY <1>2, <2>1, <2>2, <2>3, <2>4, <2>5, <2>6, <2>7, RunBodies, OutputBodies,
       RecordLastBodies, DestroyBodies DEF Write
<1>3. CASE Read
  <2>1. UNCHANGED vars
    BY <1>3 DEF Read, Open, SOLFEC_Seek_To, SOLFEC_Forward, SOLFEC_Backward,
                SOLFEC_Time_Skip, SOLFEC_History, Becomes, Stopped, allvars
  <2> QED
    BY <1>0, <2>1, BodiesSame DEF vars
<1> QED
  BY <1>1, <1>2, <1>3 DEF Next, allvars

-----------------------------------------------------------------------------
(* What is in a file: its frames hold what has been recorded.              *)

Names == {"IOVER", "DOM", "BODS", "TIMERS"}

MarkerType ==
  [time : 0 .. MaxTime, doff : Nat, end : {"open", "labels", "inf"},
   labels : Seq(Nat \X Nat)]

Data(f) == f.dat \o f.mem

(* Every label of a frame has a name.                                      *)
Typed(f) ==
  /\ HasFields(f)
  /\ f.dat \in Seq(Nat) /\ f.mem \in Seq(Nat)
  /\ f.time \in 0 .. MaxTime
  /\ f.lab \in Seq(Names)
  /\ f.idx \in Seq(MarkerType)
  /\ \A n \in 1 .. Len(f.idx) : \A i \in 1 .. Len(f.idx[n].labels) :
       f.idx[n].labels[i][1] \in 1 .. Len(f.lab)

(* The names and positions of the labels of the n-th frame.                *)
Entries(f, n) ==
  {<<f.lab[f.idx[n].labels[i][1]], f.idx[n].labels[i][2]>> :
     i \in 1 .. Len(f.idx[n].labels)}

EndOf(f, n) == IF n < Len(f.idx) THEN f.idx[n + 1].doff ELSE Len(Data(f))

(* The first k frames of f and g are the same.                             *)
SameFrames(f, g, k) ==
  \A n \in 1 .. k :
    /\ g.idx[n].time = f.idx[n].time /\ g.idx[n].doff = f.idx[n].doff
    /\ Entries(g, n) = Entries(f, n)

LEMMA TypedFile ==
  \A f : Typed(f) /\ (f.stage = "writing" \/ f.stage \in Finals) => f \in FileType
BY DEF Typed, FileType, HasFields, Names, MarkerType, Finals

LEMMA MarkerParts ==
  ASSUME NEW m
  PROVE  m \in MarkerType <=>
           /\ IsMarker(m) /\ m.time \in 0 .. MaxTime /\ m.doff \in Nat
           /\ m.end \in {"open", "labels", "inf"} /\ m.labels \in Seq(Nat \X Nat)
BY DEF MarkerType, IsMarker

LEMMA LabelsExcept ==
  ASSUME NEW q, IsMarker(q), NEW x
  PROVE  LET m == [q EXCEPT !.labels = Append(@, x)]
         IN  /\ IsMarker(m) /\ m.labels = Append(q.labels, x)
             /\ m.time = q.time /\ m.doff = q.doff /\ m.end = q.end
BY DEF IsMarker

LEMMA NewFileTyped == Typed(NewFile) /\ Data(NewFile) = <<>>
<1>1. /\ NewFile.dat = <<>> /\ NewFile.mem = <<>> /\ NewFile.idx = <<>>
      /\ NewFile.lab = <<>> /\ NewFile.time = 0 /\ HasFields(NewFile)
  BY DEF NewFile, HasFields
<1>2. 0 \in 0 .. MaxTime
  BY OutputAssumption
<1> QED
  BY <1>1, <1>2 DEF Typed, Data

LEMMA WriteFrameTyped ==
  ASSUME NEW f, Typed(f), Len(f.idx) = 0 => f.mem = <<>>,
         NEW g, g = write_frame(f)
  PROVE  /\ Typed(g) /\ g.mem = <<>> /\ g.dat = Data(f) /\ g.lab = f.lab
         /\ g.time = f.time /\ Len(g.idx) = Len(f.idx)
         /\ SameFrames(f, g, Len(f.idx))
<1>1. CASE f.idx = <<>>
  <2>1. g = f /\ Len(f.idx) = 0 /\ f.mem = <<>>
    BY <1>1 DEF write_frame
  <2>2. Data(f) = f.dat
    BY <2>1 DEF Data, Typed
  <2> QED
    BY <2>1, <2>2 DEF SameFrames
<1>2. CASE f.idx # <<>>
  <2> DEFINE k == Len(f.idx)
             m == [f.idx[k] EXCEPT !.end = "labels"]
             idx == [f.idx EXCEPT ![k] = m]
  <2>1. g = [f EXCEPT !.idx = idx, !.dat = f.dat \o f.mem, !.mem = <<>>]
    BY <1>2 DEF write_frame
  <2>2. /\ g.idx = idx /\ g.dat = Data(f) /\ g.mem = <<>> /\ g.lab = f.lab
        /\ g.time = f.time /\ HasFields(g)
    BY <2>1 DEF Typed, HasFields, Data
  <2>3. k \in Nat \ {0} /\ f.idx \in Seq(MarkerType)
    BY <1>2 DEF Typed
  <2>4. f.idx[k] \in MarkerType
    BY <2>3
  <2>5. /\ m \in MarkerType /\ m.time = f.idx[k].time /\ m.doff = f.idx[k].doff
        /\ m.labels = f.idx[k].labels
    BY <2>4 DEF MarkerType
  <2> HIDE DEF m
  <2>6. /\ idx \in Seq(MarkerType) /\ Len(idx) = k
        /\ \A n \in 1 .. k : idx[n] = IF n = k THEN m ELSE f.idx[n]
    BY <2>3, <2>5
  <2> HIDE DEF idx
  <2>7. \A n \in 1 .. k : /\ g.idx[n].time = f.idx[n].time
                          /\ g.idx[n].doff = f.idx[n].doff
                          /\ g.idx[n].labels = f.idx[n].labels
    BY <2>2, <2>5, <2>6
  <2>8. Data(f) \in Seq(Nat)
    BY DEF Data, Typed
  <2>9. Typed(g)
    <3>1. \A n \in 1 .. Len(g.idx) : \A i \in 1 .. Len(g.idx[n].labels) :
            g.idx[n].labels[i][1] \in 1 .. Len(g.lab)
      BY <2>2, <2>6, <2>7, SMTT(20) DEF Typed
    <3> QED
      BY <2>2, <2>6, <2>8, <3>1 DEF Typed
  <2> QED
    BY <2>2, <2>6, <2>7, <2>9 DEF SameFrames, Entries
<1> QED
  BY <1>1, <1>2

(* h is g with the marker m, which has no labels, at the end of its index. *)
Marked(h, g, m) ==
  /\ Typed(h) /\ h.mem = <<>> /\ h.dat = g.dat /\ h.lab = g.lab
  /\ h.time = g.time /\ Len(h.idx) = Len(g.idx) + 1
  /\ SameFrames(g, h, Len(g.idx))
  /\ h.idx[Len(g.idx) + 1] = m
  /\ Entries(h, Len(g.idx) + 1) = {}

LEMMA MarkerTyped ==
  ASSUME NEW g, Typed(g), g.mem = <<>>, NEW m \in MarkerType, m.labels = <<>>,
         m.doff = Len(g.dat),
         NEW h, h = [g EXCEPT !.idx = Append(g.idx, m)]
  PROVE  Marked(h, g, m)
<1> DEFINE k == Len(g.idx)
<1>1. /\ h.idx = Append(g.idx, m) /\ h.mem = <<>> /\ h.dat = g.dat /\ h.lab = g.lab
      /\ h.time = g.time /\ HasFields(h)
  BY DEF Typed, HasFields
<1>2. g.idx \in Seq(MarkerType) /\ k \in Nat
  BY DEF Typed
<1>3. /\ h.idx \in Seq(MarkerType) /\ Len(h.idx) = k + 1
      /\ \A n \in 1 .. k : h.idx[n] = g.idx[n]
      /\ h.idx[k + 1] = m
  BY <1>1, <1>2
<1>4. Len(m.labels) = 0
  OBVIOUS
<1>5. \A n \in 1 .. (k + 1) : n \in 1 .. k \/ n = k + 1
  BY <1>2
<1> HIDE DEF k
<1>6. Typed(h)
  <2>1. \A n \in 1 .. Len(h.idx) : \A i \in 1 .. Len(h.idx[n].labels) :
          h.idx[n].labels[i][1] \in 1 .. Len(h.lab)
    BY <1>1, <1>3, <1>4, <1>5 DEF Typed, k
  <2> QED
    BY <1>1, <1>3, <2>1 DEF Typed
<1>7. Entries(h, k + 1) = {}
  BY <1>3, <1>4 DEF Entries
<1>8. SameFrames(g, h, k)
  BY <1>1, <1>3 DEF SameFrames, Entries
<1> QED
  BY <1>1, <1>3, <1>6, <1>7, <1>8 DEF Marked, k

LEMMA NewFrame ==
  ASSUME NEW f, Typed(f), Len(f.idx) = 0 => f.mem = <<>>, NEW t \in 0 .. MaxTime,
         NEW h, h = PBF_Time(f, t)
  PROVE  /\ Typed(h) /\ h.mem = <<>> /\ h.dat = Data(f)
         /\ Len(h.idx) = Len(f.idx) + 1
         /\ SameFrames(f, h, Len(f.idx))
         /\ h.idx[Len(f.idx) + 1].time = t
         /\ h.idx[Len(f.idx) + 1].doff = Len(Data(f))
         /\ Entries(h, Len(f.idx) + 1) = {}
<1> DEFINE g == write_frame(f)
           m == Marker(t, Len(g.dat), "open")
           e == [g EXCEPT !.idx = Append(@, m)]
           k == Len(f.idx)
<1>1. /\ Typed(g) /\ g.mem = <<>> /\ g.dat = Data(f) /\ Len(g.idx) = k
      /\ SameFrames(f, g, k)
  BY WriteFrameTyped
<1>2. h = [e EXCEPT !.time = t]
  BY <1>1 DEF PBF_Time, Typed, HasFields
<1> HIDE DEF g
<1>3. /\ m \in MarkerType /\ m.labels = <<>> /\ m.doff = Len(g.dat) /\ m.time = t
  <2>1. Len(g.dat) \in Nat
    BY <1>1 DEF Typed
  <2> QED
    BY <2>1 DEF Marker, MarkerType
<1> HIDE DEF m
<1>4. e = [g EXCEPT !.idx = Append(g.idx, m)]
  OBVIOUS
<1> HIDE DEF e
<1>5. Marked(e, g, m)
  BY ONLY <1>1, <1>3, <1>4, MarkerTyped
<1>6. h.dat = e.dat /\ h.mem = e.mem /\ h.idx = e.idx /\ h.lab = e.lab /\ h.time = t
      /\ HasFields(h)
  BY <1>2, <1>5 DEF Marked, Typed, HasFields
<1>7. Typed(h)
  BY <1>5, <1>6 DEF Marked, Typed
<1>8. /\ \A n : Entries(h, n) = Entries(e, n)
      /\ \A n : h.idx[n] = e.idx[n]
  BY <1>6 DEF Entries
<1>9. SameFrames(f, h, k)
  BY <1>1, <1>5, <1>8 DEF Marked, SameFrames
<1> QED
  BY <1>1, <1>3, <1>5, <1>6, <1>7, <1>8, <1>9 DEF Marked

LEMMA LabelTyped ==
  ASSUME NEW f, Typed(f), Len(f.idx) # 0, NEW label \in Names,
         NEW h, h = PBF_Label(f, label)
  PROVE  /\ Typed(h) /\ h.mem = f.mem /\ h.dat = f.dat
         /\ Len(h.idx) = Len(f.idx)
         /\ SameFrames(f, h, Len(f.idx) - 1)
         /\ h.idx[Len(f.idx)].time = f.idx[Len(f.idx)].time
         /\ h.idx[Len(f.idx)].doff = f.idx[Len(f.idx)].doff
         /\ Entries(h, Len(f.idx)) =
              Entries(f, Len(f.idx)) \cup {<<label, Len(f.mem)>>}
<1> DEFINE k == Len(f.idx)
           lab == IF Contains(f.lab, label) THEN f.lab ELSE Append(f.lab, label)
           index == CHOOSE i \in DOMAIN lab : lab[i] = label
           x == <<index, Len(f.mem)>>
           old == f.idx[k].labels
           m == [f.idx[k] EXCEPT !.labels = Append(@, x)]
           idx == [f.idx EXCEPT ![k] = m]
<1>1. h = [f EXCEPT !.lab = lab, !.idx = idx]
  BY DEF PBF_Label, Typed, HasFields
<1>2. /\ k \in Nat \ {0} /\ f.idx \in Seq(MarkerType) /\ f.lab \in Seq(Names)
      /\ Len(f.mem) \in Nat
  BY DEF Typed
<1>3. /\ lab \in Seq(Names) /\ Len(lab) >= Len(f.lab)
      /\ \A i \in 1 .. Len(f.lab) : lab[i] = f.lab[i]
      /\ \E i \in DOMAIN lab : lab[i] = label
  <2>1. CASE Contains(f.lab, label)
    <3>1. \E i \in 1 .. Len(f.lab) : f.lab[i] = label
      BY <2>1 DEF Contains
    <3> QED
      BY <1>2, <2>1, <3>1
  <2>2. CASE ~Contains(f.lab, label)
    <3> DEFINE t == Append(f.lab, label)
    <3>1. /\ t \in Seq(Names) /\ Len(t) = Len(f.lab) + 1
          /\ \A i \in 1 .. Len(f.lab) : t[i] = f.lab[i]
          /\ t[Len(f.lab) + 1] = label
      BY <1>2
    <3>2. Len(f.lab) + 1 \in DOMAIN t
      BY <1>2, <3>1
    <3>3. lab = t
      BY <2>2
    <3> HIDE DEF t, lab
    <3> QED
      BY <1>2, <3>1, <3>2, <3>3
  <2> QED
    BY <2>1, <2>2
<1>4. index \in DOMAIN lab /\ lab[index] = label
  <2> HIDE DEF lab
  <2> QED
    BY <1>3
<1>5. index \in 1 .. Len(lab) /\ index \in Nat
  <2> HIDE DEF lab
  <2> QED
    BY <1>3, <1>4
<1> HIDE DEF lab
<1>6. lab[index] = label
  BY <1>4
<1> HIDE DEF index
<1>7. x \in Nat \X Nat /\ x[1] = index /\ x[2] = Len(f.mem)
  BY <1>2, <1>5
<1> HIDE DEF x
<1>8. f.idx[k] \in MarkerType
  BY <1>2
<1>9. old \in Seq(Nat \X Nat)
  BY <1>8 DEF MarkerType
<1>10. /\ Append(old, x) \in Seq(Nat \X Nat)
       /\ Len(Append(old, x)) = Len(old) + 1
       /\ \A i \in 1 .. Len(old) : Append(old, x)[i] = old[i]
       /\ Append(old, x)[Len(old) + 1] = x
       /\ Len(old) \in Nat
  <2> HIDE DEF old
  <2> QED
    BY <1>7, <1>9
<1>11. /\ m \in MarkerType /\ m.labels = Append(old, x)
       /\ m.time = f.idx[k].time /\ m.doff = f.idx[k].doff
  <2>1. IsMarker(f.idx[k]) /\ f.idx[k].time \in 0 .. MaxTime /\ f.idx[k].doff \in Nat
        /\ f.idx[k].end \in {"open", "labels", "inf"}
    BY <1>8, MarkerParts
  <2>2. m.labels = Append(old, x) /\ m.time = f.idx[k].time /\ m.doff = f.idx[k].doff
        /\ m.end = f.idx[k].end /\ IsMarker(m)
    BY <2>1, LabelsExcept
  <2> HIDE DEF m
  <2> QED
    BY <1>10, <2>1, <2>2, MarkerParts
<1> DEFINE new == m.labels
<1>12. /\ new = Append(old, x)
  BY <1>11
<1> HIDE DEF m
<1>13. /\ idx \in Seq(MarkerType) /\ Len(idx) = k
       /\ \A n \in 1 .. k : idx[n] = IF n = k THEN m ELSE f.idx[n]
  BY <1>2, <1>11
<1> HIDE DEF idx
<1>14. h.lab = lab /\ h.idx = idx /\ h.mem = f.mem /\ h.dat = f.dat /\ h.time = f.time
       /\ HasFields(h)
  BY <1>1 DEF Typed, HasFields
<1>15. /\ Len(new) = Len(old) + 1
       /\ \A i \in 1 .. Len(old) : new[i] = old[i]
       /\ new[Len(old) + 1] = x
       /\ \A i \in 1 .. (Len(old) + 1) : i \in 1 .. Len(old) \/ i = Len(old) + 1
       /\ \A i \in 1 .. Len(old) : i \in 1 .. (Len(old) + 1)
       /\ Len(old) + 1 \in 1 .. (Len(old) + 1)
  BY <1>10, <1>12
<1>16. \A n \in 1 .. k : \A i \in 1 .. Len(f.idx[n].labels) :
         f.idx[n].labels[i][1] \in 1 .. Len(f.lab)
  BY DEF Typed
<1>17. \A i \in 1 .. Len(f.lab) : i \in 1 .. Len(lab)
  BY <1>2, <1>3
<1>18. k \in 1 .. k
  BY <1>2
<1> HIDE DEF k
<1>19. ASSUME NEW n \in 1 .. k, n # k
       PROVE  h.idx[n] = f.idx[n] /\ Entries(h, n) = Entries(f, n)
  <2>1. h.idx[n] = f.idx[n]
    BY <1>13, <1>14, <1>19
  <2>2. \A i \in 1 .. Len(f.idx[n].labels) :
          h.lab[h.idx[n].labels[i][1]] = f.lab[f.idx[n].labels[i][1]]
    BY <1>3, <1>14, <1>16, <2>1
  <2> QED
    BY <2>1, <2>2 DEF Entries
<1>20. Entries(h, k) = Entries(f, k) \cup {<<label, Len(f.mem)>>}
  <2>1. h.idx[k].labels = new
    BY <1>13, <1>14, <1>18
  <2>2. \A i \in 1 .. Len(old) : h.lab[old[i][1]] = f.lab[old[i][1]]
    BY <1>3, <1>14, <1>16, <1>18
  <2>3. Entries(h, k) = {<<h.lab[new[i][1]], new[i][2]>> : i \in 1 .. (Len(old) + 1)}
    BY <1>15, <2>1 DEF Entries
  <2>4. Entries(f, k) = {<<f.lab[old[i][1]], old[i][2]>> : i \in 1 .. Len(old)}
    BY DEF Entries
  <2>5. <<h.lab[x[1]], x[2]>> = <<label, Len(f.mem)>>
    BY <1>6, <1>7, <1>14
  <2> HIDE DEF new, old
  <2>6. ASSUME NEW i \in 1 .. (Len(old) + 1)
        PROVE  <<h.lab[new[i][1]], new[i][2]>> \in
                 Entries(f, k) \cup {<<label, Len(f.mem)>>}
    <3>1. CASE i \in 1 .. Len(old)
      BY <1>15, <2>2, <2>4, <3>1
    <3>2. CASE i = Len(old) + 1
      BY <1>15, <2>5, <3>2
    <3> QED
      BY <1>15, <3>1, <3>2
  <2>7. ASSUME NEW i \in 1 .. Len(old)
        PROVE  <<f.lab[old[i][1]], old[i][2]>> \in Entries(h, k)
    BY <1>15, <2>2, <2>3
  <2>8. <<label, Len(f.mem)>> \in Entries(h, k)
    BY <1>15, <2>3, <2>5
  <2>9. \A e \in Entries(h, k) : e \in Entries(f, k) \cup {<<label, Len(f.mem)>>}
    BY <2>3, <2>6
  <2>10. \A e \in Entries(f, k) : e \in Entries(h, k)
    BY <2>4, <2>7
  <2> DEFINE A == Entries(h, k)
             B == Entries(f, k)
             y == <<label, Len(f.mem)>>
  <2>11. (\A e \in A : e \in B \cup {y}) /\ (\A e \in B : e \in A) /\ y \in A
    BY <2>8, <2>9, <2>10
  <2> HIDE DEF A, B, y
  <2>12. A = B \cup {y}
    BY <2>11
  <2> QED
    BY <2>12 DEF A, B, y
<1>21. Typed(h)
  <2>1. ASSUME NEW n \in 1 .. Len(h.idx), NEW i \in 1 .. Len(h.idx[n].labels)
        PROVE  h.idx[n].labels[i][1] \in 1 .. Len(h.lab)
    <3>1. CASE n # k
      BY <1>13, <1>14, <1>16, <1>17, <1>19, <2>1, <3>1
    <3>2. CASE n = k
      <4>1. h.idx[n].labels = new /\ h.lab = lab
        BY <1>13, <1>14, <1>18, <3>2
      <4>2. CASE i \in 1 .. Len(old)
        BY <1>15, <1>16, <1>17, <1>18, <4>1, <4>2
      <4>3. CASE i = Len(old) + 1
        BY <1>5, <1>7, <1>15, <4>1, <4>3
      <4>4. i \in 1 .. Len(old) \/ i = Len(old) + 1
        BY <1>15, <2>1, <4>1
      <4> QED
        BY <4>2, <4>3, <4>4
    <3> QED
      BY <3>1, <3>2
  <2> QED
    BY <1>3, <1>13, <1>14, <2>1 DEF Typed
<1>22. SameFrames(f, h, k - 1)
  <2>1. \A n \in 1 .. (k - 1) : n \in 1 .. k /\ n # k
    BY <1>2 DEF k
  <2> QED
    BY <1>19, <2>1 DEF SameFrames
<1>23. h.idx[k].time = f.idx[k].time /\ h.idx[k].doff = f.idx[k].doff
  BY <1>11, <1>13, <1>14, <1>18
<1> QED
  BY <1>13, <1>14, <1>20, <1>21, <1>22, <1>23 DEF k

LEMMA PutTyped ==
  ASSUME NEW f, Typed(f), NEW values \in Seq(Nat), NEW h, h = PBF_Put(f, values)
  PROVE  /\ Typed(h) /\ h.mem = f.mem \o values /\ h.dat = f.dat
         /\ h.idx = f.idx /\ h.lab = f.lab
         /\ \A n : Entries(h, n) = Entries(f, n)
<1>1. /\ h.mem = f.mem \o values /\ h.dat = f.dat /\ h.idx = f.idx /\ h.lab = f.lab
      /\ h.time = f.time /\ HasFields(h)
  BY DEF PBF_Put, Typed, HasFields
<1>2. f.mem \o values \in Seq(Nat)
  BY DEF Typed
<1> QED
  BY <1>1, <1>2 DEF Typed, Entries

(* The ids of the first n bodies of bod, each with a time t.               *)
Paired(s, bod, t, n) ==
  /\ s \in Seq(Nat) /\ Len(s) = 2 * n
  /\ \A k \in 1 .. n : s[2 * k - 1] = bod[k] /\ s[2 * k] = t

LEMMA PairAdded ==
  ASSUME NEW n \in Nat, NEW bod, NEW t \in Nat, bod[n + 1] \in Nat,
         NEW s, Paired(s, bod, t, n)
  PROVE  Paired(s \o <<bod[n + 1], t>>, bod, t, n + 1)
<1> DEFINE x == bod[n + 1]
           u == s \o <<x, t>>
<1>1. s \in Seq(Nat) /\ Len(s) = 2 * n /\ x \in Nat
  BY DEF Paired
<1>2. /\ u \in Seq(Nat) /\ Len(u) = 2 * n + 2
      /\ \A i \in 1 .. (2 * n) : u[i] = s[i]
      /\ u[2 * n + 1] = x /\ u[2 * n + 2] = t
  <2> HIDE DEF x
  <2> QED
    BY <1>1
<1> HIDE DEF u
<1>3. ASSUME NEW k \in 1 .. (n + 1)
      PROVE  u[2 * k - 1] = bod[k] /\ u[2 * k] = t
  <2>1. CASE k = n + 1
    <3>1. 2 * k - 1 = 2 * n + 1 /\ 2 * k = 2 * n + 2
      BY <2>1
    <3> QED
      BY <1>2, <2>1, <3>1
  <2>2. CASE k # n + 1
    <3>1. k \in 1 .. n /\ 2 * k - 1 \in 1 .. (2 * n) /\ 2 * k \in 1 .. (2 * n)
      BY <2>2
    <3> QED
      BY <1>2, <3>1 DEF Paired
  <2> QED
    BY <2>1, <2>2
<1>4. 2 * (n + 1) = 2 * n + 2
  OBVIOUS
<1>5. Paired(u, bod, t, n + 1)
  BY <1>2, <1>3, <1>4 DEF Paired
<1> QED
  BY <1>5 DEF u

LEMMA FlattenPairs ==
  ASSUME NEW bod \in Seq(Nat), NEW t \in Nat
  PROVE  Paired(FlattenSeq([i \in DOMAIN bod |-> <<bod[i], t>>]), bod, t, Len(bod))
<1> DEFINE seqs == [i \in DOMAIN bod |-> <<bod[i], t>>]
           N == Len(bod)
<1>1. N \in Nat /\ DOMAIN bod = 1 .. N /\ \A i \in 1 .. N : bod[i] \in Nat
  OBVIOUS
<1>2. seqs = [i \in 1 .. N |-> <<bod[i], t>>]
  BY <1>1
<1>3. /\ seqs \in Seq(Seq(Nat)) /\ Len(seqs) = N
      /\ \A i \in 1 .. N : seqs[i] = <<bod[i], t>>
  BY <1>1, <1>2
<1> HIDE DEF seqs, N
<1>4. CASE N = 0
  <2>1. seqs = <<>>
    BY <1>3, <1>4
  <2>2. FlattenSeq(seqs) = <<>>
    BY <1>3, <1>4, <2>1 DEF FlattenSeq
  <2>3. Paired(<<>>, bod, t, 0)
    BY DEF Paired
  <2> QED
    BY <1>4, <2>2, <2>3 DEF seqs, N
<1>5. CASE N # 0
  <2>1. PICK f : FlattenSteps(f, seqs) /\ FlattenSeq(seqs) = f[Len(seqs)]
    BY <1>3, <1>5, FlattenRecursion
  <2> DEFINE G == {n \in Nat : n \in 1 .. N => Paired(f[n], bod, t, n)}
  <2>2. 0 \in G
    BY <1>1
  <2>3. ASSUME NEW n \in Nat, n \in G
        PROVE  n + 1 \in G
    <3> SUFFICES ASSUME n + 1 \in 1 .. N PROVE Paired(f[n + 1], bod, t, n + 1)
      OBVIOUS
    <3>1. f[n + 1] = IF n = 0 THEN <<bod[n + 1], t>> ELSE f[n] \o <<bod[n + 1], t>>
      <4>1. seqs[n + 1] = <<bod[n + 1], t>> /\ n + 1 \in 1 .. Len(seqs)
        BY <1>3
      <4>2. f[n + 1] = IF n + 1 = 1 THEN seqs[n + 1] ELSE f[(n + 1) - 1] \o seqs[n + 1]
        BY <2>1, <4>1 DEF FlattenSteps
      <4>3. (n + 1) - 1 = n /\ (n + 1 = 1 <=> n = 0)
        OBVIOUS
      <4> QED
        BY <4>1, <4>2, <4>3
    <3>2. bod[n + 1] \in Nat
      BY <1>1
    <3>3. CASE n = 0
      <4> DEFINE y == bod[1]
      <4>1. f[n + 1] = <<y, t>> /\ y \in Nat
        BY <3>1, <3>2, <3>3
      <4>2. \A k \in 1 .. 1 : 2 * k - 1 = 1 /\ 2 * k = 2 /\ k = 1
        OBVIOUS
      <4>3. <<y, t>> \in Seq(Nat) /\ Len(<<y, t>>) = 2
        BY <4>1
      <4>4. <<y, t>>[1] = y /\ <<y, t>>[2] = t
        OBVIOUS
      <4>5. \A k \in 1 .. 1 : <<y, t>>[2 * k - 1] = bod[k] /\ <<y, t>>[2 * k] = t
        BY <4>2, <4>4
      <4> HIDE DEF y
      <4> QED
        BY <3>3, <4>1, <4>3, <4>5 DEF Paired
    <3>4. CASE n # 0
      <4>1. Paired(f[n], bod, t, n)
        BY <1>1, <2>3, <3>4
      <4>2. Paired(f[n] \o <<bod[n + 1], t>>, bod, t, n + 1)
        BY <3>2, <4>1, PairAdded
      <4> QED
        BY <3>1, <3>4, <4>2
    <3> QED
      BY <3>3, <3>4
  <2> HIDE DEF G
  <2>4. N \in G
    BY <1>1, <2>2, <2>3, SetInduction
  <2>5. Paired(f[N], bod, t, N)
    BY <1>1, <1>5, <2>4 DEF G
  <2> QED
    BY <1>3, <2>1, <2>5 DEF seqs, N
<1> QED
  BY <1>4, <1>5

(* The bodies of the state e, written at position p of the data of f.      *)
BodiesAt(f, p, last, e) ==
  \E bod \in Seq(Nat) :
    /\ Range(bod) = DOMAIN e.bod
    /\ p + 1 + 2 * Len(bod) <= last
    /\ Data(f)[p + 1] = Len(bod)
    /\ \A k \in 1 .. Len(bod) : /\ Data(f)[p + 2 * k] = bod[k]
                                /\ Data(f)[p + 2 * k + 1] = e.time

(* The n-th frame of f holds the state e.                                  *)
Holds(f, n, e) ==
  /\ f.idx[n].time = e.time
  /\ \A name \in {"DOM", "BODS", "TIMERS"} : \E p \in Nat : <<name, p>> \in Entries(f, n)
  /\ n = 1 => \E p \in Nat : <<"IOVER", p>> \in Entries(f, n)
  /\ EndOf(f, n) \in Nat /\ EndOf(f, n) <= Len(Data(f))
  /\ \A p \in Nat : <<"BODS", p>> \in Entries(f, n) =>
       BodiesAt(f, f.idx[n].doff + p, EndOf(f, n), e)

(* It still does in h, which has the same data up to the end of the frame. *)
LEMMA HoldsMoved ==
  ASSUME NEW f, NEW h, NEW n, NEW e, Holds(f, n, e), f.idx[n].doff \in Nat,
         h.idx[n].time = f.idx[n].time, h.idx[n].doff = f.idx[n].doff,
         Entries(h, n) = Entries(f, n), EndOf(h, n) = EndOf(f, n),
         EndOf(f, n) <= Len(Data(h)),
         \A i \in 1 .. EndOf(f, n) : Data(h)[i] = Data(f)[i]
  PROVE  Holds(h, n, e)
<1> DEFINE D == Data(f)
           H == Data(h)
           last == EndOf(f, n)
<1>1. last \in Nat /\ last <= Len(H) /\ \A i \in 1 .. last : H[i] = D[i]
  BY DEF Holds
<1>2. ASSUME NEW p \in Nat, <<"BODS", p>> \in Entries(h, n)
      PROVE  BodiesAt(h, h.idx[n].doff + p, EndOf(h, n), e)
  <2> DEFINE at == f.idx[n].doff + p
  <2>1. BodiesAt(f, at, last, e)
    BY <1>2 DEF Holds
  <2>2. at \in Nat
    OBVIOUS
  <2> HIDE DEF at, last, D, H
  <2>3. PICK bod \in Seq(Nat) :
               /\ Range(bod) = DOMAIN e.bod
               /\ at + 1 + 2 * Len(bod) <= last
               /\ D[at + 1] = Len(bod)
               /\ \A k \in 1 .. Len(bod) : /\ D[at + 2 * k] = bod[k]
                                           /\ D[at + 2 * k + 1] = e.time
    BY <2>1 DEF BodiesAt, D
  <2>4. Len(bod) \in Nat
    OBVIOUS
  <2>5. at + 1 \in 1 .. last
    BY <1>1, <2>2, <2>3, <2>4
  <2>6. ASSUME NEW k \in 1 .. Len(bod)
        PROVE  at + 2 * k \in 1 .. last /\ at + 2 * k + 1 \in 1 .. last
    BY <1>1, <2>2, <2>3, <2>4
  <2>7. BodiesAt(h, at, last, e)
    BY <1>1, <2>3, <2>5, <2>6 DEF BodiesAt, H
  <2> QED
    BY <2>7 DEF at, last
<1> QED
  BY <1>1, <1>2 DEF Holds

LEMMA HoldsKept ==
  ASSUME NEW f, NEW h, Typed(f), Typed(h), SameFrames(f, h, Len(f.idx)),
         Len(h.idx) = Len(f.idx) + 1, h.idx[Len(f.idx) + 1].doff = Len(Data(f)),
         h.dat = Data(f), NEW n \in 1 .. Len(f.idx), NEW e, Holds(f, n, e)
  PROVE  Holds(h, n, e)
<1> DEFINE D == Data(f)
           M == h.mem
<1>1. D \in Seq(Nat) /\ M \in Seq(Nat) /\ Len(f.idx) \in Nat
  BY DEF Data, Typed
<1>2. Data(h) = D \o M
  BY DEF Data
<1> HIDE DEF D, M
<1>3. /\ Len(D) \in Nat /\ Len(D \o M) \in Nat /\ Len(D) <= Len(D \o M)
      /\ \A i \in 1 .. Len(D) : (D \o M)[i] = D[i]
  BY <1>1
<1>4. EndOf(h, n) = EndOf(f, n)
  <2>1. EndOf(h, n) = h.idx[n + 1].doff
    BY <1>1 DEF EndOf
  <2>2. CASE n = Len(f.idx)
    BY <2>1, <2>2 DEF EndOf
  <2>3. CASE n < Len(f.idx)
    <3>1. n + 1 \in 1 .. Len(f.idx)
      BY <1>1, <2>3
    <3> QED
      BY <2>1, <2>3, <3>1 DEF EndOf, SameFrames
  <2> QED
    BY <1>1, <2>2, <2>3
<1>5. /\ h.idx[n].time = f.idx[n].time /\ h.idx[n].doff = f.idx[n].doff
      /\ Entries(h, n) = Entries(f, n)
  BY DEF SameFrames
<1>6. f.idx[n].doff \in Nat
  <2>1. f.idx[n] \in MarkerType
    BY DEF Typed
  <2> QED
    BY <2>1, MarkerParts
<1>7. EndOf(f, n) \in Nat /\ EndOf(f, n) <= Len(D)
  BY DEF Holds, D
<1>8. /\ EndOf(f, n) <= Len(Data(h))
      /\ \A i \in 1 .. EndOf(f, n) : Data(h)[i] = Data(f)[i]
  BY <1>2, <1>3, <1>7 DEF D
<1> QED
  BY <1>4, <1>5, <1>6, <1>8, HoldsMoved

(* g is f with a new frame of the time t: its data so far are M, and E are *)
(* the names and positions of its labels.                                  *)
InFrame(g, f, t, M, E) ==
  /\ Typed(g) /\ g.mem = M /\ g.dat = Data(f)
  /\ Len(g.idx) = Len(f.idx) + 1
  /\ SameFrames(f, g, Len(f.idx))
  /\ g.idx[Len(f.idx) + 1].time = t
  /\ g.idx[Len(f.idx) + 1].doff = Len(Data(f))
  /\ Entries(g, Len(f.idx) + 1) = E

LEMMA FrameBegun ==
  ASSUME NEW f, Typed(f), Len(f.idx) = 0 => f.mem = <<>>, NEW t \in 0 .. MaxTime
  PROVE  InFrame(PBF_Time(f, t), f, t, <<>>, {})
BY NewFrame DEF InFrame

LEMMA FrameLabelled ==
  ASSUME NEW f, NEW g, NEW t, NEW M, NEW E, InFrame(g, f, t, M, E), Typed(f),
         NEW label \in Names
  PROVE  InFrame(PBF_Label(g, label), f, t, M, E \cup {<<label, Len(M)>>})
<1> DEFINE h == PBF_Label(g, label)
           k == Len(f.idx)
<1>1. k \in Nat /\ Typed(g) /\ Len(g.idx) = k + 1 /\ Len(g.idx) # 0
  BY DEF InFrame, Typed
<1>2. /\ Typed(h) /\ h.mem = g.mem /\ h.dat = g.dat
      /\ Len(h.idx) = Len(g.idx)
      /\ SameFrames(g, h, Len(g.idx) - 1)
      /\ h.idx[Len(g.idx)].time = g.idx[Len(g.idx)].time
      /\ h.idx[Len(g.idx)].doff = g.idx[Len(g.idx)].doff
      /\ Entries(h, Len(g.idx)) = Entries(g, Len(g.idx)) \cup {<<label, Len(g.mem)>>}
  BY <1>1, LabelTyped
<1> HIDE DEF h
<1>3. Len(g.idx) - 1 = k
  BY <1>1
<1>4. SameFrames(f, h, k)
  BY <1>2, <1>3 DEF InFrame, SameFrames
<1>5. InFrame(h, f, t, M, E \cup {<<label, Len(M)>>})
  BY <1>1, <1>2, <1>4 DEF InFrame
<1> QED
  BY <1>5 DEF h

LEMMA FramePut ==
  ASSUME NEW f, NEW g, NEW t, NEW M, NEW E, InFrame(g, f, t, M, E),
         NEW values \in Seq(Nat)
  PROVE  InFrame(PBF_Put(g, values), f, t, M \o values, E)
<1> DEFINE h == PBF_Put(g, values)
<1>1. /\ Typed(h) /\ h.mem = g.mem \o values /\ h.dat = g.dat
      /\ h.idx = g.idx /\ \A n : Entries(h, n) = Entries(g, n)
  BY PutTyped DEF InFrame
<1> HIDE DEF h
<1>2. InFrame(h, f, t, M \o values, E)
  BY <1>1 DEF InFrame, SameFrames
<1> QED
  BY <1>2 DEF h

(* What write_state makes of a file; iover is what precedes the bodies.    *)
LEMMA FrameMade ==
  ASSUME NEW f, Typed(f), Len(f.idx) = 0 => f.mem = <<>>, time \in 0 .. MaxTime,
         NEW s, NEW d, d.bod \in Seq(Nat)
  PROVE  \E iover \in Seq(Nat), p \in Nat : \E E, flat :
           /\ Paired(flat, d.bod, time, Len(d.bod))
           /\ InFrame(frame(f, s, d), f, time,
                      (iover \o (<<Len(d.bod)>> \o flat)) \o <<0>>,
                      ((E \cup {<<"DOM", Len(iover)>>}) \cup {<<"BODS", Len(iover)>>})
                        \cup {<<"TIMERS", p>>})
           /\ \A e \in E : e[1] = "IOVER"
           /\ ~s.written => <<"IOVER", 0>> \in E
<1> DEFINE t == PBF_Time(f, time)
           v == IF s.written THEN t ELSE PBF_Put(PBF_Label(t, "IOVER"), <<1>>)
           iover == IF s.written THEN <<>> ELSE <<1>>
           E == IF s.written THEN {} ELSE {<<"IOVER", 0>>}
           flat == FlattenSeq([i \in DOMAIN d.bod |-> <<d.bod[i], time>>])
           bods == <<Len(d.bod)>> \o flat
           x == PBF_Label(v, "DOM")
           y == PBF_Label(x, "BODS")
           w == PBF_Put(y, bods)
           z == PBF_Label(w, "TIMERS")
           E1 == E \cup {<<"DOM", Len(iover)>>}
           E2 == E1 \cup {<<"BODS", Len(iover)>>}
           p == Len(iover \o bods)
<1>1. time \in Nat /\ {"IOVER", "DOM", "BODS", "TIMERS"} = Names
  BY OutputAssumption DEF Names
<1>2. Paired(flat, d.bod, time, Len(d.bod))
  BY <1>1, FlattenPairs
<1>3. bods \in Seq(Nat)
  <2>1. Len(d.bod) \in Nat /\ flat \in Seq(Nat)
    BY <1>2 DEF Paired
  <2> HIDE DEF flat
  <2> QED
    BY <2>1
<1>4. iover \in Seq(Nat)
  OBVIOUS
<1>5. frame(f, s, d) = PBF_Put(z, <<0>>)
  BY DEF frame, dom_write_state
<1>6. InFrame(t, f, time, <<>>, {})
  BY FrameBegun
<1> HIDE DEF t
<1>7. InFrame(v, f, time, iover, E)
  <2>1. CASE s.written
    BY <1>6, <2>1
  <2>2. CASE ~s.written
    <3>1. InFrame(PBF_Label(t, "IOVER"), f, time, <<>>, {} \cup {<<"IOVER", Len(<<>>)>>})
      BY ONLY <1>1, <1>6, Typed(f), FrameLabelled
    <3>2. {} \cup {<<"IOVER", Len(<<>>)>>} = {<<"IOVER", 0>>}
      OBVIOUS
    <3>3. <<1>> \in Seq(Nat) /\ <<>> \o <<1>> = <<1>>
      OBVIOUS
    <3>4. InFrame(PBF_Label(t, "IOVER"), f, time, <<>>, {<<"IOVER", 0>>})
      BY <3>1, <3>2
    <3>5. InFrame(PBF_Put(PBF_Label(t, "IOVER"), <<1>>), f, time, <<>> \o <<1>>,
                  {<<"IOVER", 0>>})
      BY <3>3, <3>4, FramePut
    <3> QED
      BY <2>2, <3>3, <3>5
  <2> QED
    BY <2>1, <2>2
<1>8. (\A e \in E : e[1] = "IOVER") /\ (~s.written => <<"IOVER", 0>> \in E)
  OBVIOUS
<1> HIDE DEF v, iover, E
<1>9. InFrame(x, f, time, iover, E1)
  BY <1>1, <1>7, FrameLabelled
<1> HIDE DEF x, E1
<1>10. InFrame(y, f, time, iover, E2)
  BY <1>1, <1>9, FrameLabelled
<1> HIDE DEF y, E2, bods
<1>11. InFrame(w, f, time, iover \o bods, E2)
  BY <1>3, <1>10, FramePut
<1> HIDE DEF w
<1>12. InFrame(z, f, time, iover \o bods, E2 \cup {<<"TIMERS", p>>})
  BY <1>1, <1>11, FrameLabelled
<1> HIDE DEF z
<1>13. InFrame(PBF_Put(z, <<0>>), f, time, (iover \o bods) \o <<0>>,
               E2 \cup {<<"TIMERS", p>>})
  <2>1. <<0>> \in Seq(Nat)
    OBVIOUS
  <2> QED
    BY <1>12, <2>1, FramePut
<1>14. p \in Nat
  BY <1>3, <1>4
<1> HIDE DEF p, flat
<1>15. InFrame(frame(f, s, d), f, time,
               (iover \o (<<Len(d.bod)>> \o flat)) \o <<0>>,
               ((E \cup {<<"DOM", Len(iover)>>}) \cup {<<"BODS", Len(iover)>>})
                 \cup {<<"TIMERS", p>>})
  BY <1>5, <1>13 DEF E2, E1, bods
<1> QED
  BY <1>2, <1>4, <1>8, <1>14, <1>15

(* u is s with t after it.                                                 *)
Joined(u, s, t) ==
  /\ Len(u) = Len(s) + Len(t)
  /\ \A j \in 1 .. Len(s) : u[j] = s[j]
  /\ \A j \in 1 .. Len(t) : u[Len(s) + j] = t[j]

LEMMA ConcatAt ==
  ASSUME NEW T, NEW s \in Seq(T), NEW t \in Seq(T)
  PROVE  s \o t \in Seq(T) /\ Joined(s \o t, s, t)
<1>1. /\ s \o t \in Seq(T) /\ Len(s \o t) = Len(s) + Len(t)
      /\ Len(s) \in Nat /\ Len(t) \in Nat
      /\ \A j \in 1 .. Len(s) : (s \o t)[j] = s[j]
  OBVIOUS
<1>2. ASSUME NEW j \in 1 .. Len(t)
      PROVE  (s \o t)[Len(s) + j] = t[j]
  <2>1. Len(s) + j \in 1 .. (Len(s) + Len(t)) /\ Len(s) + j > Len(s)
        /\ (Len(s) + j) - Len(s) = j
    BY <1>1
  <2> QED
    BY <1>1, <2>1
<1> QED
  BY <1>1, <1>2 DEF Joined

(* c and F are in D after A and I, and something comes after them.         *)
Contained(D, A, I, c, F) ==
  /\ Len(D) = Len(A) + Len(I) + Len(F) + 2
  /\ D[Len(A) + Len(I) + 1] = c
  /\ \A j \in 1 .. Len(F) : D[Len(A) + Len(I) + 1 + j] = F[j]

LEMMA Inside ==
  ASSUME NEW A \in Seq(Nat), NEW I \in Seq(Nat), NEW c \in Nat, NEW F \in Seq(Nat),
         NEW D, D = A \o ((I \o (<<c>> \o F)) \o << 0 >>)
  PROVE  Contained(D, A, I, c, F)
<1> DEFINE C == <<c>> \o F
           B == I \o C
           M == B \o <<0>>
           a == Len(A)
           i == Len(I)
           n == Len(F)
<1>0. a \in Nat /\ i \in Nat /\ n \in Nat
  OBVIOUS
<1>1. /\ C \in Seq(Nat) /\ Len(C) = n + 1 /\ C[1] = c
      /\ \A j \in 1 .. n : C[j + 1] = F[j]
  <2>1. <<c>> \in Seq(Nat) /\ Len(<<c>>) = 1 /\ <<c>>[1] = c
    OBVIOUS
  <2> DEFINE one == <<c>>
  <2> HIDE DEF one
  <2>2. /\ one \o F \in Seq(Nat) /\ Len(one \o F) = n + 1 /\ (one \o F)[1] = c
        /\ \A j \in 1 .. n : (one \o F)[j + 1] = F[j]
    BY <2>1 DEF one
  <2> QED
    BY <2>2 DEF one
<1> HIDE DEF C
<1>2. /\ B \in Seq(Nat) /\ Len(B) = i + n + 1 /\ B[i + 1] = c
      /\ \A j \in 1 .. n : B[i + 1 + j] = F[j]
  <2>1. /\ B \in Seq(Nat) /\ Len(B) = i + (n + 1)
        /\ \A j \in 1 .. (n + 1) : B[i + j] = C[j]
    <3>1. B \in Seq(Nat) /\ Joined(B, I, C)
      BY ONLY <1>1, I \in Seq(Nat), ConcatAt
    <3> HIDE DEF B
    <3> QED
      BY <1>0, <1>1, <3>1 DEF Joined
  <2> HIDE DEF B, a, i, n
  <2>2. B[i + 1] = c
    BY <1>0, <1>1, <2>1
  <2>3. ASSUME NEW j \in 1 .. n
        PROVE  B[i + 1 + j] = F[j]
    <3>1. j + 1 \in 1 .. (n + 1) /\ i + (j + 1) = i + 1 + j
      BY <1>0
    <3> QED
      BY <1>1, <2>1, <3>1
  <2> QED
    BY <1>0, <2>1, <2>2, <2>3
<1> HIDE DEF B
<1>3. /\ M \in Seq(Nat) /\ Len(M) = i + n + 2 /\ M[i + 1] = c
      /\ \A j \in 1 .. n : M[i + 1 + j] = F[j]
  <2>1. /\ M \in Seq(Nat) /\ Len(M) = (i + n + 1) + 1
        /\ \A j \in 1 .. (i + n + 1) : M[j] = B[j]
    BY <1>2
  <2> HIDE DEF M, a, i, n
  <2>2. i + 1 \in 1 .. (i + n + 1) /\ \A j \in 1 .. n : i + 1 + j \in 1 .. (i + n + 1)
    BY <1>0
  <2> QED
    BY <1>0, <1>2, <2>1, <2>2
<1> HIDE DEF M
<1>4. D = A \o M
  BY DEF M, B, C
<1>5. /\ Len(D) = a + (i + n + 2)
      /\ \A j \in 1 .. (i + n + 2) : D[a + j] = M[j]
  <2>1. Joined(D, A, M)
    BY ONLY <1>3, <1>4, A \in Seq(Nat), ConcatAt
  <2> QED
    BY <1>3, <2>1 DEF Joined
<1> HIDE DEF a, i, n
<1>6. D[a + i + 1] = c
  <2>1. i + 1 \in 1 .. (i + n + 2) /\ a + (i + 1) = a + i + 1
    BY <1>0
  <2> QED
    BY <1>3, <1>5, <2>1
<1>7. ASSUME NEW j \in 1 .. n
      PROVE  D[a + i + 1 + j] = F[j]
  <2>1. i + 1 + j \in 1 .. (i + n + 2) /\ a + (i + 1 + j) = a + i + 1 + j
    BY <1>0
  <2> QED
    BY <1>3, <1>5, <2>1
<1>8. Len(D) = a + i + n + 2
  BY <1>0, <1>5
<1> QED
  BY <1>6, <1>7, <1>8 DEF Contained, a, i, n

LEMMA HoldsNew ==
  ASSUME NEW f, Typed(f), Len(f.idx) = 0 => f.mem = <<>>, time \in 0 .. MaxTime,
         NEW s, NEW d, d.bod \in Seq(Nat), Len(f.idx) = 0 => ~s.written,
         NEW e, e.time = time, DOMAIN e.bod = Range(d.bod),
         NEW h, h = frame(f, s, d)
  PROVE  /\ Typed(h) /\ Len(h.idx) = Len(f.idx) + 1 /\ h.dat = Data(f)
         /\ SameFrames(f, h, Len(f.idx))
         /\ h.idx[Len(f.idx) + 1].doff = Len(Data(f))
         /\ Holds(h, Len(f.idx) + 1, e)
<1> DEFINE k == Len(f.idx)
           bod == d.bod
<1>1. PICK iover \in Seq(Nat), p \in Nat : \E E, flat :
           /\ Paired(flat, d.bod, time, Len(d.bod))
           /\ InFrame(frame(f, s, d), f, time,
                      (iover \o (<<Len(d.bod)>> \o flat)) \o <<0>>,
                      ((E \cup {<<"DOM", Len(iover)>>}) \cup {<<"BODS", Len(iover)>>})
                        \cup {<<"TIMERS", p>>})
           /\ \A x \in E : x[1] = "IOVER"
           /\ ~s.written => <<"IOVER", 0>> \in E
  BY FrameMade
<1>2. PICK E, flat :
           /\ Paired(flat, d.bod, time, Len(d.bod))
           /\ InFrame(h, f, time,
                      (iover \o (<<Len(d.bod)>> \o flat)) \o <<0>>,
                      ((E \cup {<<"DOM", Len(iover)>>}) \cup {<<"BODS", Len(iover)>>})
                        \cup {<<"TIMERS", p>>})
           /\ \A x \in E : x[1] = "IOVER"
           /\ ~s.written => <<"IOVER", 0>> \in E
  BY <1>1
<1> DEFINE N == Len(d.bod)
           B == Entries(h, k + 1)
<1>3. /\ Typed(h) /\ Len(h.idx) = k + 1 /\ h.dat = Data(f)
      /\ SameFrames(f, h, k)
      /\ h.idx[k + 1].doff = Len(Data(f)) /\ h.idx[k + 1].time = time
      /\ h.mem = (iover \o (<<N>> \o flat)) \o <<0>>
      /\ B = ((E \cup {<<"DOM", Len(iover)>>}) \cup {<<"BODS", Len(iover)>>})
               \cup {<<"TIMERS", p>>}
  BY <1>2 DEF InFrame
<1>4. /\ N \in Nat /\ k \in Nat /\ Len(iover) \in Nat
      /\ flat \in Seq(Nat) /\ Len(flat) = 2 * N
      /\ \A j \in 1 .. N : flat[2 * j - 1] = d.bod[j] /\ flat[2 * j] = time
  BY <1>2 DEF Paired, Typed
<1>5. Data(f) \in Seq(Nat) /\ Len(Data(f)) \in Nat
  <2>1. Data(f) \in Seq(Nat)
    BY DEF Data, Typed
  <2> HIDE DEF Data
  <2> QED
    BY <2>1
<1>6. Data(h) = Data(f) \o ((iover \o (<<N>> \o flat)) \o <<0>>)
  BY <1>3 DEF Data
<1> DEFINE a == Len(Data(f))
           i == Len(iover)
           D == Data(h)
<1>7. /\ Len(D) = a + i + 2 * N + 2
      /\ D[a + i + 1] = N
      /\ \A j \in 1 .. (2 * N) : D[a + i + 1 + j] = flat[j]
  <2> DEFINE A == Data(f)
             H == Data(h)
  <2>1. A \in Seq(Nat) /\ H = A \o ((iover \o (<<N>> \o flat)) \o <<0>>)
    BY <1>5, <1>6
  <2> HIDE DEF A, H, N
  <2>2. Contained(H, A, iover, N, flat)
    BY ONLY <1>4, <2>1, iover \in Seq(Nat), N \in Nat, Inside
  <2> QED
    BY <1>4, <2>2 DEF Contained, A, H
<1>8. a \in Nat /\ i \in Nat
  BY <1>4, <1>5
<1> HIDE DEF D, a, N
<1>9. EndOf(h, k + 1) = Len(D)
  BY <1>3, <1>4 DEF EndOf, D
<1>10. Len(D) \in Nat
  BY <1>4, <1>7, <1>8
<1>11. BodiesAt(h, a + i, Len(D), e)
  <2>1. a + i + 1 + 2 * N <= Len(D)
    BY <1>4, <1>7, <1>8
  <2>2. ASSUME NEW j \in 1 .. N
        PROVE  D[a + i + 2 * j] = d.bod[j] /\ D[a + i + 2 * j + 1] = e.time
    <3>1. /\ 2 * j - 1 \in 1 .. (2 * N) /\ 2 * j \in 1 .. (2 * N)
          /\ a + i + 1 + (2 * j - 1) = a + i + 2 * j
          /\ a + i + 1 + 2 * j = a + i + 2 * j + 1
      BY <1>4, <1>8
    <3>2. /\ D[a + i + 1 + (2 * j - 1)] = flat[2 * j - 1]
          /\ D[a + i + 1 + 2 * j] = flat[2 * j]
      BY <1>7, <3>1
    <3> QED
      BY <1>4, <3>1, <3>2
  <2>3. DOMAIN e.bod = Range(d.bod) /\ d.bod \in Seq(Nat)
    OBVIOUS
  <2> QED
    BY <1>7, <2>1, <2>2, <2>3 DEF BodiesAt, D, N
<1>12. ASSUME NEW q \in Nat, <<"BODS", q>> \in B
       PROVE  q = i
  <2>1. <<"BODS", q>> \notin E
    <3>1. <<"BODS", q>>[1] = "BODS" /\ "BODS" # "IOVER"
      OBVIOUS
    <3> QED
      BY <1>2, <3>1
  <2>2. <<"BODS", q>> # <<"DOM", Len(iover)>> /\ <<"BODS", q>> # <<"TIMERS", p>>
    OBVIOUS
  <2>3. <<"BODS", q>> = <<"BODS", Len(iover)>>
    BY <1>3, <1>12, <2>1, <2>2
  <2> QED
    BY <2>3
<1>13. /\ <<"DOM", i>> \in B /\ <<"BODS", i>> \in B /\ <<"TIMERS", p>> \in B
       /\ k + 1 = 1 => <<"IOVER", 0>> \in B
  BY <1>2, <1>3, <1>4
<1>14. /\ \A name \in {"DOM", "BODS", "TIMERS"} : \E q \in Nat : <<name, q>> \in B
       /\ k + 1 = 1 => \E q \in Nat : <<"IOVER", q>> \in B
  BY <1>4, <1>13
<1> HIDE DEF B
<1>15. Holds(h, k + 1, e)
  <2>1. h.idx[k + 1].time = e.time /\ h.idx[k + 1].doff = a
    BY <1>3 DEF a
  <2>2. ASSUME NEW q \in Nat, <<"BODS", q>> \in Entries(h, k + 1)
        PROVE  BodiesAt(h, h.idx[k + 1].doff + q, EndOf(h, k + 1), e)
    BY <1>9, <1>11, <1>12, <2>1, <2>2 DEF B
  <2> QED
    BY <1>9, <1>10, <1>14, <2>1, <2>2 DEF Holds, B, D
<1> QED
  BY <1>3, <1>15

LEMMA CloseTyped ==
  ASSUME NEW f, Typed(f), Len(f.idx) = 0 => f.mem = <<>>,
         NEW h, h = finalize_frames(f)
  PROVE  /\ Typed(h) /\ h.mem = <<>> /\ h.dat = Data(f)
         /\ Len(h.idx) = Len(f.idx) + 1
         /\ SameFrames(f, h, Len(f.idx))
         /\ h.idx[Len(f.idx) + 1].doff = Len(Data(f))
<1> DEFINE g == write_frame(f)
           m == Marker(g.time, Len(g.dat), "inf")
           e == [g EXCEPT !.idx = Append(g.idx, m)]
           k == Len(f.idx)
<1>1. /\ Typed(g) /\ g.mem = <<>> /\ g.dat = Data(f) /\ g.time = f.time
      /\ Len(g.idx) = k /\ SameFrames(f, g, k)
  BY WriteFrameTyped
<1>2. h = [g EXCEPT !.idx = Append(g.idx, m), !.stage = "final"]
  BY DEF finalize_frames
<1> HIDE DEF g
<1>3. m \in MarkerType /\ m.labels = <<>> /\ m.doff = Len(g.dat)
  <2>1. Len(g.dat) \in Nat /\ g.time \in 0 .. MaxTime
    BY <1>1 DEF Typed
  <2> QED
    BY <2>1 DEF Marker, MarkerType
<1> HIDE DEF m
<1>4. Marked(e, g, m)
  BY ONLY <1>1, <1>3, MarkerTyped
<1>5. /\ h.idx = e.idx /\ h.mem = e.mem /\ h.dat = e.dat /\ h.lab = e.lab
      /\ h.time = e.time /\ HasFields(h)
  BY <1>1, <1>2 DEF Typed, HasFields
<1> HIDE DEF e
<1>6. Typed(h)
  BY <1>4, <1>5 DEF Marked, Typed
<1>7. \A n : h.idx[n] = e.idx[n] /\ Entries(h, n) = Entries(e, n)
  BY <1>5 DEF Entries
<1>8. SameFrames(f, h, k)
  BY <1>1, <1>4, <1>7 DEF Marked, SameFrames
<1> QED
  BY <1>1, <1>3, <1>4, <1>5, <1>6, <1>8 DEF Marked

(* What is left of a stream.                                               *)
LEMMA OnDiskPart ==
  ASSUME NEW T, NEW s \in Seq(T), NEW flushed, NEW n \in Nat,
         NEW t, t = OnDisk(s, flushed, n)
  PROVE  /\ t \in Seq(T) /\ Len(t) <= Len(s)
         /\ \A i \in 1 .. Len(t) : t[i] = s[i]
<1>1. CASE flushed
  BY <1>1 DEF OnDisk
<1>2. CASE ~flushed
  <2> DEFINE k == Len(s) - n
  <2>1. t = SubSeq(s, 1, k) /\ k \in Int /\ k <= Len(s) /\ Len(s) \in Nat
    BY <1>2 DEF OnDisk
  <2> HIDE DEF k
  <2>2. CASE k < 1
    <3>1. t = <<>>
      BY <2>1, <2>2
    <3> QED
      BY <2>1, <3>1
  <2>3. CASE k >= 1
    <3>1. Len(t) = k /\ t \in Seq(T)
      BY <2>1, <2>3
    <3>2. \A i \in 1 .. k : t[i] = s[i]
      BY <2>1, <2>3
    <3> QED
      BY <2>1, <3>1, <3>2
  <2> QED
    BY <2>1, <2>2, <2>3
<1> QED
  BY <1>1, <1>2

(* h is what a process that dies leaves of f.                              *)
PartOf(h, f) ==
  /\ HasFields(h) /\ h.mem = <<>> /\ h.time = f.time /\ h.stage = "dead"
  /\ h.dat \in Seq(Nat) /\ h.lab \in Seq(Names) /\ h.idx \in Seq(MarkerType)
  /\ Len(h.dat) <= Len(f.dat) /\ \A i \in 1 .. Len(h.dat) : h.dat[i] = f.dat[i]
  /\ Len(h.lab) <= Len(f.lab) /\ \A i \in 1 .. Len(h.lab) : h.lab[i] = f.lab[i]
  /\ Len(h.idx) <= Len(f.idx) /\ \A i \in 1 .. Len(h.idx) : h.idx[i] = f.idx[i]

LEMMA TornPart ==
  ASSUME NEW f, Typed(f), ~Left(f), NEW lost \in Losses, NEW h, h = Torn(f, lost)
  PROVE  PartOf(h, f) /\ h \in FileType
<1> DEFINE dat == OnDisk(f.dat, FALSE, lost.dat)
           lab == OnDisk(f.lab, f.stage = "lab", lost.lab)
           idx == OnDisk(f.idx, f.stage \in {"idx", "lab"}, lost.idx)
<1>1. lost.dat \in Nat /\ lost.lab \in Nat /\ lost.idx \in Nat
  BY OutputAssumption
<1>2. f.dat \in Seq(Nat) /\ f.lab \in Seq(Names) /\ f.idx \in Seq(MarkerType)
  BY DEF Typed
<1>3. h = [f EXCEPT !.mem = <<>>, !.idx = idx, !.lab = lab, !.dat = dat, !.stage = "dead"]
  BY DEF Torn
<1>4. /\ dat \in Seq(Nat) /\ Len(dat) <= Len(f.dat)
      /\ \A i \in 1 .. Len(dat) : dat[i] = f.dat[i]
  <2>1. PICK flushed : dat = OnDisk(f.dat, flushed, lost.dat)
    OBVIOUS
  <2> HIDE DEF dat
  <2> QED
    BY <1>1, <1>2, <2>1, OnDiskPart
<1>5. /\ lab \in Seq(Names) /\ Len(lab) <= Len(f.lab)
      /\ \A i \in 1 .. Len(lab) : lab[i] = f.lab[i]
  <2>1. PICK flushed : lab = OnDisk(f.lab, flushed, lost.lab)
    OBVIOUS
  <2> HIDE DEF lab
  <2> QED
    BY <1>1, <1>2, <2>1, OnDiskPart
<1>6. /\ idx \in Seq(MarkerType) /\ Len(idx) <= Len(f.idx)
      /\ \A i \in 1 .. Len(idx) : idx[i] = f.idx[i]
  <2>1. PICK flushed : idx = OnDisk(f.idx, flushed, lost.idx)
    OBVIOUS
  <2> HIDE DEF idx
  <2> QED
    BY <1>1, <1>2, <2>1, OnDiskPart
<1> HIDE DEF dat, lab, idx
<1>7. /\ h.dat = dat /\ h.lab = lab /\ h.idx = idx /\ h.mem = <<>> /\ h.time = f.time
      /\ h.stage = "dead" /\ HasFields(h)
  BY <1>3 DEF Typed, HasFields
<1>8. h \in FileType
  <2>1. h.time \in 0 .. MaxTime /\ h.mem \in Seq(Nat)
    BY <1>7 DEF Typed
  <2> QED
    BY <1>4, <1>5, <1>6, <1>7, <2>1 DEF FileType, HasFields, Names, MarkerType
<1> QED
  BY <1>4, <1>5, <1>6, <1>7, <1>8 DEF PartOf

-----------------------------------------------------------------------------
(* Each file holds what its rank has recorded.                             *)

BoundsInv ==
  /\ time <= end /\ end <= MaxTime
  /\ pc = "loop" => time < end

HoldsAll(f, lg) == \A n \in 1 .. Len(lg) : Holds(f, n, lg[n])

OpenFile(f, lg) == Len(f.idx) = Len(lg) /\ HoldsAll(f, lg)

ClosedFile(f, lg) == Len(f.idx) = Len(lg) + 1 /\ Len(lg) # 0 /\ HoldsAll(f, lg)

(* A file that a reader accepts: the index has all frames, and of those    *)
(* that are complete the data are there.                                   *)
FoundFile(f, lg) ==
  /\ Typed(f) /\ f.mem = <<>>
  /\ Len(f.idx) = Len(lg) + 1 /\ Len(lg) \in Nat \ {0}
  /\ \A n \in 1 .. Len(lg) :
       /\ f.idx[n].time = lg[n].time
       /\ Complete(f, n - 1) => Holds(f, n, lg[n])

FileKept(r) ==
  /\ file[r].stage = "writing" =>
       /\ Typed(file[r]) /\ OpenFile(file[r], log[r])
       /\ pc \notin Running => Len(log[r]) # 0
  /\ file[r].stage \in Finals => Typed(file[r]) /\ ClosedFile(file[r], log[r])
  /\ file[r].stage = "dead" =>
       /\ file[r] \in FileType
       /\ Intact(file[r]) => FoundFile(file[r], log[r])

ContentsInv == BoundsInv /\ \A r \in Ranks : FileKept(r)

(* A file that is closed is found complete.                                *)
LEMMA ClosedFound ==
  ASSUME NEW f, Typed(f), f.mem = <<>>, NEW lg, IsList(lg), ClosedFile(f, lg)
  PROVE  FoundFile(f, lg) /\ \A n \in 1 .. Len(lg) : Complete(f, n - 1)
<1>1. Data(f) = f.dat /\ Len(lg) \in Nat
  BY DEF Data, Typed, IsList
<1>2. ASSUME NEW n \in 1 .. Len(lg)
      PROVE  Complete(f, n - 1) /\ f.idx[n].time = lg[n].time /\ Holds(f, n, lg[n])
  <2>1. Holds(f, n, lg[n])
    BY DEF ClosedFile, HoldsAll
  <2>2. EndOf(f, n) = f.idx[n + 1].doff /\ n - 1 + 2 = n + 1
    BY <1>1 DEF EndOf, ClosedFile
  <2> QED
    BY <1>1, <2>1, <2>2 DEF Holds, Complete
<1> QED
  BY <1>1, <1>2 DEF FoundFile, ClosedFile

(* When PBF_Close has got as far as its index, a file that is accepted has *)
(* all of the index and of the labels.                                     *)
LEMMA TornFound ==
  ASSUME NEW f, IsFinal(f), Typed(f), ~Left(f), NEW lg, IsList(lg), ClosedFile(f, lg),
         NEW lost \in Losses, NEW h, h = Torn(f, lost), Intact(h)
  PROVE  FoundFile(h, lg)
<1>1. PartOf(h, f)
  BY TornPart
<1>2. /\ h.idx \in Seq(MarkerType) /\ Len(h.idx) \in Nat /\ h.lab \in Seq(Names)
      /\ Len(f.idx) \in Nat /\ Len(h.idx) <= Len(f.idx) /\ h.idx # <<>>
      /\ h.idx[Len(h.idx)].end = "inf"
  BY <1>1 DEF PartOf, Typed, Intact, Last
<1>3. Len(h.idx) = Len(f.idx)
  <2>1. Len(h.idx) \in 1 .. Len(f.idx)
    BY <1>2
  <2>2. h.idx[Len(h.idx)] = f.idx[Len(h.idx)]
    BY <1>1, <1>2, <2>1 DEF PartOf
  <2> QED
    BY <1>2, <2>1, <2>2 DEF IsFinal
<1>4. \A n \in 1 .. Len(f.idx) : h.idx[n] = f.idx[n] /\ h.idx[n] \in MarkerType
  BY <1>1, <1>2, <1>3 DEF PartOf
<1>5. \A n \in 1 .. Len(h.idx) : \A i \in 1 .. Len(h.idx[n].labels) :
        h.idx[n].labels[i][1] \in 1 .. Len(h.lab)
  <2>1. DOMAIN h.idx = 1 .. Len(h.idx) /\ DOMAIN h.lab = 1 .. Len(h.lab)
    BY <1>2
  <2>2. ASSUME NEW n \in 1 .. Len(h.idx), NEW i \in 1 .. Len(h.idx[n].labels)
        PROVE  i \in DOMAIN h.idx[n].labels
    <3>1. h.idx[n].labels \in Seq(Nat \X Nat)
      BY <1>3, <1>4, MarkerParts
    <3> DEFINE l == h.idx[n].labels
    <3>2. l \in Seq(Nat \X Nat) /\ i \in 1 .. Len(l)
      BY <3>1
    <3> HIDE DEF l
    <3>3. i \in DOMAIN l
      BY <3>2
    <3> QED
      BY <3>3 DEF l
  <2> QED
    BY <2>1, <2>2 DEF Intact
<1>6. Typed(h)
  BY <1>1, <1>5 DEF PartOf, Typed
<1>7. /\ Data(h) = h.dat /\ Data(f) = f.dat /\ Len(lg) \in Nat \ {0}
      /\ Len(f.idx) = Len(lg) + 1
  BY <1>6, <1>1 DEF Data, Typed, PartOf, IsFinal, ClosedFile, IsList
<1>8. ASSUME NEW n \in 1 .. Len(lg)
      PROVE  /\ h.idx[n].time = lg[n].time
             /\ Complete(h, n - 1) => Holds(h, n, lg[n])
  <2> DEFINE e == lg[n]
  <2>1. Holds(f, n, e) /\ n \in 1 .. Len(f.idx) /\ n + 1 \in 1 .. Len(f.idx)
    BY <1>7 DEF ClosedFile, HoldsAll
  <2> HIDE DEF e
  <2>2. h.idx[n] = f.idx[n] /\ h.idx[n + 1] = f.idx[n + 1] /\ f.idx[n].doff \in Nat
    BY <1>4, <2>1, MarkerParts
  <2>3. Entries(h, n) = Entries(f, n)
    <3>1. ASSUME NEW i \in 1 .. Len(f.idx[n].labels)
          PROVE  h.lab[h.idx[n].labels[i][1]] = f.lab[f.idx[n].labels[i][1]]
      BY <1>1, <1>3, <1>5, <2>1, <2>2 DEF PartOf
    <3> QED
      BY <2>2, <3>1 DEF Entries
  <2>4. EndOf(h, n) = f.idx[n + 1].doff /\ EndOf(f, n) = f.idx[n + 1].doff
    BY <1>3, <1>7, <2>2 DEF EndOf
  <2>5. ASSUME Complete(h, n - 1)
        PROVE  Holds(h, n, e)
    <3>1. n - 1 + 2 = n + 1
      OBVIOUS
    <3>2. EndOf(f, n) <= Len(Data(h)) /\ EndOf(f, n) \in Nat /\ Len(Data(h)) \in Nat
      <4>1. EndOf(f, n) \in Nat
        BY <2>1 DEF Holds
      <4>2. Len(Data(h)) = Len(h.dat) /\ Len(h.dat) \in Nat
        BY <1>1, <1>7 DEF PartOf
      <4>3. f.idx[n + 1].doff <= Len(h.dat)
        BY <2>2, <2>5, <3>1 DEF Complete
      <4> QED
        BY <2>4, <4>1, <4>2, <4>3
    <3>3. ASSUME NEW i \in 1 .. EndOf(f, n)
          PROVE  Data(h)[i] = Data(f)[i]
      <4>1. i \in 1 .. Len(h.dat)
        BY <1>7, <3>2
      <4>2. h.dat[i] = f.dat[i]
        BY <1>1, <4>1 DEF PartOf
      <4> QED
        BY <1>7, <4>2
    <3> QED
      BY <2>1, <2>2, <2>3, <2>4, <3>2, <3>3, HoldsMoved
  <2>6. h.idx[n].time = e.time
    BY <2>1, <2>2 DEF Holds
  <2> QED
    BY <2>5, <2>6 DEF e
<1> QED
  BY <1>1, <1>3, <1>6, <1>7, <1>8 DEF FoundFile, PartOf

LEMMA RecordedOpen ==
  ASSUME NEW f, Typed(f), Len(f.idx) = 0 => f.mem = <<>>, time \in 0 .. MaxTime,
         NEW s, NEW d, d.bod \in Seq(Nat), Len(f.idx) = 0 => ~s.written,
         NEW e, e.time = time, DOMAIN e.bod = Range(d.bod),
         NEW lg, IsList(lg), OpenFile(f, lg),
         NEW h, h = frame(f, s, d)
  PROVE  Typed(h) /\ OpenFile(h, Append(lg, e))
<1> DEFINE k == Len(f.idx)
           al == Append(lg, e)
<1>1. /\ Typed(h) /\ Len(h.idx) = k + 1 /\ h.dat = Data(f)
      /\ SameFrames(f, h, k)
      /\ h.idx[k + 1].doff = Len(Data(f))
      /\ Holds(h, k + 1, e)
  BY HoldsNew
<1>2. k = Len(lg) /\ k \in Nat
  BY DEF OpenFile, IsList
<1>3. /\ Len(al) = k + 1
      /\ \A n \in 1 .. k : al[n] = lg[n]
      /\ al[k + 1] = e
  BY <1>2, AppendList
<1> HIDE DEF al
<1>4. ASSUME NEW n \in 1 .. (k + 1)
      PROVE  Holds(h, n, al[n])
  <2>1. CASE n = k + 1
    BY <1>1, <1>3, <2>1
  <2>2. CASE n \in 1 .. k
    <3> DEFINE x == lg[n]
    <3>1. Holds(f, n, x)
      BY <1>2, <2>2 DEF OpenFile, HoldsAll
    <3> HIDE DEF x
    <3>2. Holds(h, n, x)
      BY <1>1, <2>2, <3>1, HoldsKept
    <3> QED
      BY <1>3, <2>2, <3>2 DEF x
  <2> QED
    BY <1>2, <2>1, <2>2
<1> HIDE DEF k
<1>5. OpenFile(h, al)
  BY <1>1, <1>3, <1>4 DEF OpenFile, HoldsAll
<1> QED
  BY <1>1, <1>5 DEF al

LEMMA ClosingFile ==
  ASSUME NEW f, Typed(f), Len(f.idx) = 0 => f.mem = <<>>,
         NEW lg, IsList(lg), OpenFile(f, lg), Len(lg) # 0,
         NEW h, h = finalize_frames(f)
  PROVE  Typed(h) /\ ClosedFile(h, lg) /\ h.mem = <<>>
<1> DEFINE k == Len(f.idx)
<1>1. /\ Typed(h) /\ h.mem = <<>> /\ h.dat = Data(f)
      /\ Len(h.idx) = k + 1 /\ SameFrames(f, h, k)
      /\ h.idx[k + 1].doff = Len(Data(f))
  BY CloseTyped
<1>2. ASSUME NEW n \in 1 .. Len(lg)
      PROVE  Holds(h, n, lg[n])
  <2> DEFINE x == lg[n]
  <2>1. Holds(f, n, x) /\ n \in 1 .. k
    BY DEF OpenFile, HoldsAll
  <2> HIDE DEF x
  <2>2. Holds(h, n, x)
    BY <1>1, <2>1, HoldsKept
  <2> QED
    BY <2>2 DEF x
<1> QED
  BY <1>1, <1>2 DEF ClosedFile, HoldsAll, OpenFile

LEMMA BoundsNext == TimesInv /\ BoundsInv /\ [Next]_allvars => BoundsInv'
<1> SUFFICES ASSUME TimesInv, BoundsInv, [Next]_allvars PROVE BoundsInv'
  OBVIOUS
<1>1. time \in Nat /\ end \in Nat /\ MaxTime \in Nat
  BY OutputAssumption DEF TimesInv, ClockInv
<1>2. CASE UNCHANGED vars
  BY <1>2 DEF vars, BoundsInv
<1>3. CASE Write
  <2>1. ASSUME NEW b, NEW to, NEW gone, NEW cracked, NEW parts,
               Step(b, to, gone, cracked, parts)
        PROVE  BoundsInv'
    BY <1>1, <2>1 DEF Step, BoundsInv
  <2>2. ASSUME NEW duration \in 1 .. MaxTime, Run(duration)
        PROVE  BoundsInv'
    BY <1>1, <2>2 DEF Run, BoundsInv
  <2>3. ASSUME NEW S, NEW create, NEW go, Callback(S, create, go)
        PROVE  BoundsInv'
    BY <1>1, <2>3 DEF Callback, BoundsInv
  <2>4. ASSUME Gone, pc' # "loop"
        PROVE  BoundsInv'
    BY <1>1, <2>4 DEF Gone, BoundsInv
  <2>5. ASSUME UNCHANGED <<time, end>>, pc' # "loop"
        PROVE  BoundsInv'
    BY <2>5 DEF BoundsInv
  <2>6. CASE \E interval \in [Ranks -> Intervals] : SOLFEC_Output(interval)
    BY <2>5, <2>6 DEF SOLFEC_Output
  <2>7. CASE \E S \in SUBSET Ranks, interval \in [Ranks -> Intervals] :
               SOLFEC_Set_Callback(S, interval)
    BY <2>5, <2>7 DEF SOLFEC_Set_Callback
  <2>8. CASE Output \/ RecordLast
    BY <2>5, <2>8 DEF Output, RecordLast
  <2>9. CASE SOLFEC_Destroy
    BY <2>4, <2>9 DEF SOLFEC_Destroy
  <2>10. CASE \E r \in Ranks : Close(r)
    <3>1. UNCHANGED <<time, end>> /\ pc' # "loop"
      BY <2>10 DEF Close
    <3> QED
      BY <2>5, <3>1
  <2>11. CASE \E S \in SUBSET Ranks \ {{}} :
                \E lost \in [Ranks \ S -> Losses] : SOLFEC_Abort(S, lost)
    BY <2>4, <2>11 DEF SOLFEC_Abort
  <2>12. CASE \E lost \in [Ranks -> Losses] : Crash(lost)
    BY <2>4, <2>12 DEF Crash
  <2> QED
    BY <1>3, <2>1, <2>2, <2>3, <2>6, <2>7, <2>8, <2>9, <2>10, <2>11, <2>12 DEF Write
<1>4. CASE Read
  <2>1. UNCHANGED vars
    BY <1>4 DEF Read, Open, SOLFEC_Seek_To, SOLFEC_Forward, SOLFEC_Backward,
                SOLFEC_Time_Skip, SOLFEC_History, Becomes, Stopped, allvars
  <2> QED
    BY <1>2, <2>1
<1> QED
  BY <1>2, <1>3, <1>4 DEF Next, allvars

(* A rank has written to its file what it has recorded.                    *)
LEMMA FirstFrame ==
  ASSUME Inv, TimesInv, ContentsInv, pc \in Running, NEW r \in Ranks
  PROVE  /\ IsOpen(file[r]) /\ Typed(file[r]) /\ OpenFile(file[r], log[r])
         /\ Len(file[r].idx) = 0 => file[r].mem = <<>>
         /\ Len(file[r].idx) = 0 <=> ~sol[r].written
<1>1. IsOpen(file[r])
  BY DEF Inv, FilesInv, AllOpen
<1>2. /\ Times(r) = [n \in 1 .. Len(file[r].idx) |-> file[r].idx[n].time]
      /\ Len(file[r].idx) \in Nat
  BY <1>1, TimesOpen DEF Times
<1>3. sol[r].written <=> Times(r) # <<>>
  BY TimesRunning DEF Reached
<1>4. Len(file[r].idx) = 0 <=> Times(r) = <<>>
  <2>1. Times(r) \in Seq(Nat)
    BY TimesRunning
  <2> DEFINE t == Times(r)
             n == Len(file[r].idx)
  <2>2. DOMAIN t = 1 .. n /\ n \in Nat /\ t \in Seq(Nat)
    BY <1>2, <2>1
  <2> HIDE DEF t, n
  <2>3. n = 0 <=> t = <<>>
    <3>1. Len(t) \in Nat /\ DOMAIN t = 1 .. Len(t)
      BY <2>2
    <3>2. Len(t) = n
      BY <2>2, <3>1
    <3> QED
      BY <2>2, <3>2
  <2> QED
    BY <2>3 DEF t, n
<1> QED
  BY <1>1, <1>3, <1>4 DEF ContentsInv, FileKept, IsOpen, Running

LEMMA BodList ==
  ASSUME BodiesInv, NEW r \in Ranks
  PROVE  dom[r].bod \in Seq(Nat) /\ IsList(log[r])
<1>1. PICK names : Known(names)
  BY DEF BodiesInv
<1>2. dom[r].bod \in Seq(Dealt(dom[r])) /\ Dealt(dom[r]) \subseteq Nat
  BY <1>1 DEF Known, Whole, Agreed, Sound, Dealt
<1>3. dom[r].bod \in Seq(Nat)
  BY <1>2, SeqRange
<1> QED
  BY <1>3 DEF BodiesInv

LEMMA TimeBound ==
  ASSUME TimesInv, BoundsInv
  PROVE  time \in 0 .. MaxTime /\ time \in Nat /\ MaxTime \in Nat
BY OutputAssumption DEF TimesInv, ClockInv, BoundsInv

LEMMA FrameRecorded ==
  ASSUME Inv, TimesInv, BodiesInv, ContentsInv, pc \in Running, NEW r \in Ranks,
         NEW s, s.written = sol[r].written, NEW h, h = frame(file[r], s, dom[r])
  PROVE  Typed(h) /\ OpenFile(h, Append(log[r], Record(r))) /\ IsOpen(h)
         /\ Len(Append(log[r], Record(r))) # 0
         /\ IsList(Append(log[r], Record(r)))
<1> DEFINE f == file[r]
           e == Record(r)
           d == dom[r]
           lg == log[r]
<1>1. /\ IsOpen(f) /\ Typed(f) /\ OpenFile(f, lg)
      /\ Len(f.idx) = 0 => f.mem = <<>>
      /\ Len(f.idx) = 0 => ~s.written
  BY FirstFrame
<1>2. d.bod \in Seq(Nat) /\ IsList(lg) /\ time \in 0 .. MaxTime
  BY BodList, TimeBound DEF ContentsInv
<1>3. e.time = time /\ DOMAIN e.bod = Range(d.bod)
  BY DEF Record
<1>4. h = frame(f, s, d)
  OBVIOUS
<1> HIDE DEF f, e, d, lg
<1>5. Typed(h) /\ OpenFile(h, Append(lg, e))
  BY ONLY <1>1, <1>2, <1>3, <1>4, RecordedOpen
<1>6. IsOpen(h)
  BY <1>1, <1>4, FrameOpen
<1>7. Len(Append(lg, e)) = Len(lg) + 1 /\ IsList(Append(lg, e)) /\ Len(lg) \in Nat
  BY <1>2, AppendList DEF IsList
<1> QED
  BY <1>5, <1>6, <1>7 DEF e, lg

LEMMA RecordingContents ==
  ASSUME Inv, TimesInv, BodiesInv, ContentsInv, pc \in Running,
         NEW W, NEW s, Recording(W, s),
         \A r \in Ranks : s[r].written = sol[r].written,
         NEW r \in Ranks
  PROVE  /\ Typed(file'[r]) /\ OpenFile(file'[r], log'[r]) /\ IsOpen(file'[r])
         /\ r \in W => Len(log'[r]) # 0
         /\ r \notin W => log'[r] = log[r]
<1>1. /\ file'[r] = IF r \in W THEN frame(file[r], s[r], dom[r]) ELSE file[r]
      /\ log'[r] = IF r \in W THEN Append(log[r], Record(r)) ELSE log[r]
  BY DEF Recording
<1>2. CASE r \in W
  <2> DEFINE h == frame(file[r], s[r], dom[r])
  <2>1. s[r].written = sol[r].written
    OBVIOUS
  <2>2. /\ Typed(h) /\ OpenFile(h, Append(log[r], Record(r))) /\ IsOpen(h)
        /\ Len(Append(log[r], Record(r))) # 0
    BY ONLY Inv, TimesInv, BodiesInv, ContentsInv, pc \in Running, r \in Ranks, <2>1,
            FrameRecorded
  <2> QED
    BY <1>1, <1>2, <2>2
<1>3. CASE r \notin W
  BY <1>1, <1>3, FirstFrame
<1> QED
  BY <1>2, <1>3

LEMMA RunningContents ==
  ASSUME Inv, TimesInv, BodiesInv, ContentsInv, pc \in Running, pc' \in Running,
         NEW W, NEW s, Recording(W, s),
         \A r \in Ranks : s[r].written = sol[r].written
  PROVE  \A r \in Ranks : FileKept(r)'
<1>1. ASSUME NEW r \in Ranks
      PROVE  Typed(file'[r]) /\ OpenFile(file'[r], log'[r])
  <2>1. \A q \in Ranks : s[q].written = sol[q].written
    OBVIOUS
  <2> QED
    BY ONLY Inv, TimesInv, BodiesInv, ContentsInv, pc \in Running, Recording(W, s),
            r \in Ranks, <2>1, RecordingContents
<1>2. ASSUME NEW r \in Ranks
      PROVE  IsOpen(file'[r])
  BY RecordingOpen DEF Inv, FilesInv, AllOpen, Ranks
<1>3. ASSUME NEW r \in Ranks
      PROVE  FileKept(r)'
  BY <1>1, <1>2 DEF FileKept, IsOpen, Finals
<1> QED
  BY <1>3

LEMMA SameContents ==
  ASSUME ContentsInv, UNCHANGED <<file, log>>, pc \in Running => pc' \in Running
  PROVE  \A r \in Ranks : FileKept(r)'
BY DEF ContentsInv, FileKept

LEMMA DestroyContents ==
  ASSUME Inv, TimesInv, BodiesInv, ContentsInv, SOLFEC_Destroy
  PROVE  \A r \in Ranks : FileKept(r)'
<1> DEFINE W == {r \in Ranks : ~sol[r].written}
<1>1. pc \in Running /\ pc' = "exit" /\ Recording(W, sol)
  BY DEF SOLFEC_Destroy, Running
<1>2. ASSUME NEW r \in Ranks
      PROVE  /\ Typed(file'[r]) /\ OpenFile(file'[r], log'[r]) /\ IsOpen(file'[r])
             /\ Len(log'[r]) # 0
  <2>1. /\ Typed(file'[r]) /\ OpenFile(file'[r], log'[r]) /\ IsOpen(file'[r])
        /\ r \in W => Len(log'[r]) # 0
        /\ r \notin W => log'[r] = log[r]
    <3>1. \A q \in Ranks : sol[q].written = sol[q].written
      OBVIOUS
    <3> HIDE DEF W
    <3> QED
      BY ONLY Inv, TimesInv, BodiesInv, ContentsInv, <1>1, r \in Ranks, <3>1,
              RecordingContents
  <2>2. r \notin W => Len(log[r]) # 0
    BY <1>1, FirstFrame DEF OpenFile
  <2> HIDE DEF W
  <2> QED
    BY <2>1, <2>2
<1>3. ASSUME NEW r \in Ranks
      PROVE  FileKept(r)'
  BY <1>2 DEF FileKept, IsOpen, Finals
<1> QED
  BY <1>3

LEMMA CloseContents ==
  ASSUME Inv, BodiesInv, ContentsInv, NEW r \in Ranks, Close(r)
  PROVE  \A q \in Ranks : FileKept(q)'
<1>1. /\ pc \in {"exit", "abort"} /\ pc \notin Running /\ ~Left(file[r])
      /\ file' = [file EXCEPT ![r] = PBF_Close(@)]
      /\ log' = log
  BY DEF Close, Running
<1>2. /\ file = [q \in Ranks |-> file[q]]
      /\ IsOpen(file[r]) \/ IsFinal(file[r])
      /\ IsList(log[r])
  BY <1>1 DEF Inv, FilesInv, IsDead, Left, BodiesInv
<1>3. /\ file'[r] = PBF_Close(file[r])
      /\ \A q \in Ranks \ {r} : file'[q] = file[q]
  BY <1>1, <1>2
<1>4. /\ Typed(file'[r]) /\ ClosedFile(file'[r], log[r])
      /\ file'[r].stage \in Finals
  <2> DEFINE f == file[r]
             lg == log[r]
             h == file'[r]
  <2>1. CASE IsOpen(f)
    <3>1. /\ Typed(f) /\ OpenFile(f, lg) /\ Len(lg) # 0 /\ (Len(f.idx) = 0 => f.mem = <<>>)
          /\ f.stage = "writing"
      BY <1>1, <2>1 DEF ContentsInv, FileKept, IsOpen
    <3>2. IsList(lg) /\ h = finalize_frames(f)
      BY <1>2, <1>3, <3>1 DEF PBF_Close
    <3> HIDE DEF f, lg, h
    <3>3. Typed(h) /\ ClosedFile(h, lg)
      BY ONLY <3>1, <3>2, ClosingFile
    <3>4. h.stage \in Finals
      BY <2>1, <3>2, FinalizeFinal DEF Finals
    <3> QED
      BY <3>3, <3>4 DEF f, lg, h
  <2>2. CASE IsFinal(f)
    <3>1. Typed(f) /\ ClosedFile(f, lg) /\ f.stage \in {"final", "idx", "lab"}
      BY <1>1, <2>2 DEF ContentsInv, FileKept, IsFinal, Left, Finals
    <3>2. h = PBF_Close(f)
      BY <1>3
    <3> HIDE DEF f, lg, h
    <3>3. \E x \in Finals : h = [f EXCEPT !.stage = x]
      BY <3>1, <3>2 DEF PBF_Close, Finals
    <3>4. /\ h.stage \in Finals /\ h.idx = f.idx /\ h.mem = f.mem /\ h.dat = f.dat
          /\ h.lab = f.lab /\ h.time = f.time /\ HasFields(h)
      BY <3>1, <3>3 DEF Typed, HasFields
    <3>5. Typed(h)
      BY <3>1, <3>4 DEF Typed
    <3>6. \A n, e : Holds(f, n, e) => Holds(h, n, e)
      <4>1. Data(h) = Data(f) /\ h.idx = f.idx /\ \A n : Entries(h, n) = Entries(f, n)
        BY <3>4 DEF Data, Entries
      <4>2. \A n : EndOf(h, n) = EndOf(f, n)
        BY <4>1 DEF EndOf
      <4> QED
        BY <4>1, <4>2 DEF Holds, BodiesAt
    <3>7. ClosedFile(h, lg)
      BY <3>1, <3>4, <3>6 DEF ClosedFile, HoldsAll
    <3> QED
      BY <3>4, <3>5, <3>7 DEF f, lg, h
  <2> QED
    BY <1>2, <2>1, <2>2
<1>5. ASSUME NEW q \in Ranks, q # r
      PROVE  FileKept(q)'
  <2>1. file'[q] = file[q] /\ FileKept(q) /\ log'[q] = log[q]
    BY <1>1, <1>3, <1>5 DEF ContentsInv
  <2> QED
    BY <1>1, <2>1 DEF FileKept
<1>6. FileKept(r)'
  BY <1>1, <1>4 DEF FileKept, Finals
<1> QED
  BY <1>5, <1>6

(* A process that dies, wherever it is.                                    *)
LEMMA TornKept ==
  ASSUME Inv, BodiesInv, ContentsInv, NEW r \in Ranks, NEW lost \in Losses,
         file'[r] = Torn(file[r], lost), log'[r] = log[r]
  PROVE  FileKept(r)'
<1>1. FileKept(r) /\ IsList(log[r])
  BY DEF ContentsInv, BodiesInv
<1>2. CASE Left(file[r])
  <2>1. file'[r] = file[r] /\ file[r].stage # "writing"
    BY <1>2 DEF Torn, Left
  <2> QED
    BY <1>1, <2>1 DEF FileKept
<1>3. CASE ~Left(file[r])
  <2> DEFINE f == file[r]
             h == file'[r]
             lg == log[r]
  <2>1. IsOpen(f) \/ IsFinal(f)
    BY <1>3 DEF Inv, FilesInv, IsDead, Left
  <2>2. Typed(f) /\ (IsFinal(f) => ClosedFile(f, lg))
    BY <1>1, <2>1 DEF FileKept, IsOpen, IsFinal
  <2>3. ~Left(f) /\ h = Torn(f, lost) /\ IsList(lg)
    BY <1>1, <1>3
  <2> HIDE DEF f, h, lg
  <2>4. PartOf(h, f) /\ h \in FileType
    BY <2>2, <2>3, TornPart
  <2>5. Intact(h) => FoundFile(h, lg)
    BY <2>1, <2>2, <2>3, TornRefused, TornFound
  <2>6. h.stage = "dead"
    BY <2>4 DEF PartOf
  <2> QED
    BY <2>4, <2>5, <2>6 DEF FileKept, Finals, h, lg
<1> QED
  BY <1>2, <1>3

LEMMA AbortContents ==
  ASSUME Inv, TimesInv, BodiesInv, ContentsInv, NEW S \in SUBSET Ranks,
         NEW lost \in [Ranks \ S -> Losses], SOLFEC_Abort(S, lost)
  PROVE  \A r \in Ranks : FileKept(r)'
<1>1. /\ pc \in Running
      /\ file' = [r \in Ranks |->
                    IF r \in S THEN frame(file[r], sol[r], dom[r])
                    ELSE Torn(file[r], lost[r])]
      /\ log' = [r \in Ranks |->
                   IF r \in S THEN Append(log[r], Record(r)) ELSE log[r]]
  BY DEF SOLFEC_Abort, Running
<1>2. ASSUME NEW r \in Ranks
      PROVE  FileKept(r)'
  <2>1. CASE r \in S
    <3> DEFINE h == frame(file[r], sol[r], dom[r])
               lg == Append(log[r], Record(r))
    <3>1. Typed(h) /\ OpenFile(h, lg) /\ IsOpen(h) /\ Len(lg) # 0
      BY <1>1, FrameRecorded
    <3>2. file'[r] = h /\ log'[r] = lg
      BY <1>1, <2>1
    <3> HIDE DEF h, lg
    <3> QED
      BY <3>1, <3>2 DEF FileKept, IsOpen, Finals
  <2>2. CASE r \notin S
    <3>1. lost[r] \in Losses /\ file'[r] = Torn(file[r], lost[r]) /\ log'[r] = log[r]
      BY <1>1, <2>2
    <3> QED
      BY <3>1, TornKept
  <2> QED
    BY <2>1, <2>2
<1> QED
  BY <1>2

LEMMA CrashContents ==
  ASSUME Inv, BodiesInv, ContentsInv, NEW lost \in [Ranks -> Losses], Crash(lost)
  PROVE  \A r \in Ranks : FileKept(r)'
<1>1. ASSUME NEW r \in Ranks
      PROVE  FileKept(r)'
  <2>1. lost[r] \in Losses /\ file'[r] = Torn(file[r], lost[r]) /\ log'[r] = log[r]
    BY DEF Crash
  <2> QED
    BY <2>1, TornKept
<1> QED
  BY <1>1

LEMMA ContentsInit == ResultsInit => ContentsInv
<1> SUFFICES ASSUME ResultsInit PROVE ContentsInv
  OBVIOUS
<1>1. /\ pc = "script" /\ time = 0 /\ end = 0
      /\ file = [r \in Ranks |-> NewFile] /\ log = [r \in Ranks |-> <<>>]
  BY DEF ResultsInit, Init
<1>2. BoundsInv
  BY <1>1, OutputAssumption DEF BoundsInv
<1>3. ASSUME NEW r \in Ranks
      PROVE  FileKept(r)
  <2>1. Typed(file[r]) /\ Len(file[r].idx) = 0
    BY <1>1, NewFileTyped DEF NewFile
  <2>2. Len(log[r]) = 0
    BY <1>1
  <2> QED
    BY <1>1, <2>1, <2>2, NewFileOpen DEF FileKept, OpenFile, HoldsAll, Running, IsOpen, Finals
<1> QED
  BY <1>2, <1>3 DEF ContentsInv

LEMMA ContentsNext ==
  Inv /\ TimesInv /\ BodiesInv /\ ContentsInv /\ [Next]_allvars => ContentsInv'
<1> SUFFICES ASSUME Inv, TimesInv, BodiesInv, ContentsInv, [Next]_allvars
             PROVE  ContentsInv'
  OBVIOUS
<1>1. BoundsInv'
  BY BoundsNext DEF ContentsInv
<1>2. Ranks' = Ranks
  BY DEF Ranks
<1> SUFFICES \A r \in Ranks : FileKept(r)'
  BY <1>1, <1>2 DEF ContentsInv
<1>3. CASE UNCHANGED vars
  BY <1>3, SameContents DEF vars
<1>4. CASE Write
  <2>1. ASSUME UNCHANGED <<file, log>>, pc \in Running, pc' \in Running
        PROVE  \A r \in Ranks : FileKept(r)'
    BY <2>1, SameContents
  <2>2. CASE \E interval \in [Ranks -> Intervals] : SOLFEC_Output(interval)
    BY <2>1, <2>2 DEF SOLFEC_Output, Running
  <2>3. CASE \E S \in SUBSET Ranks, interval \in [Ranks -> Intervals] :
               SOLFEC_Set_Callback(S, interval)
    BY <2>1, <2>3 DEF SOLFEC_Set_Callback, Running
  <2>4. CASE \E b \in Movers \cup {0}, to \in Ranks,
                gone, cracked \in SUBSET Parents, parts \in Parts :
                gone \cap cracked = {} /\ Step(b, to, gone, cracked, parts)
    BY <2>1, <2>4 DEF Step, Running
  <2>5. CASE \E S \in SUBSET Parents, create, go \in BOOLEAN : Callback(S, create, go)
    BY <2>1, <2>5 DEF Callback, Running
  <2>6. ASSUME NEW W, NEW s, Recording(W, s), pc \in Running, pc' \in Running,
               \A r \in Ranks : s[r].written = sol[r].written
        PROVE  \A r \in Ranks : FileKept(r)'
    BY ONLY Inv, TimesInv, BodiesInv, ContentsInv, <2>6, RunningContents
  <2>7. \A r \in Ranks : SolFields(sol[r])
    BY DEF TimesInv, ClockInv
  <2>8. CASE \E duration \in 1 .. MaxTime : Run(duration)
    <3>1. ASSUME NEW r \in Ranks
          PROVE  Uniform[r].written = sol[r].written
      <4>1. PICK a, b, c, d, e :
              Uniform[r] = [sol[r] EXCEPT !.callback = a, !.callback_interval = b,
                                          !.output_interval = c, !.callback_time = d,
                                          !.output_time = e]
        BY DEF Uniform
      <4> QED
        BY <2>7, <4>1 DEF SolFields
    <3>2. PICK W : Recording(W, Uniform)
      BY <2>8 DEF Run, write_state
    <3>3. pc \in Running /\ pc' \in Running
      BY <2>8 DEF Run, Running
    <3> QED
      BY <2>6, <3>1, <3>2, <3>3
  <2>9. CASE Output
    <3> DEFINE s == [r \in Ranks |->
                       IF r \in DueOutput
                       THEN [sol[r] EXCEPT !.output_time = @ + sol[r].output_interval]
                       ELSE sol[r]]
    <3>1. \A r \in Ranks : s[r].written = sol[r].written
      BY <2>7 DEF SolFields
    <3>2. Recording(DueOutput, s)
      BY <2>9 DEF Output, write_state
    <3>3. pc \in Running /\ pc' \in Running
      BY <2>9 DEF Output, Running
    <3> HIDE DEF s
    <3> QED
      BY <2>6, <3>1, <3>2, <3>3
  <2>10. CASE RecordLast
    <3>1. PICK W : Recording(W, sol)
      BY <2>10 DEF RecordLast, write_state
    <3>2. pc \in Running /\ pc' \in Running
      BY <2>10 DEF RecordLast, Running
    <3> QED
      BY <2>6, <3>1, <3>2
  <2>11. CASE SOLFEC_Destroy
    BY <2>11, DestroyContents
  <2>12. CASE \E r \in Ranks : Close(r)
    BY <2>12, CloseContents
  <2>13. CASE \E S \in SUBSET Ranks \ {{}} :
                \E lost \in [Ranks \ S -> Losses] : SOLFEC_Abort(S, lost)
    <3>1. PICK S \in SUBSET Ranks : \E lost \in [Ranks \ S -> Losses] : SOLFEC_Abort(S, lost)
      BY <2>13
    <3> QED
      BY <3>1, AbortContents
  <2>14. CASE \E lost \in [Ranks -> Losses] : Crash(lost)
    BY <2>14, CrashContents
  <2> QED
    BY <1>4, <2>2, <2>3, <2>4, <2>5, <2>8, <2>9, <2>10, <2>11, <2>12, <2>13, <2>14
       DEF Write
<1>5. CASE Read
  <2>1. UNCHANGED vars
    BY <1>5 DEF Read, Open, SOLFEC_Seek_To, SOLFEC_Forward, SOLFEC_Backward,
                SOLFEC_Time_Skip, SOLFEC_History, Becomes, Stopped, allvars
  <2> QED
    BY <1>3, <2>1
<1> QED
  BY <1>3, <1>4, <1>5 DEF Next, allvars

(* The ranks have recorded states of the same times, in their order; an    *)
(* abort may record the last state twice.                                  *)
LogsFit(logs, strict) ==
  \A r \in Ranks :
    /\ \A q \in Ranks :
         /\ Len(logs[r]) = Len(logs[q])
         /\ \A n \in 1 .. Len(logs[r]) : logs[r][n].time = logs[q][n].time
    /\ \A n \in 1 .. Len(logs[r]) : logs[r][n].time \in 0 .. MaxTime
    /\ \A i, j \in 1 .. Len(logs[r]) :
         i < j => IF strict \/ j < Len(logs[r]) THEN logs[r][i].time < logs[r][j].time
                  ELSE logs[r][i].time <= logs[r][j].time

LogsInv == Refused \/ LogsFit(log, pc \notin Broken)

LEMMA FitLoosely ==
  ASSUME NEW logs, LogsFit(logs, TRUE)
  PROVE  LogsFit(logs, FALSE)
<1>1. ASSUME NEW r \in Ranks, NEW i \in 1 .. Len(logs[r]), NEW j \in 1 .. Len(logs[r]),
             i < j
      PROVE  logs[r][i].time < logs[r][j].time /\ logs[r][i].time <= logs[r][j].time
  <2>1. logs[r][i].time < logs[r][j].time
    BY <1>1 DEF LogsFit
  <2>2. logs[r][i].time \in Int /\ logs[r][j].time \in Int
    BY OutputAssumption DEF LogsFit
  <2> QED
    BY <2>1, <2>2
<1> QED
  BY <1>1 DEF LogsFit

LEMMA OpenLogs ==
  ASSUME NEW files, NEW logs,
         \A r \in Ranks :
           /\ IsOpen(files[r]) /\ Typed(files[r]) /\ OpenFile(files[r], logs[r])
           /\ FrameTimes(files[r]) \in Seq(Nat) /\ Increasing(FrameTimes(files[r]))
           /\ \A q \in Ranks : FrameTimes(files[r]) = FrameTimes(files[q])
  PROVE  LogsFit(logs, TRUE)
<1>1. ASSUME NEW r \in Ranks
      PROVE  /\ Len(FrameTimes(files[r])) = Len(logs[r]) /\ Len(logs[r]) \in Nat
             /\ \A n \in 1 .. Len(logs[r]) :
                  /\ FrameTimes(files[r])[n] = logs[r][n].time
                  /\ logs[r][n].time \in 0 .. MaxTime
  <2> DEFINE f == files[r]
             lg == logs[r]
             t == FrameTimes(f)
  <2>1. IsOpen(f) /\ Typed(f) /\ OpenFile(f, lg) /\ t \in Seq(Nat)
    OBVIOUS
  <2>2. /\ t = [n \in 1 .. Len(f.idx) |-> f.idx[n].time]
        /\ Len(f.idx) \in Nat
    <3> HIDE DEF f
    <3> QED
      BY <2>1, TimesOpen
  <2> HIDE DEF f, lg, t
  <2>3. Len(t) = Len(lg) /\ Len(lg) \in Nat
    BY <2>1, <2>2 DEF OpenFile
  <2>4. ASSUME NEW n \in 1 .. Len(lg)
        PROVE  t[n] = lg[n].time /\ lg[n].time \in 0 .. MaxTime
    <3>1. t[n] = f.idx[n].time /\ f.idx[n].time = lg[n].time
      BY <2>1, <2>2 DEF OpenFile, HoldsAll, Holds
    <3>2. f.idx[n] \in MarkerType
      BY <2>1 DEF OpenFile, Typed
    <3> QED
      BY <3>1, <3>2, MarkerParts
  <2> QED
    BY <2>3, <2>4 DEF f, lg, t
<1>2. ASSUME NEW r \in Ranks, NEW i \in 1 .. Len(logs[r]), NEW j \in 1 .. Len(logs[r]), i < j
      PROVE  logs[r][i].time < logs[r][j].time
  BY <1>1, <1>2 DEF Increasing
<1> QED
  BY <1>1, <1>2 DEF LogsFit

LEMMA RunningLogs ==
  ASSUME Inv, TimesInv, ContentsInv, pc \in Running
  PROVE  /\ LogsFit(log, TRUE)
         /\ \A r \in Ranks : \A n \in 1 .. Len(log[r]) : log[r][n].time <= time
<1>1. ASSUME NEW r \in Ranks
      PROVE  /\ IsOpen(file[r]) /\ Typed(file[r]) /\ OpenFile(file[r], log[r])
             /\ FrameTimes(file[r]) \in Seq(Nat) /\ Increasing(FrameTimes(file[r]))
             /\ \A q \in Ranks : FrameTimes(file[r]) = FrameTimes(file[q])
             /\ Reached(FrameTimes(file[r]), sol[r])
  BY FirstFrame, TimesRunning DEF Times
<1>2. LogsFit(log, TRUE)
  BY ONLY <1>1, OpenLogs
<1>3. ASSUME NEW r \in Ranks, NEW n \in 1 .. Len(log[r])
      PROVE  log[r][n].time <= time
  <2> DEFINE t == FrameTimes(file[r])
  <2>1. /\ t = [k \in 1 .. Len(file[r].idx) |-> file[r].idx[k].time]
        /\ Len(file[r].idx) \in Nat /\ Len(file[r].idx) = Len(log[r])
    BY <1>1, TimesOpen DEF OpenFile
  <2>2. t[n] = log[r][n].time
    BY <1>1, <2>1 DEF OpenFile, HoldsAll, Holds
  <2>3. t \in Seq(Nat) /\ Increasing(t) /\ Reached(t, sol[r])
    BY <1>1
  <2>4. DOMAIN t = 1 .. Len(log[r])
    BY <2>1
  <2> HIDE DEF t
  <2>5. Len(t) = Len(log[r]) /\ n \in 1 .. Len(t) /\ t # <<>> /\ Len(t) \in Nat
    BY <2>1, <2>3, <2>4
  <2>6. t[Len(t)] <= time /\ time \in Nat /\ t[Len(t)] \in Nat /\ t[n] \in Nat
    <3>1. t[Len(t)] \in Nat /\ t[n] \in Nat
      BY <2>3, <2>5
    <3>2. time \in Nat
      BY DEF TimesInv, ClockInv
    <3> QED
      BY <2>3, <2>5, <3>1, <3>2 DEF Reached, Running
  <2>7. CASE n = Len(t)
    BY <2>2, <2>6, <2>7
  <2>8. CASE n < Len(t)
    <3>1. t[n] < t[Len(t)]
      BY <2>3, <2>5, <2>8 DEF Increasing
    <3> QED
      BY <2>2, <2>6, <3>1
  <2> QED
    BY <2>5, <2>7, <2>8
<1> QED
  BY <1>2, <1>3

LEMMA LogsKept ==
  ASSUME TimesInv', ContentsInv', AllOpen', pc' \notin Broken
  PROVE  LogsFit(log', TRUE)
<1>1. Ranks' = Ranks
  BY DEF Ranks
<1>2. \A r \in Ranks : Times(r)' = FrameTimes(file'[r])
  BY DEF Times, FrameTimes
<1>3. ASSUME NEW r \in Ranks
      PROVE  /\ IsOpen(file'[r]) /\ Typed(file'[r]) /\ OpenFile(file'[r], log'[r])
             /\ FrameTimes(file'[r]) \in Seq(Nat) /\ Increasing(FrameTimes(file'[r]))
             /\ \A q \in Ranks : FrameTimes(file'[r]) = FrameTimes(file'[q])
  <2>1. IsOpen(file'[r])
    BY <1>1 DEF AllOpen
  <2>2. FileKept(r)' /\ TimesKept(r)'
    BY <1>1 DEF ContentsInv, TimesInv
  <2>3. Typed(file'[r]) /\ OpenFile(file'[r], log'[r])
    BY <2>1, <2>2 DEF FileKept, IsOpen
  <2>4. /\ Times(r)' \in Seq(Nat) /\ \A q \in Ranks : Times(r)' = Times(q)'
        /\ Increasing(Times(r)')
    BY <1>1, <2>2 DEF TimesKept, Broken, Increasing
  <2> QED
    BY <1>2, <2>1, <2>3, <2>4
<1> QED
  BY ONLY <1>3, OpenLogs

LEMMA AbortLogs ==
  ASSUME Inv, TimesInv, BodiesInv, ContentsInv, NEW lost, SOLFEC_Abort(Ranks, lost)
  PROVE  LogsFit(log', FALSE)
<1>1. pc \in Running /\ \A r \in Ranks : log'[r] = Append(log[r], Record(r))
  BY DEF SOLFEC_Abort, Running
<1>2. /\ LogsFit(log, TRUE)
      /\ \A r \in Ranks : \A n \in 1 .. Len(log[r]) : log[r][n].time <= time
  BY <1>1, RunningLogs
<1>3. time \in 0 .. MaxTime /\ MaxTime \in Nat
  BY TimeBound DEF ContentsInv
<1>4. ASSUME NEW r \in Ranks
      PROVE  /\ Len(log'[r]) = Len(log[r]) + 1 /\ Len(log[r]) \in Nat
             /\ \A n \in 1 .. (Len(log[r]) + 1) :
                  \/ n \in 1 .. Len(log[r]) /\ log'[r][n].time = log[r][n].time
                  \/ n = Len(log[r]) + 1 /\ log'[r][n].time = time
  <2> DEFINE e == Record(r)
             lg == log[r]
             al == log'[r]
  <2>1. e.time = time /\ IsList(lg) /\ al = Append(lg, e)
    BY <1>1, BodList DEF Record
  <2> HIDE DEF e, lg, al
  <2>2. /\ Len(al) = Len(lg) + 1 /\ Len(lg) \in Nat
        /\ \A n \in 1 .. Len(lg) : al[n] = lg[n]
        /\ al[Len(lg) + 1] = e
    BY <2>1, AppendList DEF IsList
  <2>3. \A n \in 1 .. (Len(lg) + 1) : n \in 1 .. Len(lg) \/ n = Len(lg) + 1
    BY <2>2
  <2>4. /\ Len(al) = Len(lg) + 1 /\ Len(lg) \in Nat
        /\ \A n \in 1 .. (Len(lg) + 1) :
             \/ n \in 1 .. Len(lg) /\ al[n].time = lg[n].time
             \/ n = Len(lg) + 1 /\ al[n].time = time
    BY <2>1, <2>2, <2>3
  <2> QED
    BY <2>4 DEF lg, al
<1>5. ASSUME NEW r \in Ranks, NEW q \in Ranks
      PROVE  /\ Len(log'[r]) = Len(log'[q])
             /\ \A n \in 1 .. Len(log'[r]) : log'[r][n].time = log'[q][n].time
  <2>1. /\ Len(log[r]) = Len(log[q])
        /\ \A n \in 1 .. Len(log[r]) : log[r][n].time = log[q][n].time
    BY <1>2 DEF LogsFit
  <2>2. Len(log'[r]) = Len(log[r]) + 1 /\ Len(log'[q]) = Len(log[r]) + 1 /\ Len(log[r]) \in Nat
    BY <1>4, <2>1
  <2>3. ASSUME NEW n \in 1 .. (Len(log[r]) + 1)
        PROVE  log'[r][n].time = log'[q][n].time
    <3>1. CASE n \in 1 .. Len(log[r])
      <4>1. log'[r][n].time = log[r][n].time
        BY <1>4, <2>2, <3>1
      <4>2. n \in 1 .. (Len(log[q]) + 1) /\ ~(n = Len(log[q]) + 1)
        BY <2>1, <2>2, <3>1
      <4>3. log'[q][n].time = log[q][n].time
        BY <1>4, <4>2
      <4> QED
        BY <2>1, <3>1, <4>1, <4>3
    <3>2. CASE n = Len(log[r]) + 1
      <4>1. log'[r][n].time = time
        BY <1>4, <2>2, <3>2
      <4>2. n \in 1 .. (Len(log[q]) + 1) /\ ~(n \in 1 .. Len(log[q]))
        BY <2>1, <2>2, <3>2
      <4>3. log'[q][n].time = time
        BY <1>4, <4>2
      <4> QED
        BY <4>1, <4>3
    <3> QED
      BY <2>2, <3>1, <3>2
  <2> QED
    BY <2>2, <2>3
<1>6. ASSUME NEW r \in Ranks, NEW n \in 1 .. Len(log'[r])
      PROVE  log'[r][n].time \in 0 .. MaxTime
  BY <1>2, <1>3, <1>4 DEF LogsFit
<1>7. ASSUME NEW r \in Ranks, NEW i \in 1 .. Len(log'[r]), NEW j \in 1 .. Len(log'[r]),
             i < j
      PROVE  IF j < Len(log'[r]) THEN log'[r][i].time < log'[r][j].time
             ELSE log'[r][i].time <= log'[r][j].time
  <2>1. /\ i \in 1 .. Len(log[r]) /\ log'[r][i].time = log[r][i].time
        /\ Len(log'[r]) = Len(log[r]) + 1 /\ Len(log[r]) \in Nat
    BY <1>4, <1>7
  <2>2. CASE j \in 1 .. Len(log[r])
    <3>1. log'[r][j].time = log[r][j].time /\ j < Len(log'[r])
      BY <1>4, <2>1, <2>2
    <3>2. log[r][i].time < log[r][j].time
      BY <1>2, <1>7, <2>1, <2>2 DEF LogsFit
    <3> QED
      BY <2>1, <3>1, <3>2
  <2>3. CASE j \notin 1 .. Len(log[r])
    <3>1. log'[r][j].time = time /\ ~(j < Len(log'[r]))
      BY <1>4, <2>1, <2>3
    <3> QED
      BY <1>2, <2>1, <3>1
  <2> QED
    BY <2>2, <2>3
<1> QED
  BY <1>5, <1>6, <1>7 DEF LogsFit

LEMMA LogsNext ==
  ASSUME Inv, TimesInv, BodiesInv, ContentsInv, LogsInv,
         Inv', TimesInv', ContentsInv', [Next]_allvars
  PROVE  LogsInv'
<1>0. /\ LogsFit(log', TRUE) => LogsFit(log', FALSE) /\ LogsInv'
      /\ Ranks' = Ranks
  <2>1. LogsFit(log', TRUE) => LogsFit(log', FALSE)
    BY FitLoosely
  <2> QED
    BY <2>1 DEF LogsInv, LogsFit, Ranks
<1>1. CASE pc' \in Running
  <2>1. AllOpen' /\ pc' \notin Broken
    BY <1>1 DEF Inv, FilesInv, Running, Broken
  <2> QED
    BY <1>0, <2>1, LogsKept
<1>2. CASE UNCHANGED vars
  <2>1. Refused => Refused'
    BY <1>2, RefusedStays DEF vars
  <2> QED
    BY <1>2, <2>1 DEF vars, LogsInv, LogsFit, Ranks
<1>3. CASE SOLFEC_Destroy
  <2>1. AllOpen
    BY <1>3 DEF Inv, FilesInv, SOLFEC_Destroy, Running
  <2>2. PICK W, s : Recording(W, s)
    BY <1>3 DEF SOLFEC_Destroy
  <2>3. AllOpen' /\ pc' \notin Broken
    BY <1>3, <2>1, <2>2, RecordingOpen DEF SOLFEC_Destroy, Broken
  <2> QED
    BY <1>0, <2>3, LogsKept
<1>4. ASSUME log' = log, Refused => Refused', pc \in Broken => pc' \in Broken
      PROVE  LogsInv'
  <2>1. CASE Refused
    BY <1>4, <2>1 DEF LogsInv
  <2>2. CASE LogsFit(log, pc \notin Broken)
    <3>1. CASE pc \in Broken
      <4>1. LogsFit(log, FALSE)
        BY <2>2, <3>1
      <4> QED
        BY <1>4, <3>1, <4>1 DEF LogsInv, LogsFit, Ranks
    <3>2. CASE pc \notin Broken
      <4>1. LogsFit(log, TRUE)
        BY <2>2, <3>2
      <4> QED
        BY <1>0, <1>4, <4>1
    <3> QED
      BY <3>1, <3>2
  <2> QED
    BY <2>1, <2>2 DEF LogsInv
<1>5. CASE \E r \in Ranks : Close(r)
  <2>1. Refused => Refused'
    BY <1>5, RefusedStays
  <2>2. log' = log /\ (pc \in Broken => pc' \in Broken)
    BY <1>5 DEF Close, Broken
  <2> QED
    BY <1>4, <2>1, <2>2
<1>6. CASE \E lost \in [Ranks -> Losses] : Crash(lost)
  <2>1. Refused => Refused'
    BY <1>6, RefusedStays
  <2>2. log' = log /\ (pc \in Broken => pc' \in Broken)
    BY <1>6 DEF Crash, Broken
  <2> QED
    BY <1>4, <2>1, <2>2
<1>9. ASSUME NEW S \in SUBSET Ranks, NEW lost \in [Ranks \ S -> Losses],
             SOLFEC_Abort(S, lost)
      PROVE  LogsInv'
  <2>1. CASE S = Ranks
    <3>1. LogsFit(log', FALSE) /\ pc' \in Broken
      BY <1>9, <2>1, AbortLogs DEF SOLFEC_Abort, Broken
    <3> QED
      BY <3>1 DEF LogsInv, LogsFit, Ranks
  <2>2. CASE S # Ranks
    <3>1. Refused'
      BY <1>9, <2>2, AbortRefused
    <3> QED
      BY <3>1 DEF LogsInv
  <2> QED
    BY <2>1, <2>2
<1>7. CASE Write
  <2>1. CASE \E interval \in [Ranks -> Intervals] : SOLFEC_Output(interval)
    BY <1>1, <2>1 DEF SOLFEC_Output, Running
  <2>2. CASE \E S \in SUBSET Ranks, interval \in [Ranks -> Intervals] :
               SOLFEC_Set_Callback(S, interval)
    BY <1>1, <2>2 DEF SOLFEC_Set_Callback, Running
  <2>3. CASE \E b \in Movers \cup {0}, to \in Ranks,
                gone, cracked \in SUBSET Parents, parts \in Parts :
                gone \cap cracked = {} /\ Step(b, to, gone, cracked, parts)
    BY <1>1, <2>3 DEF Step, Running
  <2>4. CASE \E S \in SUBSET Parents, create, go \in BOOLEAN : Callback(S, create, go)
    BY <1>1, <2>4 DEF Callback, Running
  <2>5. CASE \E duration \in 1 .. MaxTime : Run(duration)
    BY <1>1, <2>5 DEF Run, Running
  <2>6. CASE Output \/ RecordLast
    BY <1>1, <2>6 DEF Output, RecordLast, Running
  <2> QED
    BY <1>3, <1>5, <1>6, <1>7, <1>9, <2>1, <2>2, <2>3, <2>4, <2>5, <2>6 DEF Write
<1>8. CASE Read
  <2>1. UNCHANGED vars
    BY <1>8 DEF Read, Open, SOLFEC_Seek_To, SOLFEC_Forward, SOLFEC_Backward,
                SOLFEC_Time_Skip, SOLFEC_History, Becomes, Stopped, allvars
  <2> QED
    BY <1>2, <2>1
<1> QED
  BY <1>2, <1>7, <1>8 DEF Next, allvars

LEMMA LogsInit == ResultsInit => LogsInv
BY DEF ResultsInit, Init, LogsInv, LogsFit, Broken

-----------------------------------------------------------------------------
(* What a reader finds in a closed file.                                   *)

LEMMA LabelRead ==
  ASSUME NEW f, Typed(f), NEW n \in 1 .. Len(f.idx), NEW name
  PROVE  /\ (\E p \in Nat : <<name, p>> \in Entries(f, n)) => HasLabel(f, n - 1, name)
         /\ HasLabel(f, n - 1, name) =>
              /\ <<name, LabelPos(f, n - 1, name)>> \in Entries(f, n)
              /\ LabelPos(f, n - 1, name) \in Nat
<1> DEFINE m == f.idx[n]
           N == Len(m.labels)
           R == Records(f, n - 1, name)
<1>0. m \in MarkerType
  BY DEF Typed
<1>1. m.labels \in Seq(Nat \X Nat) /\ n - 1 + 1 = n
  BY <1>0, MarkerParts
<1>2. N \in Nat /\ DOMAIN m.labels = 1 .. N /\ \A i \in 1 .. N : m.labels[i] \in Nat \X Nat
  BY <1>1
<1>3. R = {i \in 1 .. N : f.lab[m.labels[i][1]] = name}
  BY <1>1, <1>2 DEF Records
<1>4. Entries(f, n) = {<<f.lab[m.labels[i][1]], m.labels[i][2]>> : i \in 1 .. N}
  BY DEF Entries
<1>5. /\ HasLabel(f, n - 1, name) <=> R # {}
      /\ LabelPos(f, n - 1, name)
           = LET i == CHOOSE i \in R : \A j \in R : j <= i IN m.labels[i][2]
  BY <1>1 DEF HasLabel, LabelPos
<1> HIDE DEF m, N, R
<1>6. ASSUME R # {}
      PROVE  \E i \in R : \A j \in R : j <= i
  <2> DEFINE S == {N - i : i \in R}
  <2>1. S \subseteq Nat /\ S # {}
    BY <1>2, <1>3, <1>6
  <2>2. PICK s \in S : \A x \in S : ~ (<<x, s>> \in NatLess)
    BY ONLY <2>1, NatLessWellFounded, WFMin
  <2>3. PICK i \in R : s = N - i
    BY <2>2
  <2>4. ASSUME NEW j \in R
        PROVE  j <= i
    <3>1. N - j \in S /\ N - j \in Nat /\ s \in Nat /\ i \in 1 .. N /\ j \in 1 .. N
      BY <1>2, <1>3, <2>1, <2>3
    <3>2. ~ (N - j < s)
      BY <2>2, <3>1 DEF NatLess
    <3> QED
      BY <1>2, <2>3, <3>1, <3>2
  <2> QED
    BY <2>4
<1>7. ASSUME NEW p \in Nat, <<name, p>> \in Entries(f, n)
      PROVE  R # {}
  BY <1>3, <1>4, <1>7
<1>8. ASSUME R # {}
      PROVE  /\ <<name, LabelPos(f, n - 1, name)>> \in Entries(f, n)
             /\ LabelPos(f, n - 1, name) \in Nat
  <2> DEFINE i == CHOOSE i \in R : \A j \in R : j <= i
  <2>1. i \in R
    BY <1>6, <1>8
  <2>2. LabelPos(f, n - 1, name) = m.labels[i][2]
    BY <1>5
  <2> HIDE DEF i
  <2> QED
    BY <1>2, <1>3, <1>4, <2>1, <2>2
<1> QED
  BY <1>5, <1>7, <1>8

LEMMA SubSeqAt ==
  ASSUME NEW s \in Seq(Nat), NEW a \in Nat, NEW b \in Nat, b <= Len(s)
  PROVE  \A i \in Nat \ {0} : a + i <= b => SubSeq(s, a + 1, b)[i] = s[a + i]
<1> SUFFICES ASSUME NEW i \in Nat \ {0}, a + i <= b
             PROVE  SubSeq(s, a + 1, b)[i] = s[a + i]
  OBVIOUS
<1>1. a + 1 \in 1 .. (Len(s) + 1) /\ b \in 0 .. Len(s) /\ Len(s) \in Nat
      /\ i \in 1 .. (b - (a + 1) + 1)
  OBVIOUS
<1> QED
  BY <1>1

(* The bodies of a recorded state, as they are read.                       *)
BodiesOf(list, e) ==
  \E bod \in Seq(Nat) :
    /\ Range(bod) = DOMAIN e.bod
    /\ list = [i \in 1 .. Len(bod) |-> <<bod[i], e.time>>]

LEMMA BodiesRead ==
  ASSUME NEW f, Typed(f), f.mem = <<>>, NEW n \in 1 .. (Len(f.idx) - 1), NEW e,
         Holds(f, n, e), HasLabel(f, n - 1, "BODS")
  PROVE  BodiesOf(Bodies(f, n - 1), e)
<1> DEFINE p == LabelPos(f, n - 1, "BODS")
           a == f.idx[n].doff
           b == f.idx[n + 1].doff
           D == f.dat
           F == FrameData(f, n - 1)
<1>1. /\ n \in 1 .. Len(f.idx) /\ n + 1 \in 1 .. Len(f.idx) /\ Len(f.idx) \in Nat
      /\ n - 1 + 1 = n /\ n - 1 + 2 = n + 1 /\ n < Len(f.idx)
  BY DEF Typed
<1>0. f.idx[n] \in MarkerType /\ f.idx[n + 1] \in MarkerType /\ D \in Seq(Nat)
  BY <1>1 DEF Typed
<1>2. /\ D \in Seq(Nat) /\ a \in Nat /\ b \in Nat
  BY <1>0, MarkerParts
<1>3. Data(f) = D
  BY <1>2 DEF Data
<1>4. EndOf(f, n) = b /\ b <= Len(D)
  BY <1>1, <1>3 DEF EndOf, Holds
<1>5. p \in Nat /\ <<"BODS", p>> \in Entries(f, n)
  BY <1>1, LabelRead
<1>6. BodiesAt(f, a + p, b, e)
  BY <1>4, <1>5 DEF Holds
<1>7. F = SubSeq(D, a + 1, b)
  BY <1>1 DEF FrameData
<1>8. Bodies(f, n - 1) = [i \in 1 .. F[p + 1] |-> <<F[p + 2 * i], F[p + 2 * i + 1]>>]
  BY DEF Bodies
<1> HIDE DEF p, a, b, D, F
<1>9. PICK bod \in Seq(Nat) :
        /\ Range(bod) = DOMAIN e.bod
        /\ a + p + 1 + 2 * Len(bod) <= b
        /\ D[a + p + 1] = Len(bod)
        /\ \A k \in 1 .. Len(bod) : /\ D[a + p + 2 * k] = bod[k]
                                    /\ D[a + p + 2 * k + 1] = e.time
  BY <1>3, <1>6 DEF BodiesAt
<1>10. \A i \in Nat \ {0} : a + i <= b => F[i] = D[a + i]
  BY <1>2, <1>4, <1>7, SubSeqAt
<1>11. /\ a \in Nat /\ b \in Nat /\ p \in Nat
       /\ Len(bod) \in Nat /\ a + p + 1 + 2 * Len(bod) <= b
  BY <1>2, <1>5, <1>9
<1>12. F[p + 1] = Len(bod)
  <2>1. p + 1 \in Nat \ {0} /\ a + (p + 1) <= b /\ a + (p + 1) = a + p + 1
    BY ONLY <1>11
  <2> QED
    BY <1>9, <1>10, <2>1
<1>13. ASSUME NEW k \in 1 .. Len(bod)
       PROVE  F[p + 2 * k] = bod[k] /\ F[p + 2 * k + 1] = e.time
  <2>1. /\ p + 2 * k \in Nat \ {0} /\ a + (p + 2 * k) <= b /\ a + (p + 2 * k) = a + p + 2 * k
        /\ p + 2 * k + 1 \in Nat \ {0} /\ a + (p + 2 * k + 1) <= b
        /\ a + (p + 2 * k + 1) = a + p + 2 * k + 1
    BY ONLY <1>11, k \in 1 .. Len(bod)
  <2> QED
    BY <1>9, <1>10, <2>1
<1>14. Bodies(f, n - 1) = [i \in 1 .. Len(bod) |-> <<bod[i], e.time>>]
  BY <1>8, <1>12, <1>13
<1> QED
  BY <1>9, <1>14 DEF BodiesOf

-----------------------------------------------------------------------------
(* The output of a run, as a reader finds it that accepts it.              *)

InputBodies == [b \in 1 .. InitBodies |-> <<0, b>>]

(* All bodies that the reader knows in the end.                            *)
All == read_new_bodies(InputBodies)

Count == Len(log[0])

FrameTime(n) == log[0][n + 1].time

BodiesIn(n) == UNION {DOMAIN log[r][n + 1].bod : r \in Ranks}

(* Frame n of the file of a rank, and the state that was recorded in it:   *)
(* what the index has of it, and what is found in its data.                *)
FrameKnown(f, n, e) ==
  /\ TimeOf(f, n) = FrameTime(n) /\ e.time = FrameTime(n)
  /\ \A b \in DOMAIN e.bod : b \in DOMAIN All /\ All[b] = e.bod[b]

FrameRead(f, n, e) ==
  /\ HasLabel(f, n, "DOM") /\ HasLabel(f, n, "TIMERS")
  /\ n = 0 => HasLabel(f, n, "IOVER")
  /\ BodiesOf(Bodies(f, n), e)

FrameWhole(n) == \A r \in Ranks : Complete(file[r], n)

(* Only the last two frames may have the same time, after an abort.        *)
Sorted(strict) ==
  \A i, j \in 0 .. (Count - 1) :
    i < j => IF strict \/ j < Count - 1 THEN FrameTime(i) < FrameTime(j)
             ELSE FrameTime(i) <= FrameTime(j)

OutputReadable ==
  /\ Count \in Nat \ {0}
  /\ Sorted(pc = "closed")
  /\ DOMAIN All \subseteq Ids /\ 1 .. InitBodies \subseteq DOMAIN All
  /\ \A n \in 0 .. (Count - 1) : FrameTime(n) \in 0 .. MaxTime
  /\ \A r \in Ranks :
       /\ Size(file[r]) = Count
       /\ \A n \in 0 .. (Count - 1) :
            /\ FrameKnown(file[r], n, log[r][n + 1])
            /\ Complete(file[r], n) => FrameRead(file[r], n, log[r][n + 1])
  /\ FrameWhole(0)
  /\ pc # "crashed" => \A n \in 0 .. (Count - 1) : FrameWhole(n)

LEMMA LeastIn ==
  ASSUME NEW S, S \subseteq Nat, S # {}
  PROVE  Min(S) \in S
<1>1. PICK n \in S : \A m \in S : ~ (<<m, n>> \in NatLess)
  BY ONLY S \subseteq Nat, S # {}, NatLessWellFounded, WFMin
<1>2. \A m \in S : n <= m
  <2>1. ASSUME NEW m \in S
        PROVE  n <= m
    <3>1. m \in Nat /\ n \in Nat
      OBVIOUS
    <3>2. m < n => <<m, n>> \in NatLess
      BY <3>1 DEF NatLess
    <3> QED
      BY <1>1, <3>1, <3>2
  <2> QED
    BY <2>1
<1> QED
  BY <1>2 DEF Min

LEMMA AllBodies ==
  ASSUME BodiesInv, NEW names, Known(names)
  PROVE  /\ DOMAIN All = 1 .. InitBodies \cup OnFile
         /\ DOMAIN All \subseteq Ids
         /\ \A b \in DOMAIN All : All[b] = names[b]
<1> DEFINE first(b) == Min({r \in Ranks : b \in DOMAIN bodfile[r]})
<1>1. All = [b \in DOMAIN InputBodies \cup OnFile |->
               IF b \in DOMAIN InputBodies THEN InputBodies[b] ELSE bodfile[first(b)][b]]
  BY DEF All, read_new_bodies, OnFile
<1>2. DOMAIN InputBodies = 1 .. InitBodies /\ \A b \in 1 .. InitBodies : InputBodies[b] = <<0, b>>
  BY DEF InputBodies
<1>3. ASSUME NEW b \in OnFile
      PROVE  bodfile[first(b)][b] = names[b]
  <2> DEFINE S == {r \in Ranks : b \in DOMAIN bodfile[r]}
  <2>1. S \subseteq Nat /\ S # {}
    BY <1>3, OutputAssumption DEF OnFile, Ranks
  <2> HIDE DEF S
  <2>2. Min(S) \in S
    BY <2>1, LeastIn
  <2> QED
    BY <2>2 DEF S, Known, Written
<1> HIDE DEF first
<1>4. 1 .. InitBodies \subseteq Ids
  BY OutputAssumption DEF Ids
<1>5. OnFile \subseteq Ids
  BY OutputAssumption DEF BodiesInv, Within, OnFile, Ids
<1> QED
  BY <1>1, <1>2, <1>3, <1>4, <1>5 DEF Known

(* A file that a reader accepts has the index of all that its rank has     *)
(* recorded and, unless the process has died, the data too.                *)
LEMMA AcceptedFile ==
  ASSUME Inv, BodiesInv, ContentsInv, pc \in Ended, NEW r \in Ranks, Readable(file[r])
  PROVE  /\ FoundFile(file[r], log[r]) /\ Complete(file[r], 0)
         /\ pc # "crashed" => \A n \in 1 .. Len(log[r]) : Complete(file[r], n - 1)
<1> DEFINE f == file[r]
<1>1. /\ IsOpen(f) \/ IsFinal(f) \/ IsDead(f)
      /\ pc # "crashed" => ~IsDead(f)
      /\ Left(f) /\ FileKept(r) /\ IsList(log[r]) /\ Intact(f) /\ Complete(f, 0)
  BY DEF Inv, FilesInv, Ended, ContentsInv, BodiesInv, Readable
<1>2. CASE f.stage = "dead"
  BY <1>1, <1>2 DEF FileKept, IsDead, IsOpen, IsFinal, Finals
<1>3. CASE f.stage = "closed"
  <2>1. Typed(f) /\ ClosedFile(f, log[r]) /\ f.mem = <<>>
    BY <1>1, <1>3 DEF FileKept, IsDead, IsOpen, IsFinal, Finals
  <2> QED
    BY <1>1, <2>1, ClosedFound
<1> QED
  BY <1>1, <1>2, <1>3 DEF Left, IsDead

LEMMA OutputRead ==
  ASSUME Inv, BodiesInv, ContentsInv, LogsInv, pc \in Ended,
         \A r \in Ranks : Readable(file[r])
  PROVE  OutputReadable
<1>0. ~Refused
  BY DEF Refused, Readable
<1>1. PICK names : Known(names)
  BY DEF BodiesInv
<1>2. /\ DOMAIN All = 1 .. InitBodies \cup OnFile
      /\ DOMAIN All \subseteq Ids
      /\ \A b \in DOMAIN All : All[b] = names[b]
  BY <1>1, AllBodies
<1>3. LogsFit(log, pc = "closed") /\ Found
  <2>1. LogsFit(log, pc \notin Broken)
    BY <1>0 DEF LogsInv
  <2>2. pc \notin Broken <=> pc = "closed"
    BY DEF Broken, Ended
  <2>3. Found
    BY <1>0 DEF BodiesInv
  <2> QED
    BY <2>1, <2>2, <2>3 DEF LogsFit
<1>4. ASSUME NEW r \in Ranks
      PROVE  /\ Typed(file[r]) /\ file[r].mem = <<>> /\ Len(file[r].idx) \in Nat
             /\ Len(log[r]) = Count /\ Len(file[r].idx) = Count + 1
             /\ Count \in Nat \ {0}
             /\ \A n \in 1 .. Count :
                  /\ file[r].idx[n].time = log[r][n].time
                  /\ Complete(file[r], n - 1) => Holds(file[r], n, log[r][n])
             /\ Complete(file[r], 0)
             /\ pc # "crashed" => \A n \in 1 .. Count : Complete(file[r], n - 1)
  <2>1. /\ FoundFile(file[r], log[r]) /\ Complete(file[r], 0)
        /\ pc # "crashed" => \A n \in 1 .. Len(log[r]) : Complete(file[r], n - 1)
    BY AcceptedFile
  <2>2. Len(log[r]) = Count
    BY <1>3, ZeroRank DEF LogsFit, Count
  <2>3. Len(file[r].idx) \in Nat
    BY <2>1 DEF FoundFile, Typed
  <2> QED
    BY <2>1, <2>2, <2>3 DEF FoundFile
<1>5. ASSUME NEW r \in Ranks, NEW n \in 0 .. (Count - 1)
      PROVE  /\ FrameKnown(file[r], n, log[r][n + 1])
             /\ Complete(file[r], n) => FrameRead(file[r], n, log[r][n + 1])
             /\ FrameTime(n) \in 0 .. MaxTime
             /\ pc # "crashed" => Complete(file[r], n)
  <2> DEFINE f == file[r]
             e == log[r][n + 1]
  <2>1. /\ n + 1 \in 1 .. Count /\ n + 1 \in 1 .. Len(log[r]) /\ n + 1 \in 1 .. Len(log[0])
        /\ n + 1 \in 1 .. Len(f.idx) /\ n + 1 \in 1 .. (Len(f.idx) - 1) /\ n + 1 - 1 = n
    BY <1>4 DEF Count
  <2>2. /\ Typed(f) /\ f.mem = <<>> /\ f.idx[n + 1].time = e.time
        /\ Complete(f, n) => Holds(f, n + 1, e)
        /\ pc # "crashed" => Complete(f, n)
    BY <1>4, <2>1
  <2>3. e.time = FrameTime(n) /\ FrameTime(n) \in 0 .. MaxTime
    BY <1>3, <2>1, ZeroRank DEF LogsFit, FrameTime
  <2>4. TimeOf(f, n) = e.time
    BY <2>2 DEF TimeOf
  <2>5. \A name : (\E p \in Nat : <<name, p>> \in Entries(f, n + 1)) => HasLabel(f, n, name)
    <3> HIDE DEF f, e
    <3>1. PICK k \in 1 .. Len(f.idx) : k = n + 1 /\ k - 1 = n
      BY <2>1
    <3>2. ASSUME NEW name
          PROVE  (\E p \in Nat : <<name, p>> \in Entries(f, k)) => HasLabel(f, k - 1, name)
      BY ONLY <2>2, LabelRead
    <3> QED
      BY <3>1, <3>2
  <2>6. ASSUME Complete(f, n)
        PROVE  FrameRead(f, n, e)
    <3>1. Holds(f, n + 1, e)
      BY <2>2, <2>6
    <3>2. /\ HasLabel(f, n, "DOM") /\ HasLabel(f, n, "TIMERS") /\ HasLabel(f, n, "BODS")
          /\ n = 0 => HasLabel(f, n, "IOVER")
      BY <3>1, <2>5 DEF Holds
    <3>3. BodiesOf(Bodies(f, n), e)
      <4>1. HasLabel(f, n + 1 - 1, "BODS")
        BY <2>1, <3>2
      <4>2. Typed(f) /\ f.mem = <<>>
        BY <2>2
      <4>3. PICK k \in 1 .. (Len(f.idx) - 1) : k = n + 1 /\ k - 1 = n
        BY <2>1
      <4> HIDE DEF f, e
      <4>4. BodiesOf(Bodies(f, k - 1), e)
        BY <3>1, <4>1, <4>2, <4>3, BodiesRead
      <4> QED
        BY <4>3, <4>4
    <3> QED
      BY <3>2, <3>3 DEF FrameRead
  <2>7. ASSUME NEW b \in DOMAIN e.bod
        PROVE  b \in DOMAIN All /\ All[b] = e.bod[b]
    <3>1. b \in 1 .. MaxId /\ (b > InitBodies => b \in OnFile)
      BY <1>3, <2>1, OutputAssumption DEF BodiesInv, Within, Found
    <3>2. b \in DOMAIN All
      BY <1>2, <3>1, OutputAssumption
    <3>3. e.bod[b] = names[b]
      BY <1>1, <2>1 DEF Known, Written
    <3> QED
      BY <1>2, <3>2, <3>3
  <2> QED
    BY <2>2, <2>3, <2>4, <2>6, <2>7 DEF FrameKnown
<1>6. \A r \in Ranks : Size(file[r]) = Count
  BY <1>4 DEF Size
<1>7. ASSUME NEW i \in 0 .. (Count - 1), NEW j \in 0 .. (Count - 1), i < j
      PROVE  IF pc = "closed" \/ j < Count - 1 THEN FrameTime(i) < FrameTime(j)
             ELSE FrameTime(i) <= FrameTime(j)
  <2>1. /\ i + 1 \in 1 .. Len(log[0]) /\ j + 1 \in 1 .. Len(log[0]) /\ i + 1 < j + 1
        /\ Count = Len(log[0]) /\ Count \in Nat
    BY <1>4, <1>7, ZeroRank DEF Count
  <2>2. IF pc = "closed" \/ j + 1 < Len(log[0]) THEN log[0][i + 1].time < log[0][j + 1].time
        ELSE log[0][i + 1].time <= log[0][j + 1].time
    <3> HIDE DEF Count
    <3>1. PICK k \in 1 .. Len(log[0]) : k = i + 1
      BY <2>1
    <3>2. PICK l \in 1 .. Len(log[0]) : l = j + 1
      BY <2>1
    <3>3. k < l
      BY <2>1, <3>1, <3>2
    <3>4. IF pc = "closed" \/ l < Len(log[0]) THEN log[0][k].time < log[0][l].time
          ELSE log[0][k].time <= log[0][l].time
      BY <1>3, <3>3, ZeroRank DEF LogsFit
    <3> QED
      BY <3>1, <3>2, <3>4
  <2>3. j < Count - 1 <=> j + 1 < Len(log[0])
    BY <2>1
  <2> QED
    BY <2>2, <2>3 DEF FrameTime
<1>8. Sorted(pc = "closed")
  BY <1>7 DEF Sorted
<1> QED
  BY <1>2, <1>4, <1>5, <1>6, <1>8, ZeroRank DEF OutputReadable, FrameWhole

(* The list that is read of frame n: its bodies with the time of it.       *)
FrameList(list, n) ==
  /\ list \in Seq(Ids \X {FrameTime(n)})
  /\ {x[1] : x \in Range(list)} = BodiesIn(n)

LEMMA RecordedList ==
  ASSUME OutputReadable, NEW n \in 0 .. (Count - 1), FrameWhole(n),
         NEW cur, cur = [r \in Ranks |-> n]
  PROVE  FrameList(Recorded(cur), n)
<1> DEFINE T == Ids \X {FrameTime(n)}
           seqs == [i \in 1 .. NP |->
                      IF HasLabel(file[i - 1], cur[i - 1], "DOM")
                      THEN Bodies(file[i - 1], cur[i - 1]) ELSE <<>>]
<1>1. NP \in Nat \ {0} /\ \A i \in 1 .. NP : i - 1 \in Ranks
  BY OutputAssumption DEF Ranks
<1>2. ASSUME NEW i \in 1 .. NP
      PROVE  /\ seqs[i] \in Seq(T)
             /\ {x[1] : x \in Range(seqs[i])} = DOMAIN log[i - 1][n + 1].bod
  <2> DEFINE r == i - 1
             e == log[r][n + 1]
             s == Bodies(file[r], n)
  <2>1. r \in Ranks /\ FrameKnown(file[r], n, e) /\ FrameRead(file[r], n, e)
    BY <1>1 DEF OutputReadable, FrameWhole
  <2>2. cur[r] = n
    BY <2>1
  <2>3. seqs[i] = s
    BY <2>1, <2>2 DEF FrameRead
  <2>4. /\ BodiesOf(s, e) /\ e.time = FrameTime(n)
        /\ DOMAIN e.bod \subseteq Ids
    BY <2>1 DEF FrameRead, FrameKnown, OutputReadable
  <2> HIDE DEF seqs, r, e, s, T
  <2>5. PICK bod \in Seq(Nat) :
          /\ Range(bod) = DOMAIN e.bod
          /\ s = [k \in 1 .. Len(bod) |-> <<bod[k], e.time>>]
    BY <2>4 DEF BodiesOf
  <2>6. /\ Len(bod) \in Nat /\ DOMAIN bod = 1 .. Len(bod)
        /\ \A k \in 1 .. Len(bod) : bod[k] \in DOMAIN e.bod
    BY <2>5 DEF Range
  <2>7. s \in [1 .. Len(bod) -> T]
    BY <2>4, <2>5, <2>6 DEF T
  <2>8. s \in Seq(T)
    BY <2>6, <2>7
  <2>9. {x[1] : x \in Range(s)} = Range(bod)
    <3>1. DOMAIN s = 1 .. Len(bod) /\ \A k \in 1 .. Len(bod) : s[k][1] = bod[k]
      BY <2>5
    <3>2. Range(s) = {s[k] : k \in 1 .. Len(bod)} /\ Range(bod) = {bod[k] : k \in 1 .. Len(bod)}
      BY <2>6, <3>1 DEF Range
    <3> QED
      BY <3>1, <3>2
  <2> QED
    BY <2>3, <2>5, <2>8, <2>9 DEF e, r
<1>3. Recorded(cur) = FlattenSeq(seqs)
  BY DEF Recorded
<1>4. DOMAIN seqs = 1 .. NP
  OBVIOUS
<1> HIDE DEF seqs, T
<1>5. seqs \in Seq(Seq(T)) /\ Len(seqs) = NP
  <2>1. seqs \in [1 .. NP -> Seq(T)]
    <3>1. seqs = [i \in 1 .. NP |-> seqs[i]]
      BY DEF seqs
    <3> QED
      BY <1>2, <3>1
  <2> QED
    BY <1>1, <2>1
<1>6. FlattenSeq(seqs) \in Seq(T)
  BY <1>5, FlattenList
<1>7. Range(FlattenSeq(seqs)) = UNION {Range(seqs[i]) : i \in 1 .. NP}
  BY <1>5, FlattenRange
<1>8. {x[1] : x \in Range(FlattenSeq(seqs))} = UNION {DOMAIN log[i - 1][n + 1].bod : i \in 1 .. NP}
  BY <1>2, <1>7
<1>9. UNION {DOMAIN log[i - 1][n + 1].bod : i \in 1 .. NP} = BodiesIn(n)
  <2>1. ASSUME NEW x \in UNION {DOMAIN log[i - 1][n + 1].bod : i \in 1 .. NP}
        PROVE  x \in BodiesIn(n)
    BY <1>1 DEF BodiesIn
  <2>2. ASSUME NEW x \in BodiesIn(n)
        PROVE  x \in UNION {DOMAIN log[i - 1][n + 1].bod : i \in 1 .. NP}
    <3>1. PICK r \in Ranks : x \in DOMAIN log[r][n + 1].bod
      BY DEF BodiesIn
    <3>2. PICK i : i = r + 1
      OBVIOUS
    <3>3. i \in 1 .. NP /\ i - 1 = r
      BY <1>1, <3>2 DEF Ranks
    <3>4. log[i - 1] = log[r]
      BY <3>3
    <3> QED
      BY <3>1, <3>3, <3>4
  <2> QED
    BY <2>1, <2>2
<1> QED
  BY <1>3, <1>6, <1>8, <1>9 DEF FrameList, T

-----------------------------------------------------------------------------
(* The domain of the reader.                                               *)

ViewType ==
  [status : {"none", "open", "refused"}, cur : [Ranks -> Nat], known : BOOLEAN,
   failed : BOOLEAN, hung : BOOLEAN, stale : BOOLEAN, time : 0 .. MaxTime,
   all : {InputBodies, All}, allread : BOOLEAN, idb : SUBSET Ids, nbod : Int,
   absent : SUBSET Ids, bod : 0 .. MaxId, next : [Ids -> 0 .. MaxId],
   prev : [Ids -> 0 .. MaxId], state : [Ids -> 0 .. MaxTime], shown : [Ranks -> Nat]]

(* What the list of bodies does not concern.                               *)
SameFrame(v, w) ==
  /\ w.status = v.status /\ w.cur = v.cur /\ w.known = v.known
  /\ w.failed = v.failed /\ w.time = v.time
  /\ w.all = v.all /\ w.allread = v.allread /\ w.shown = v.shown

LEMMA IdsNat == MaxId \in Nat /\ \A b \in Ids : b \in 0 .. MaxId /\ b # 0
BY OutputAssumption DEF Ids

ViewFields(v) ==
  v = [status |-> v.status, cur |-> v.cur, known |-> v.known, failed |-> v.failed,
       hung |-> v.hung, stale |-> v.stale, time |-> v.time, all |-> v.all,
       allread |-> v.allread, idb |-> v.idb, nbod |-> v.nbod, absent |-> v.absent,
       bod |-> v.bod, next |-> v.next, prev |-> v.prev, state |-> v.state,
       shown |-> v.shown]

LEMMA ViewParts ==
  ASSUME NEW v
  PROVE  v \in ViewType <=>
           /\ ViewFields(v)
           /\ v.status \in {"none", "open", "refused"}
           /\ v.cur \in [Ranks -> Nat] /\ v.shown \in [Ranks -> Nat]
           /\ v.known \in BOOLEAN /\ v.failed \in BOOLEAN /\ v.hung \in BOOLEAN
           /\ v.stale \in BOOLEAN /\ v.allread \in BOOLEAN
           /\ v.time \in 0 .. MaxTime /\ v.all \in {InputBodies, All}
           /\ v.idb \subseteq Ids /\ v.absent \subseteq Ids /\ v.nbod \in Int
           /\ v.bod \in 0 .. MaxId /\ v.next \in [Ids -> 0 .. MaxId]
           /\ v.prev \in [Ids -> 0 .. MaxId] /\ v.state \in [Ids -> 0 .. MaxTime]
BY DEF ViewType, ViewFields

LEMMA ExceptMap ==
  ASSUME NEW T, NEW f \in [Ids -> T], NEW a, NEW x \in T
  PROVE  [f EXCEPT ![a] = x] \in [Ids -> T]
OBVIOUS

(* w is v with body b put in.                                              *)
PutIn(v, b, w) ==
  /\ w \in ViewType /\ SameFrame(v, w)
  /\ w.hung = v.hung /\ w.stale = v.stale
  /\ w.idb = v.idb \cup {b} /\ w.nbod = v.nbod + 1
  /\ w.absent = v.absent /\ w.state = v.state
  /\ w.bod = b /\ w.next = [v.next EXCEPT ![b] = v.bod]
  /\ w.prev = IF v.bod # 0 THEN [v.prev EXCEPT ![v.bod] = b] ELSE v.prev

LEMMA InsertView ==
  ASSUME NEW v \in ViewType, NEW b \in Ids
  PROVE  PutIn(v, b, Insert(v, b))
<1> DEFINE w == Insert(v, b)
<1>0. w = Insert(v, b)
  OBVIOUS
<1> HIDE DEF w
<1>1. b \in 0 .. MaxId /\ \A c \in Ids : c \in 0 .. MaxId
  BY IdsNat
<1>2. ViewFields(v)
  BY ViewParts
<1>3. w = [status |-> v.status, cur |-> v.cur, known |-> v.known, failed |-> v.failed,
           hung |-> v.hung, stale |-> v.stale, time |-> v.time, all |-> v.all,
           allread |-> v.allread, idb |-> v.idb \cup {b}, nbod |-> v.nbod + 1,
           absent |-> v.absent, bod |-> b, next |-> [v.next EXCEPT ![b] = v.bod],
           prev |-> IF v.bod # 0 THEN [v.prev EXCEPT ![v.bod] = b] ELSE v.prev,
           state |-> v.state, shown |-> v.shown]
  BY <1>0, <1>2 DEF ViewFields, Insert
<1>4. /\ w.status = v.status /\ w.cur = v.cur /\ w.known = v.known
      /\ w.failed = v.failed /\ w.hung = v.hung /\ w.stale = v.stale
      /\ w.time = v.time /\ w.all = v.all /\ w.allread = v.allread
      /\ w.idb = v.idb \cup {b} /\ w.nbod = v.nbod + 1 /\ w.absent = v.absent
      /\ w.bod = b /\ w.next = [v.next EXCEPT ![b] = v.bod]
      /\ w.prev = IF v.bod # 0 THEN [v.prev EXCEPT ![v.bod] = b] ELSE v.prev
      /\ w.state = v.state /\ w.shown = v.shown
      /\ ViewFields(w)
  BY <1>3 DEF ViewFields
<1>5. w.next \in [Ids -> 0 .. MaxId] /\ w.prev \in [Ids -> 0 .. MaxId]
  <2>1. v.next \in [Ids -> 0 .. MaxId] /\ v.prev \in [Ids -> 0 .. MaxId] /\ v.bod \in 0 .. MaxId
    BY ViewParts
  <2> QED
    BY <1>1, <1>4, <2>1, ExceptMap
<1>6. w \in ViewType
  BY <1>1, <1>4, <1>5, ViewParts
<1>7. PutIn(v, b, w)
  BY <1>4, <1>6 DEF SameFrame, PutIn
<1> QED
  BY <1>0, <1>7

(* w is v with body b taken out.                                           *)
TakenOut(v, b, w) ==
  /\ w \in ViewType /\ SameFrame(v, w)
  /\ w.hung = v.hung
  /\ w.stale = (v.stale \/ ~ IF v.prev[b] = 0 THEN v.bod = b ELSE v.next[v.prev[b]] = b)
  /\ w.idb = v.idb \ {b} /\ w.nbod = v.nbod - 1
  /\ w.absent = v.absent /\ w.state = v.state
  /\ w.bod = IF v.prev[b] = 0 THEN v.next[b] ELSE v.bod
  /\ w.next = IF v.prev[b] = 0 THEN v.next ELSE [v.next EXCEPT ![v.prev[b]] = v.next[b]]
  /\ w.prev = IF v.next[b] = 0 THEN v.prev ELSE [v.prev EXCEPT ![v.next[b]] = v.prev[b]]

LEMMA UnlinkView ==
  ASSUME NEW v \in ViewType, NEW b \in Ids
  PROVE  TakenOut(v, b, Unlink(v, b))
<1>0. PICK w : w = Unlink(v, b)
  OBVIOUS
<1>1. b \in 0 .. MaxId /\ \A c \in Ids : c \in 0 .. MaxId
  BY IdsNat
<1>2. ViewFields(v)
  BY ViewParts
<1> DEFINE n == v.next[b]
           p == v.prev[b]
           u == IF n # 0 THEN [v EXCEPT !.prev[n] = p] ELSE v
           linked == IF p = 0 THEN v.bod = b ELSE v.next[p] = b
<1>3. /\ n \in 0 .. MaxId /\ p \in 0 .. MaxId
      /\ v.prev \in [Ids -> 0 .. MaxId] /\ v.next \in [Ids -> 0 .. MaxId]
  BY ViewParts
<1>4. u.prev[b] = p
  BY <1>2, <1>3 DEF ViewFields
<1>5. w = [status |-> v.status, cur |-> v.cur, known |-> v.known, failed |-> v.failed,
           hung |-> v.hung, stale |-> v.stale \/ ~linked, time |-> v.time, all |-> v.all,
           allread |-> v.allread, idb |-> v.idb \ {b}, nbod |-> v.nbod - 1,
           absent |-> v.absent, bod |-> IF p = 0 THEN n ELSE v.bod,
           next |-> IF p = 0 THEN v.next ELSE [v.next EXCEPT ![p] = n],
           prev |-> IF n = 0 THEN v.prev ELSE [v.prev EXCEPT ![n] = p],
           state |-> v.state, shown |-> v.shown]
  <2>1. w = [(IF u.prev[b] # 0 THEN [u EXCEPT !.next[u.prev[b]] = n] ELSE [u EXCEPT !.bod = n])
               EXCEPT !.idb = @ \ {b}, !.nbod = @ - 1,
                      !.stale = @ \/ ~ (IF u.prev[b] = 0 THEN v.bod = b ELSE v.next[u.prev[b]] = b)]
    BY <1>0 DEF Unlink
  <2>2. w = [(IF p # 0 THEN [u EXCEPT !.next[p] = n] ELSE [u EXCEPT !.bod = n])
               EXCEPT !.idb = @ \ {b}, !.nbod = @ - 1, !.stale = @ \/ ~linked]
    BY <1>4, <2>1, ZenonT(30)
  <2>3. u = [status |-> v.status, cur |-> v.cur, known |-> v.known, failed |-> v.failed,
           hung |-> v.hung, stale |-> v.stale, time |-> v.time, all |-> v.all,
           allread |-> v.allread, idb |-> v.idb, nbod |-> v.nbod,
           absent |-> v.absent, bod |-> v.bod, next |-> v.next,
           prev |-> IF n = 0 THEN v.prev ELSE [v.prev EXCEPT ![n] = p],
           state |-> v.state, shown |-> v.shown]
    BY <1>2 DEF ViewFields
  <2> DEFINE z == IF p # 0 THEN [u EXCEPT !.next[p] = n] ELSE [u EXCEPT !.bod = n]
  <2> HIDE DEF n, p, u, linked
  <2>4. z = [status |-> v.status, cur |-> v.cur, known |-> v.known, failed |-> v.failed,
           hung |-> v.hung, stale |-> v.stale, time |-> v.time, all |-> v.all,
           allread |-> v.allread, idb |-> v.idb, nbod |-> v.nbod,
           absent |-> v.absent, bod |-> IF p = 0 THEN n ELSE v.bod,
           next |-> IF p = 0 THEN v.next ELSE [v.next EXCEPT ![p] = n],
           prev |-> IF n = 0 THEN v.prev ELSE [v.prev EXCEPT ![n] = p],
           state |-> v.state, shown |-> v.shown]
    <3>1. CASE p = 0
      BY <2>3, <3>1
    <3>2. CASE p # 0
      BY <2>3, <3>2
    <3> QED
      BY <3>1, <3>2
  <2>5. w = [z EXCEPT !.idb = @ \ {b}, !.nbod = @ - 1, !.stale = @ \/ ~linked]
    BY <2>2
  <2> HIDE DEF z
  <2> QED
    BY <2>4, <2>5, ZenonT(30)
<1> HIDE DEF n, p, u, linked
<1>6. /\ w.status = v.status /\ w.cur = v.cur /\ w.known = v.known
      /\ w.failed = v.failed /\ w.hung = v.hung /\ w.stale = (v.stale \/ ~linked)
      /\ w.time = v.time /\ w.all = v.all /\ w.allread = v.allread
      /\ w.idb = v.idb \ {b} /\ w.nbod = v.nbod - 1 /\ w.absent = v.absent
      /\ w.bod = IF p = 0 THEN n ELSE v.bod
      /\ w.next = IF p = 0 THEN v.next ELSE [v.next EXCEPT ![p] = n]
      /\ w.prev = IF n = 0 THEN v.prev ELSE [v.prev EXCEPT ![n] = p]
      /\ w.state = v.state /\ w.shown = v.shown
      /\ ViewFields(w)
  BY <1>5 DEF ViewFields
<1>7. w.next \in [Ids -> 0 .. MaxId] /\ w.prev \in [Ids -> 0 .. MaxId]
  BY <1>3, <1>6, ExceptMap
<1>8. w \in ViewType
  <2>1. (v.stale \/ ~linked) \in BOOLEAN /\ v.idb \ {b} \subseteq Ids /\ v.nbod - 1 \in Int
        /\ v.bod \in 0 .. MaxId
    BY ViewParts
  <2> QED
    BY <1>3, <1>6, <1>7, <2>1, ViewParts
<1>9. TakenOut(v, b, w)
  BY <1>6, <1>8 DEF SameFrame, TakenOut, n, p, linked
<1> QED
  BY <1>0, <1>9

-----------------------------------------------------------------------------
(* The list of bodies, in the order of a key that falls along it: the      *)
(* first body has the highest key, and a body that is put in gets the key  *)
(* top, which is above all others.                                         *)

Higher(v, key, b) == \A c \in v.idb : key[c] <= key[b]

(* c comes next after b.                                                   *)
Follows(v, key, b, c) ==
  /\ key[c] < key[b]
  /\ \A d \in v.idb : key[d] <= key[c] \/ key[b] <= key[d]

Linked(v, key, top) ==
  /\ key \in [Ids -> Nat] /\ top \in Nat
  /\ \A b \in v.idb : key[b] < top
  /\ \A b, c \in v.idb : key[b] = key[c] => b = c
  /\ IF v.bod = 0 THEN v.idb = {} ELSE v.bod \in v.idb /\ Higher(v, key, v.bod)
  /\ \A b \in v.idb :
       IF v.next[b] = 0 THEN \A c \in v.idb : key[b] <= key[c]
       ELSE v.next[b] \in v.idb /\ Follows(v, key, b, v.next[b])
  /\ \A b \in v.idb : b # v.bod => v.prev[b] \in v.idb /\ v.next[v.prev[b]] = b

(* A body that is not in the list is not taken for the one before a body   *)
(* of the list.                                                            *)
Unhooked(v) == \A p \in Ids \ v.idb : v.next[p] # 0 => v.prev[v.next[p]] # p

Counted(v) == v.nbod = Cardinality(v.idb)

LEMMA IdsFinite ==
  ASSUME NEW S, S \subseteq Ids
  PROVE  IsFiniteSet(S) /\ Cardinality(S) \in Nat /\ Cardinality(S) <= MaxId
<1>1. IsFiniteSet(Ids) /\ Cardinality(Ids) = MaxId
  BY IdsNat, FS_Interval DEF Ids
<1> QED
  BY <1>1, FS_Subset, FS_CardinalityType

LEMMA InsertLinked ==
  ASSUME NEW v \in ViewType, NEW key, NEW top, Linked(v, key, top), Unhooked(v), Counted(v),
         NEW b \in Ids \ v.idb, NEW w, w = Insert(v, b)
  PROVE  /\ Linked(w, [key EXCEPT ![b] = top], top + 1) /\ Unhooked(w) /\ Counted(w)
<1> DEFINE new == [key EXCEPT ![b] = top]
<1>1. /\ w.idb = v.idb \cup {b} /\ w.nbod = v.nbod + 1
      /\ w.bod = b /\ w.next = [v.next EXCEPT ![b] = v.bod]
      /\ w.prev = IF v.bod # 0 THEN [v.prev EXCEPT ![v.bod] = b] ELSE v.prev
  <2>1. PutIn(v, b, w)
    BY InsertView
  <2> QED
    BY <2>1 DEF PutIn
<1>2. /\ v.idb \subseteq Ids /\ v.bod \in 0 .. MaxId /\ v.nbod \in Int
      /\ v.next \in [Ids -> 0 .. MaxId] /\ v.prev \in [Ids -> 0 .. MaxId]
  BY ViewParts
<1>3. /\ key \in [Ids -> Nat] /\ top \in Nat
      /\ \A c \in v.idb : key[c] < top
      /\ \A a, c \in v.idb : key[a] = key[c] => a = c
  BY DEF Linked
<1>4. /\ new \in [Ids -> Nat] /\ new[b] = top /\ top + 1 \in Nat
      /\ \A c \in v.idb : new[c] = key[c] /\ c # b /\ c # 0
  BY <1>2, <1>3, IdsNat
<1>5. b # 0 /\ \A c \in Ids : c # b => w.next[c] = v.next[c]
  BY <1>1, <1>2, IdsNat
<1>6. w.next[b] = v.bod
  BY <1>1, <1>2
<1>7. \A c \in Ids : w.prev[c] = IF c = v.bod THEN b ELSE v.prev[c]
  BY <1>1, <1>2, IdsNat
<1>8. IF v.bod = 0 THEN v.idb = {} ELSE v.bod \in v.idb /\ \A c \in v.idb : key[c] <= key[v.bod]
  BY DEF Linked, Higher
<1>9. \A a \in v.idb :
        IF v.next[a] = 0 THEN \A c \in v.idb : key[a] <= key[c]
        ELSE v.next[a] \in v.idb /\ key[v.next[a]] < key[a]
             /\ \A d \in v.idb : key[d] <= key[v.next[a]] \/ key[a] <= key[d]
  BY DEF Linked, Follows
<1>10. \A a \in v.idb : a # v.bod => v.prev[a] \in v.idb /\ v.next[v.prev[a]] = a
  BY DEF Linked
<1> HIDE DEF new
<1>11. /\ \A a \in w.idb : new[a] < top + 1
       /\ \A a, c \in w.idb : new[a] = new[c] => a = c
       /\ w.bod # 0 /\ w.bod \in w.idb /\ \A c \in w.idb : new[c] <= new[w.bod]
  BY <1>1, <1>2, <1>3, <1>4, <1>5
<1>12. ASSUME NEW a \in w.idb
       PROVE  IF w.next[a] = 0 THEN \A c \in w.idb : new[a] <= new[c]
              ELSE w.next[a] \in w.idb /\ Follows(w, new, a, w.next[a])
  <2>1. CASE a = b
    <3>1. w.next[a] = v.bod /\ new[a] = top
      BY <1>4, <1>6, <2>1
    <3>2. CASE v.bod = 0
      <4>1. w.idb = {b}
        BY <1>1, <1>8, <3>2
      <4> QED
        BY <1>3, <2>1, <3>1, <3>2, <4>1
    <3>3. CASE v.bod # 0
      <4>1. /\ v.bod \in v.idb /\ \A c \in v.idb : new[c] <= new[v.bod] /\ new[c] < top
            /\ \A c \in v.idb : new[c] \in Nat
        BY <1>2, <1>3, <1>4, <1>8, <3>3
      <4> QED
        BY <1>1, <1>3, <2>1, <3>1, <3>3, <4>1 DEF Follows
    <3> QED
      BY <3>2, <3>3
  <2>2. CASE a # b
    <3>1. a \in v.idb /\ w.next[a] = v.next[a] /\ new[a] = key[a] /\ new[a] < top
          /\ new[a] \in Nat
      BY <1>1, <1>2, <1>3, <1>4, <1>5, <2>2
    <3>2. CASE v.next[a] = 0
      BY <1>1, <1>3, <1>4, <1>9, <3>1, <3>2
    <3>3. CASE v.next[a] # 0
      <4>1. v.next[a] \in v.idb /\ key[v.next[a]] < key[a]
             /\ \A d \in v.idb : key[d] <= key[v.next[a]] \/ key[a] <= key[d]
        BY <1>9, <3>1, <3>3
      <4>2. w.next[a] # 0 /\ w.next[a] \in w.idb /\ new[w.next[a]] < new[a]
        BY <1>1, <1>4, <3>1, <3>3, <4>1
      <4>3. \A d \in w.idb : new[d] <= new[w.next[a]] \/ new[a] <= new[d]
        BY <1>1, <1>3, <1>4, <3>1, <4>1
      <4> QED
        BY <4>2, <4>3 DEF Follows
    <3> QED
      BY <3>2, <3>3
  <2> QED
    BY <2>1, <2>2
<1>13. ASSUME NEW a \in w.idb, a # w.bod
       PROVE  w.prev[a] \in w.idb /\ w.next[w.prev[a]] = a
  <2>1. a \in v.idb /\ a \in Ids /\ a # b
    BY <1>1, <1>2, <1>13
  <2>2. CASE a = v.bod
    BY <1>1, <1>6, <1>7, <2>1, <2>2
  <2>3. CASE a # v.bod
    <3>1. w.prev[a] = v.prev[a] /\ v.prev[a] \in v.idb /\ v.next[v.prev[a]] = a
      BY <1>7, <1>10, <2>1, <2>3
    <3>2. v.prev[a] \in Ids /\ v.prev[a] # b
      BY <1>2, <3>1
    <3> QED
      BY <1>1, <1>5, <3>1, <3>2
  <2> QED
    BY <2>2, <2>3
<1>14. Linked(w, new, top + 1)
  BY <1>4, <1>11, <1>12, <1>13 DEF Linked, Higher
<1>15. Unhooked(w)
  <2> SUFFICES ASSUME NEW p \in Ids \ w.idb, w.next[p] # 0
               PROVE  w.prev[w.next[p]] # p
    BY DEF Unhooked
  <2>1. p \in Ids \ v.idb /\ p # b /\ w.next[p] = v.next[p]
    BY <1>1, <1>5
  <2>2. v.prev[v.next[p]] # p /\ v.next[p] \in Ids
    <3>1. v.next[p] \in 0 .. MaxId /\ v.next[p] # 0
      BY <1>2, <2>1
    <3> QED
      BY <2>1, <3>1 DEF Unhooked, Ids
  <2> QED
    BY <1>7, <2>1, <2>2
<1>16. Counted(w)
  BY <1>1, <1>2, IdsFinite, FS_AddElement DEF Counted
<1> QED
  BY <1>14, <1>15, <1>16 DEF new

(* A body that stays in the list under a wrong neighbour is stale.         *)
LEMMA UnlinkLinked ==
  ASSUME NEW v \in ViewType, NEW key, NEW top, Linked(v, key, top), Unhooked(v), Counted(v),
         NEW b \in v.idb, NEW w, w = Unlink(v, b), ~w.stale
  PROVE  /\ Linked(w, key, top) /\ Unhooked(w) /\ Counted(w)
<1> DEFINE n == v.next[b]
           p == v.prev[b]
<1>1. /\ v.idb \subseteq Ids /\ v.bod \in 0 .. MaxId /\ v.nbod \in Int
      /\ v.next \in [Ids -> 0 .. MaxId] /\ v.prev \in [Ids -> 0 .. MaxId]
      /\ b \in Ids /\ b # 0
  BY ViewParts, IdsNat
<1>2. /\ key \in [Ids -> Nat] /\ top \in Nat
      /\ \A c \in v.idb : key[c] < top
      /\ \A a, c \in v.idb : key[a] = key[c] => a = c
  BY DEF Linked
<1>3. IF v.bod = 0 THEN v.idb = {} ELSE v.bod \in v.idb /\ \A c \in v.idb : key[c] <= key[v.bod]
  BY DEF Linked, Higher
<1>4. \A a \in v.idb :
        IF v.next[a] = 0 THEN \A c \in v.idb : key[a] <= key[c]
        ELSE v.next[a] \in v.idb /\ key[v.next[a]] < key[a]
             /\ \A d \in v.idb : key[d] <= key[v.next[a]] \/ key[a] <= key[d]
  BY DEF Linked, Follows
<1>5. \A a \in v.idb : a # v.bod => v.prev[a] \in v.idb /\ v.next[v.prev[a]] = a
  BY DEF Linked
<1>6. \A c \in v.idb : c \in Ids /\ c # 0 /\ key[c] \in Nat
  BY <1>1, <1>2, IdsNat
<1>7. n \in 0 .. MaxId /\ p \in 0 .. MaxId /\ (n # 0 => n \in v.idb /\ key[n] < key[b])
  BY <1>1, <1>4
<1>8. n # b
  BY <1>1, <1>6, <1>7
<1>9. /\ ~v.stale
      /\ IF p = 0 THEN v.bod = b ELSE v.next[p] = b
      /\ w.idb = v.idb \ {b} /\ w.nbod = v.nbod - 1
      /\ w.bod = IF p = 0 THEN n ELSE v.bod
      /\ w.next = IF p = 0 THEN v.next ELSE [v.next EXCEPT ![p] = n]
      /\ w.prev = IF n = 0 THEN v.prev ELSE [v.prev EXCEPT ![n] = p]
  <2>1. v.next[b] # b /\ b \in Ids
    BY <1>1, <1>8
  <2>2. TakenOut(v, b, w)
    BY <2>1, UnlinkView
  <2>3. v.stale \in BOOLEAN
    BY ViewParts
  <2> QED
    BY <2>2, <2>3, ~w.stale DEF TakenOut
<1>10. p # 0 => p \in v.idb /\ p # b /\ b # v.bod
  <2> SUFFICES ASSUME p # 0
               PROVE  p \in v.idb /\ p # b /\ b # v.bod
    OBVIOUS
  <2>1. p \in Ids /\ v.next[p] = b
    BY <1>7, <1>9 DEF Ids
  <2>2. p \in v.idb
    BY <1>1, <2>1 DEF Unhooked
  <2>3. key[b] < key[p]
    BY <1>1, <1>4, <2>1, <2>2
  <2> QED
    BY <1>3, <1>6, <2>2, <2>3
<1>11. p = 0 => b = v.bod
  BY <1>9
<1>12. /\ \A c \in Ids : w.next[c] = IF c = p THEN n ELSE v.next[c]
       /\ \A c \in Ids : w.prev[c] = IF c = n THEN p ELSE v.prev[c]
  BY <1>1, <1>9, IdsNat
<1> HIDE DEF n, p
<1>13. /\ \A a \in w.idb : key[a] < top
       /\ \A a, c \in w.idb : key[a] = key[c] => a = c
  BY <1>2, <1>9
<1>14. IF w.bod = 0 THEN w.idb = {} ELSE w.bod \in w.idb /\ Higher(w, key, w.bod)
  <2>1. CASE p = 0
    <3>1. w.bod = n /\ b = v.bod /\ \A c \in v.idb : key[c] <= key[b]
      BY <1>1, <1>3, <1>9, <1>11, <2>1
    <3>2. \A c \in w.idb : c \in v.idb /\ c # b /\ key[c] < key[b]
      BY <1>2, <1>6, <1>9, <3>1
    <3>3. CASE n = 0
      <4>1. \A c \in v.idb : key[b] <= key[c]
        BY <1>4, <3>3 DEF n
      <4> QED
        BY <1>6, <3>1, <3>2, <3>3, <4>1
    <3>4. CASE n # 0
      <4>1. /\ n \in v.idb /\ n # b
            /\ \A d \in v.idb : key[d] <= key[n] \/ key[b] <= key[d]
        BY <1>4, <1>8, <3>4 DEF n
      <4>2. n \in w.idb /\ \A c \in w.idb : key[c] <= key[n]
        BY <1>6, <1>9, <3>2, <4>1
      <4> QED
        BY <3>1, <3>4, <4>2 DEF Higher
    <3> QED
      BY <3>3, <3>4
  <2>2. CASE p # 0
    <3>1. w.bod = v.bod /\ v.bod # b /\ p \in v.idb
      BY <1>9, <1>10, <2>2
    <3>2. v.bod # 0 /\ v.bod \in w.idb /\ \A c \in w.idb : key[c] <= key[v.bod]
      BY <1>3, <1>9, <3>1
    <3> QED
      BY <3>1, <3>2 DEF Higher
  <2> QED
    BY <2>1, <2>2
<1>15. ASSUME NEW a \in w.idb
       PROVE  IF w.next[a] = 0 THEN \A c \in w.idb : key[a] <= key[c]
              ELSE w.next[a] \in w.idb /\ Follows(w, key, a, w.next[a])
  <2>1. a \in v.idb /\ a # b /\ a \in Ids /\ key[a] \in Nat
    BY <1>6, <1>9
  <2>2. CASE a = p
    <3>1. p # 0 /\ w.next[a] = n /\ v.next[a] = b
      BY <1>6, <1>9, <1>12, <2>1, <2>2
    <3>2. key[b] < key[a] /\ \A d \in v.idb : key[d] <= key[b] \/ key[a] <= key[d]
      BY <1>1, <1>4, <2>1, <3>1
    <3>3. \A d \in w.idb : d \in v.idb /\ d # b /\ (key[d] < key[b] \/ key[a] <= key[d])
      BY <1>2, <1>6, <1>9, <3>2
    <3>4. CASE n = 0
      <4>1. \A d \in v.idb : key[b] <= key[d]
        BY <1>4, <3>4 DEF n
      <4> QED
        BY <1>6, <3>1, <3>3, <3>4, <4>1
    <3>5. CASE n # 0
      <4>1. /\ n \in v.idb /\ n # b /\ key[n] < key[b]
            /\ \A d \in v.idb : key[d] <= key[n] \/ key[b] <= key[d]
        BY <1>4, <1>8, <3>5 DEF n
      <4>2. n \in w.idb /\ key[n] < key[a]
        BY <1>6, <1>9, <2>1, <3>2, <4>1
      <4>3. \A d \in w.idb : key[d] <= key[n] \/ key[a] <= key[d]
        BY <1>6, <3>3, <4>1
      <4> QED
        BY <3>1, <3>5, <4>2, <4>3 DEF Follows
    <3> QED
      BY <3>4, <3>5
  <2>3. CASE a # p
    <3>1. w.next[a] = v.next[a]
      BY <1>12, <2>1, <2>3
    <3>2. v.next[a] # b
      <4> SUFFICES ASSUME v.next[a] = b PROVE FALSE
        OBVIOUS
      <4>1. key[b] < key[a] /\ \A d \in v.idb : key[d] <= key[b] \/ key[a] <= key[d]
        BY <1>1, <1>4, <2>1
      <4>2. b # v.bod
        BY <1>3, <1>6, <2>1, <4>1
      <4>3. p \in v.idb /\ v.next[p] = b
        BY <1>5, <4>2 DEF p
      <4>4. key[b] < key[p] /\ \A d \in v.idb : key[d] <= key[b] \/ key[p] <= key[d]
        BY <1>1, <1>4, <4>3
      <4>5. key[a] = key[p]
        BY <1>6, <2>1, <4>1, <4>3, <4>4
      <4> QED
        BY <1>2, <2>1, <2>3, <4>3, <4>5
    <3>3. CASE v.next[a] = 0
      BY <1>4, <1>9, <2>1, <3>1, <3>3
    <3>4. CASE v.next[a] # 0
      BY <1>4, <1>9, <2>1, <3>1, <3>2, <3>4 DEF Follows
    <3> QED
      BY <3>3, <3>4
  <2> QED
    BY <2>2, <2>3
<1>16. ASSUME NEW a \in w.idb, a # w.bod
       PROVE  w.prev[a] \in w.idb /\ w.next[w.prev[a]] = a
  <2>1. a \in v.idb /\ a # b /\ a \in Ids /\ a # 0
    BY <1>6, <1>9
  <2>2. CASE a = n
    <3>1. p # 0
      BY <1>9, <1>16, <2>2
    <3>2. w.prev[a] = p /\ p \in v.idb /\ p # b /\ p \in Ids
      BY <1>6, <1>10, <1>12, <2>1, <2>2, <3>1
    <3> QED
      BY <1>9, <1>12, <2>2, <3>2
  <2>3. CASE a # n
    <3>1. a # v.bod
      BY <1>9, <1>11, <1>16, <2>1
    <3>2. w.prev[a] = v.prev[a] /\ v.prev[a] \in v.idb /\ v.next[v.prev[a]] = a
      BY <1>5, <1>12, <2>1, <2>3, <3>1
    <3>3. v.prev[a] # b
      BY <2>3, <3>2 DEF n
    <3>4. v.prev[a] # p
      <4>1. v.prev[a] # 0
        BY <1>6, <3>2
      <4>2. p # 0 => v.next[p] = b
        BY <1>9
      <4> QED
        BY <2>1, <3>2, <4>1, <4>2
    <3> QED
      BY <1>6, <1>9, <1>12, <3>2, <3>3, <3>4
  <2> QED
    BY <2>2, <2>3
<1>17. Linked(w, key, top)
  BY <1>2, <1>13, <1>14, <1>15, <1>16 DEF Linked
<1>18. Unhooked(w)
  <2> SUFFICES ASSUME NEW q \in Ids \ w.idb, w.next[q] # 0
               PROVE  w.prev[w.next[q]] # q
    BY DEF Unhooked
  <2>1. q # p
    BY <1>9, <1>10, IdsNat
  <2>2. w.next[q] = v.next[q] /\ v.next[q] \in Ids /\ v.next[q] # 0
    <3>1. w.next[q] = v.next[q] /\ v.next[q] \in 0 .. MaxId
      BY <1>1, <1>12, <2>1
    <3> QED
      BY <3>1 DEF Ids
  <2>3. CASE v.next[q] = n
    BY <1>12, <2>1, <2>2, <2>3
  <2>4. CASE v.next[q] # n
    <3>1. q # b
      BY <2>4 DEF n
    <3>2. q \in Ids \ v.idb
      BY <1>9, <3>1
    <3>3. v.prev[v.next[q]] # q
      BY <2>2, <3>2 DEF Unhooked
    <3> QED
      BY <1>12, <2>2, <2>4, <3>3
  <2> QED
    BY <2>3, <2>4
<1>19. Counted(w)
  BY <1>1, <1>9, IdsFinite, FS_RemoveElement DEF Counted
<1> QED
  BY <1>17, <1>18, <1>19

(* What is passed on the way down to b.                                    *)
Over(D, key, b) == {c \in D : key[b] < key[c]}

LEMMA OverBound ==
  ASSUME NEW D, D \subseteq Ids, NEW key \in [Ids -> Nat], NEW b \in D
  PROVE  /\ Cardinality(Over(D, key, b)) \in Nat
         /\ Cardinality(Over(D, key, b)) < MaxId
         /\ \A n \in D : key[n] < key[b] =>
              Cardinality(Over(D, key, b)) + 1 <= Cardinality(Over(D, key, n))
<1>1. key[b] \in Nat /\ \A c \in D : key[c] \in Nat
  OBVIOUS
<1>2. Over(D, key, b) \subseteq Ids /\ b \notin Over(D, key, b)
  BY <1>1 DEF Over
<1> DEFINE O == Over(D, key, b)
<1> HIDE DEF O
<1>3. /\ O \subseteq Ids /\ b \notin O /\ O \cup {b} \subseteq Ids
  BY <1>2 DEF O
<1>4. IsFiniteSet(O) /\ Cardinality(O) \in Nat
  BY <1>3, IdsFinite
<1>5. Cardinality(O \cup {b}) = Cardinality(O) + 1
  BY <1>3, <1>4, FS_AddElement
<1>6. Cardinality(O \cup {b}) <= MaxId
  BY <1>3, IdsFinite
<1>7. ASSUME NEW n \in D, key[n] < key[b]
      PROVE  Cardinality(O) + 1 <= Cardinality(Over(D, key, n))
  <2>1. O \cup {b} \subseteq Over(D, key, n)
    BY <1>1, <1>7 DEF O, Over
  <2>2. Over(D, key, n) \subseteq Ids
    BY DEF Over
  <2>3. IsFiniteSet(Over(D, key, n))
    BY <2>2, IdsFinite
  <2>4. Cardinality(O \cup {b}) <= Cardinality(Over(D, key, n))
    BY <2>1, <2>3, FS_Subset
  <2> QED
    BY <1>5, <2>4
<1>8. Cardinality(O) < MaxId
  BY <1>4, <1>5, <1>6, IdsNat
<1> QED
  BY <1>4, <1>7, <1>8 DEF O

LEMMA RecursSteps ==
  ASSUME NEW f, NEW N \in Nat, NEW T, NEW a, NEW step, Recurs(f, N, T, a, step)
  PROVE  /\ f \in [0 .. N -> T] /\ f[0] = a
         /\ f = [n \in 0 .. N |-> f[n]]
         /\ \A n \in 0 .. N : n = 0 \/ n \in 1 .. N
         /\ \A n \in 1 .. N : /\ n # 0 /\ n \in 0 .. N /\ n - 1 \in 0 .. N
                              /\ f[n - 1] \in T /\ f[n] \in T
                              /\ <<n, f[n - 1]>> \in (1 .. N) \X T
                              /\ f[n] = step[<<n, f[n - 1]>>]
<1>1. /\ f \in [0 .. N -> T] /\ f[0] = a
      /\ \A n \in 1 .. N : f[n] = step[<<n, f[n - 1]>>]
  BY DEF Recurs
<1>2. \A n \in 1 .. N : n # 0 /\ n \in 0 .. N /\ n - 1 \in 0 .. N
  OBVIOUS
<1>3. \A n \in 1 .. N : f[n - 1] \in T /\ f[n] \in T
  BY <1>1, <1>2
<1> QED
  BY <1>1, <1>2, <1>3

WalkSteps(at, v) ==
  /\ at \in [0 .. MaxId -> 0 .. MaxId]
  /\ at[0] = v.bod
  /\ \A k \in 1 .. MaxId : at[k] = IF at[k - 1] = 0 THEN 0 ELSE v.next[at[k - 1]]

LEMMA WalkIs ==
  ASSUME NEW v \in ViewType
  PROVE  WalkSteps(Walk(v), v)
<1> DEFINE T == 0 .. MaxId
           Body(f, k) == LET b == f[k - 1] IN IF b = 0 THEN 0 ELSE v.next[b]
           Is(f) == f = [k \in 0 .. MaxId |-> IF k = 0 THEN v.bod ELSE Body(f, k)]
           at == CHOOSE f : Is(f)
           step == [p \in (1 .. MaxId) \X T |-> IF p[2] = 0 THEN 0 ELSE v.next[p[2]]]
<1>1. MaxId \in Nat /\ v.bod \in T /\ v.next \in [Ids -> T]
  BY IdsNat, ViewParts
<1>2. Walk(v) = at
  BY DEF Walk
<1>3. \E f \in [0 .. MaxId -> T] : Is(f)
  <2>1. step \in [(1 .. MaxId) \X T -> T]
    <3> SUFFICES ASSUME NEW b \in T PROVE (IF b = 0 THEN 0 ELSE v.next[b]) \in T
      OBVIOUS
    <3>1. b = 0 \/ b \in Ids
      BY <1>1 DEF Ids
    <3> QED
      BY <1>1, <3>1
  <2> HIDE DEF step, T
  <2>2. PICK f : Recurs(f, MaxId, T, v.bod, step)
    BY <1>1, <2>1, SetRecursion
  <2>3. /\ f \in [0 .. MaxId -> T] /\ f[0] = v.bod
        /\ f = [n \in 0 .. MaxId |-> f[n]]
        /\ \A n \in 0 .. MaxId : n = 0 \/ n \in 1 .. MaxId
        /\ \A n \in 1 .. MaxId : /\ <<n, f[n - 1]>> \in (1 .. MaxId) \X T
                                 /\ f[n] = step[<<n, f[n - 1]>>]
    BY <1>1, <2>2, RecursSteps
  <2>4. \A n \in 1 .. MaxId : f[n] = Body(f, n)
    BY <2>3 DEF step
  <2>5. \A n \in 0 .. MaxId : f[n] = IF n = 0 THEN v.bod ELSE Body(f, n)
    <3> HIDE DEF Body
    <3> QED
      BY <2>3, <2>4
  <2>6. Is(f)
    <3> HIDE DEF Body
    <3> QED
      BY <2>3, <2>5
  <2> QED
    BY <2>3, <2>6
<1> HIDE DEF T
<1>4. PICK g \in [0 .. MaxId -> T] : Is(g)
  BY <1>3
<1>5. Is(at)
  BY <1>4
<1> HIDE DEF at, Body
<1>6. at = [k \in 0 .. MaxId |-> IF k = 0 THEN v.bod ELSE Body(at, k)]
  BY <1>5
<1> HIDE DEF Is
<1>7. at[0] = v.bod /\ \A k \in 1 .. MaxId : k \in 0 .. MaxId /\ at[k] = Body(at, k)
  <2>1. 0 \in 0 .. MaxId /\ \A k \in 1 .. MaxId : k \in 0 .. MaxId /\ k # 0
    BY <1>1
  <2> QED
    BY <1>6, <2>1
<1> DEFINE S == {k \in Nat : k <= MaxId => at[k] \in T}
<1>8. \A k \in Nat : k \in S
  <2>1. 0 \in S
    BY <1>1, <1>7
  <2>2. ASSUME NEW k \in Nat, k \in S
        PROVE  k + 1 \in S
    <3> SUFFICES ASSUME k + 1 <= MaxId
                 PROVE  at[k + 1] \in T
      OBVIOUS
    <3>1. k + 1 \in 1 .. MaxId /\ k + 1 - 1 = k /\ at[k] \in T
      BY <1>1, <2>2
    <3>2. at[k + 1] = IF at[k] = 0 THEN 0 ELSE v.next[at[k]]
      BY <1>7, <3>1 DEF Body
    <3>3. at[k] = 0 \/ at[k] \in Ids
      BY <3>1 DEF T, Ids
    <3>4. 0 \in T
      BY <1>1 DEF T
    <3> QED
      BY <1>1, <3>2, <3>3, <3>4
  <2> HIDE DEF S
  <2> QED
    BY <2>1, <2>2, SetInduction
<1>9. at \in [0 .. MaxId -> T]
  <2>1. at = [k \in 0 .. MaxId |-> at[k]]
    BY <1>6
  <2>2. \A k \in 0 .. MaxId : at[k] \in T
    BY <1>8
  <2> QED
    BY <2>1, <2>2
<1>10. WalkSteps(at, v)
  BY <1>7, <1>9 DEF WalkSteps, T, Body
<1> QED
  BY <1>2, <1>10

LEMMA RecursTyped ==
  ASSUME NEW N \in Nat, NEW T, NEW a \in T, NEW step \in [(1 .. N) \X T -> T], NEW f,
         f = [n \in 0 .. N |-> f[n]], f[0] = a,
         \A n \in 1 .. N : f[n - 1] \in T => f[n] = step[<<n, f[n - 1]>>]
  PROVE  Recurs(f, N, T, a, step)
<1> DEFINE S == {k \in Nat : k <= N => f[k] \in T}
<1>1. \A k \in Nat : k \in S
  <2>1. 0 \in S
    OBVIOUS
  <2>2. ASSUME NEW k \in Nat, k \in S
        PROVE  k + 1 \in S
    <3> SUFFICES ASSUME k + 1 <= N
                 PROVE  f[k + 1] \in T
      OBVIOUS
    <3>1. PICK n : n = k + 1
      OBVIOUS
    <3>2. n \in 1 .. N /\ n - 1 = k /\ f[n - 1] \in T
      BY <2>2, <3>1
    <3>3. f[n] = step[<<n, f[n - 1]>>]
      BY <3>2
    <3>4. <<n, f[n - 1]>> \in (1 .. N) \X T
      BY <3>2
    <3> QED
      BY <3>1, <3>3, <3>4
  <2> HIDE DEF S
  <2> QED
    BY <2>1, <2>2, SetInduction
<1>2. \A k \in 0 .. N : f[k] \in T
  BY <1>1
<1>3. \A n \in 1 .. N : n - 1 \in 0 .. N
  OBVIOUS
<1>4. \A n \in 1 .. N : f[n] = step[<<n, f[n - 1]>>]
  BY <1>2, <1>3
<1>5. f \in [0 .. N -> T]
  BY <1>2
<1> QED
  BY <1>4, <1>5 DEF Recurs

(* A walk meets the bodies of the list and comes to its end.               *)
LEMMA WalkList ==
  ASSUME NEW v \in ViewType, NEW key, NEW top, Linked(v, key, top)
  PROVE  Listed(v) = v.idb /\ ~IsRing(v)
<1> DEFINE at == Walk(v)
           D == v.idb
           P(k) == /\ at[k] = 0 \/ at[k] \in D
                   /\ \A c \in D : \/ at[k] # 0 /\ key[c] <= key[at[k]]
                                   \/ \E j \in 0 .. MaxId : at[j] = c
                   /\ at[k] # 0 => k <= Cardinality(Over(D, key, at[k]))
           S == {k \in Nat : k <= MaxId => P(k)}
<1>1. /\ at \in [0 .. MaxId -> 0 .. MaxId] /\ at[0] = v.bod
      /\ \A k \in 1 .. MaxId : at[k] = IF at[k - 1] = 0 THEN 0 ELSE v.next[at[k - 1]]
  BY WalkIs DEF WalkSteps
<1>2. D \subseteq Ids /\ MaxId \in Nat /\ \A c \in D : c # 0
  BY ViewParts, IdsNat
<1>3. /\ key \in [Ids -> Nat]
      /\ IF v.bod = 0 THEN D = {} ELSE v.bod \in D /\ \A c \in D : key[c] <= key[v.bod]
      /\ \A b \in D :
           IF v.next[b] = 0 THEN \A c \in D : key[b] <= key[c]
           ELSE v.next[b] \in D /\ key[v.next[b]] < key[b]
                /\ \A d \in D : key[d] <= key[v.next[b]] \/ key[b] <= key[d]
      /\ \A a, c \in D : key[a] = key[c] => a = c
  BY DEF Linked, Higher, Follows
<1>4. \A c \in D : key[c] \in Nat
  BY <1>2, <1>3
<1> HIDE DEF at, D
<1>5. \A b \in D : /\ Cardinality(Over(D, key, b)) \in Nat /\ Cardinality(Over(D, key, b)) < MaxId
                   /\ \A n \in D : key[n] < key[b] =>
                        Cardinality(Over(D, key, b)) + 1 <= Cardinality(Over(D, key, n))
  BY <1>2, <1>3, OverBound
<1>6. 0 \in S
  <2>1. P(0)
    <3>1. CASE v.bod = 0
      BY <1>1, <1>3, <3>1
    <3>2. CASE v.bod # 0
      BY <1>1, <1>2, <1>3, <1>5, <3>2
    <3> QED
      BY <3>1, <3>2
  <2> QED
    BY <2>1
<1>7. ASSUME NEW k \in Nat, k \in S
      PROVE  k + 1 \in S
  <2> SUFFICES ASSUME k + 1 <= MaxId
               PROVE  P(k + 1)
    OBVIOUS
  <2>1. P(k) /\ k + 1 \in 1 .. MaxId /\ k \in 0 .. MaxId /\ k + 1 - 1 = k
    BY <1>2, <1>7
  <2>2. at[k + 1] = IF at[k] = 0 THEN 0 ELSE v.next[at[k]]
    BY <1>1, <2>1
  <2>3. CASE at[k] = 0
    <3>1. at[k + 1] = 0 /\ \A c \in D : \E j \in 0 .. MaxId : at[j] = c
      BY <2>1, <2>2, <2>3
    <3> QED
      BY <3>1
  <2>4. CASE at[k] # 0
    <3> DEFINE b == at[k]
               n == at[k + 1]
    <3>1. /\ b \in D /\ n = v.next[b] /\ k <= Cardinality(Over(D, key, b))
          /\ \A c \in D : key[c] <= key[b] \/ \E j \in 0 .. MaxId : at[j] = c
      BY <2>1, <2>2, <2>4
    <3>2. at[k] = b
      OBVIOUS
    <3> HIDE DEF b, n
    <3>3. \A c \in D : key[c] < key[b] \/ \E j \in 0 .. MaxId : at[j] = c
      BY <1>3, <1>4, <2>1, <3>1, <3>2
    <3>4. CASE n = 0
      <4>1. \A c \in D : key[b] <= key[c]
        BY <1>3, <3>1, <3>4
      <4>2. \A c \in D : \E j \in 0 .. MaxId : at[j] = c
        BY <1>4, <3>1, <3>3, <4>1
      <4> QED
        BY <3>4, <4>2 DEF n
    <3>5. CASE n # 0
      <4>1. n \in D /\ key[n] < key[b] /\ \A d \in D : key[d] <= key[n] \/ key[b] <= key[d]
        BY <1>3, <3>1, <3>5
      <4>2. k + 1 <= Cardinality(Over(D, key, n))
        <5>1. /\ Cardinality(Over(D, key, b)) \in Nat /\ Cardinality(Over(D, key, n)) \in Nat
              /\ Cardinality(Over(D, key, b)) + 1 <= Cardinality(Over(D, key, n))
          BY <1>5, <3>1, <4>1
        <5> QED
          BY <3>1, <5>1
      <4>3. \A c \in D : key[c] <= key[n] \/ \E j \in 0 .. MaxId : at[j] = c
        BY <1>4, <3>1, <3>3, <4>1
      <4> QED
        BY <3>5, <4>1, <4>2, <4>3 DEF n
    <3> QED
      BY <3>4, <3>5
  <2> QED
    BY <2>3, <2>4
<1>8. \A k \in 0 .. MaxId : P(k)
  <2> HIDE DEF P
  <2>1. \A k \in Nat : k \in S
    <3> HIDE DEF S
    <3> QED
      BY <1>6, <1>7, SetInduction
  <2> QED
    BY <1>2, <2>1
<1>9. at[MaxId] = 0
  <2>1. P(MaxId)
    BY <1>2, <1>8
  <2> QED
    BY <1>2, <1>5, <2>1
<1>10. \A c \in D : \E j \in 0 .. MaxId : at[j] = c
  <2>1. P(MaxId)
    BY <1>2, <1>8
  <2> QED
    BY <1>9, <2>1
<1>11. \A j \in 0 .. MaxId : at[j] = 0 \/ at[j] \in D
  BY <1>8
<1>12. Range(at) = {at[j] : j \in 0 .. MaxId}
  BY <1>1 DEF Range
<1>13. Range(at) \ {0} = D
  BY <1>2, <1>10, <1>11, <1>12
<1> QED
  BY <1>9, <1>13 DEF Listed, IsRing, at, D

(* The loop that removes the absent bodies.                                *)
Removing == [v : ViewType, at : 0 .. MaxId]

RemoveOne(l) ==
  IF l.at = 0 THEN l
  ELSE [v |-> IF l.at \in l.v.absent THEN Unlink(l.v, l.at) ELSE l.v,
        at |-> l.v.next[l.at]]

RemoveSteps(loop, v) ==
  /\ loop \in [0 .. (MaxId + 1) -> Removing]
  /\ loop[0] = [v |-> v, at |-> v.bod]
  /\ \A k \in 1 .. (MaxId + 1) : loop[k] = RemoveOne(loop[k - 1])

LEMMA RemoveOneType ==
  ASSUME NEW l \in Removing
  PROVE  RemoveOne(l) \in Removing
<1>1. l.v \in ViewType /\ l.at \in 0 .. MaxId
  BY DEF Removing
<1>2. CASE l.at = 0
  BY <1>2 DEF RemoveOne
<1>3. CASE l.at # 0
  <2>1. l.at \in Ids
    BY <1>1, <1>3 DEF Ids
  <2>2. l.v.next[l.at] \in 0 .. MaxId
    BY <1>1, <2>1, ViewParts
  <2> DEFINE u == Unlink(l.v, l.at)
  <2>3. u \in ViewType
    BY <1>1, <2>1, UnlinkView DEF TakenOut
  <2> HIDE DEF u
  <2>4. RemoveOne(l) = [v |-> IF l.at \in l.v.absent THEN u ELSE l.v, at |-> l.v.next[l.at]]
    BY <1>3 DEF RemoveOne, u
  <2> QED
    BY <1>1, <2>2, <2>3, <2>4 DEF Removing
<1> QED
  BY <1>2, <1>3

LEMMA RemoveIs ==
  ASSUME NEW v \in ViewType
  PROVE  \E loop :
           /\ RemoveSteps(loop, v)
           /\ RemoveAbsent(v) = IF loop[MaxId + 1].at = 0 THEN loop[MaxId + 1].v
                                ELSE [loop[MaxId + 1].v EXCEPT !.hung = TRUE]
<1> DEFINE N == MaxId + 1
           first == [v |-> v, at |-> v.bod]
           Body(f, k) == LET l == f[k - 1]
                         IN  IF l.at = 0 THEN l
                             ELSE [v |-> IF l.at \in l.v.absent THEN Unlink(l.v, l.at) ELSE l.v,
                                   at |-> l.v.next[l.at]]
           Is(f) == f = [k \in 0 .. N |-> IF k = 0 THEN first ELSE Body(f, k)]
           loop == CHOOSE f : Is(f)
           step == [p \in (1 .. N) \X Removing |-> RemoveOne(p[2])]
<1>1. N \in Nat /\ first \in Removing
  BY IdsNat, ViewParts DEF Removing
<1>2. RemoveAbsent(v) = IF loop[N].at = 0 THEN loop[N].v ELSE [loop[N].v EXCEPT !.hung = TRUE]
  BY DEF RemoveAbsent
<1>3. step \in [(1 .. N) \X Removing -> Removing]
  BY RemoveOneType
<1>4. \A f, k : Body(f, k) = RemoveOne(f[k - 1])
  BY DEF RemoveOne
<1>5. \A k \in 1 .. N, l \in Removing : step[<<k, l>>] = RemoveOne(l)
  OBVIOUS
<1> HIDE DEF N, first, step, Body
<1>6. PICK f : Recurs(f, N, Removing, first, step)
  BY <1>1, <1>3, SetRecursion
<1>7. /\ f \in [0 .. N -> Removing] /\ f[0] = first
      /\ f = [n \in 0 .. N |-> f[n]]
      /\ \A n \in 0 .. N : n = 0 \/ n \in 1 .. N
      /\ \A n \in 1 .. N : /\ f[n - 1] \in Removing
                           /\ f[n] = step[<<n, f[n - 1]>>]
  BY <1>1, <1>6, RecursSteps
<1>8. \A n \in 1 .. N : f[n] = Body(f, n)
  BY <1>4, <1>5, <1>7
<1>9. \A n \in 0 .. N : f[n] = IF n = 0 THEN first ELSE Body(f, n)
  BY <1>7, <1>8, <1>1
<1>10. Is(f)
  BY <1>7, <1>9
<1>11. Is(loop)
  BY <1>10
<1> HIDE DEF loop
<1>12. /\ loop = [n \in 0 .. N |-> loop[n]] /\ loop[0] = first
       /\ \A n \in 1 .. N : loop[n] = RemoveOne(loop[n - 1])
  <2>1. loop = [n \in 0 .. N |-> IF n = 0 THEN first ELSE Body(loop, n)]
    BY <1>11
  <2>2. 0 \in 0 .. N /\ \A n \in 1 .. N : n \in 0 .. N /\ n # 0
    BY <1>1
  <2> QED
    BY <1>4, <2>1, <2>2
<1>13. \A n \in 1 .. N : loop[n - 1] \in Removing => loop[n] = step[<<n, loop[n - 1]>>]
  BY <1>5, <1>12
<1>14. Recurs(loop, N, Removing, first, step)
  BY <1>1, <1>3, <1>12, <1>13, RecursTyped
<1>15. RemoveSteps(loop, v)
  BY <1>12, <1>14 DEF RemoveSteps, Recurs, N, first
<1> QED
  BY <1>2, <1>15 DEF N

(* What removing bodies leaves as it is.                                   *)
Fewer(v, w) ==
  /\ w \in ViewType /\ SameFrame(v, w)
  /\ w.absent = v.absent /\ w.state = v.state
  /\ w.idb \subseteq v.idb
  /\ v.stale => w.stale

LEMMA FewerOne ==
  ASSUME NEW v, NEW l \in Removing, Fewer(v, l.v)
  PROVE  Fewer(v, RemoveOne(l).v) /\ RemoveOne(l).v.hung = l.v.hung
<1>1. l.v \in ViewType /\ l.at \in 0 .. MaxId /\ l.v.stale \in BOOLEAN
  BY ViewParts DEF Removing
<1> DEFINE u == Unlink(l.v, l.at)
<1>2. CASE l.at = 0 \/ l.at \notin l.v.absent
  <2>1. RemoveOne(l).v = l.v
    BY <1>2 DEF RemoveOne
  <2> QED
    BY <2>1
<1>3. CASE l.at # 0 /\ l.at \in l.v.absent
  <2>1. RemoveOne(l).v = u /\ l.at \in Ids
    BY <1>1, <1>3 DEF RemoveOne, Ids
  <2>2. TakenOut(l.v, l.at, u)
    BY <1>1, <2>1, UnlinkView
  <2> HIDE DEF u
  <2> QED
    BY <1>1, <2>1, <2>2 DEF Fewer, SameFrame, TakenOut
<1> QED
  BY <1>2, <1>3

LEMMA SetHung ==
  ASSUME NEW v \in ViewType, NEW w, w = [v EXCEPT !.hung = TRUE]
  PROVE  /\ w \in ViewType /\ SameFrame(v, w) /\ w.hung = TRUE /\ w.stale = v.stale
         /\ w.idb = v.idb /\ w.nbod = v.nbod /\ w.absent = v.absent /\ w.state = v.state
         /\ w.bod = v.bod /\ w.next = v.next /\ w.prev = v.prev
<1>1. ViewFields(v)
  BY ViewParts
<1>2. /\ w.status = v.status /\ w.cur = v.cur /\ w.known = v.known
      /\ w.failed = v.failed /\ w.hung = TRUE /\ w.stale = v.stale
      /\ w.time = v.time /\ w.all = v.all /\ w.allread = v.allread
      /\ w.idb = v.idb /\ w.nbod = v.nbod /\ w.absent = v.absent
      /\ w.bod = v.bod /\ w.next = v.next /\ w.prev = v.prev
      /\ w.state = v.state /\ w.shown = v.shown
      /\ ViewFields(w)
  BY <1>1 DEF ViewFields
<1>3. w \in ViewType
  BY <1>2, ViewParts
<1> QED
  BY <1>2, <1>3 DEF SameFrame

LEMMA RemovedView ==
  ASSUME NEW v \in ViewType
  PROVE  Fewer(v, RemoveAbsent(v))
<1> DEFINE N == MaxId + 1
           w == RemoveAbsent(v)
<1>1. PICK loop : /\ RemoveSteps(loop, v)
                  /\ w = IF loop[N].at = 0 THEN loop[N].v ELSE [loop[N].v EXCEPT !.hung = TRUE]
  BY RemoveIs
<1>2. /\ loop \in [0 .. N -> Removing] /\ loop[0] = [v |-> v, at |-> v.bod]
      /\ \A k \in 1 .. N : loop[k] = RemoveOne(loop[k - 1])
  BY <1>1 DEF RemoveSteps
<1>3. N \in Nat
  BY IdsNat
<1> HIDE DEF N, w
<1> DEFINE S == {k \in Nat : k <= N => Fewer(v, loop[k].v)}
<1>4. 0 \in S
  <2>1. Fewer(v, v)
    BY DEF Fewer, SameFrame
  <2>2. loop[0].v = v
    BY <1>2
  <2> QED
    BY <2>1, <2>2
<1>5. ASSUME NEW k \in Nat, k \in S
      PROVE  k + 1 \in S
  <2> SUFFICES ASSUME k + 1 <= N
               PROVE  Fewer(v, loop[k + 1].v)
    OBVIOUS
  <2>1. k + 1 \in 1 .. N /\ k \in 0 .. N /\ k + 1 - 1 = k
    BY <1>3
  <2>2. loop[k + 1] = RemoveOne(loop[k]) /\ loop[k] \in Removing
    BY <1>2, <2>1
  <2>3. Fewer(v, loop[k].v)
    BY <1>5, <2>1, <1>3
  <2> QED
    BY <2>2, <2>3, FewerOne
<1>6. Fewer(v, loop[N].v)
  <2>1. \A k \in Nat : k \in S
    <3> HIDE DEF S
    <3> QED
      BY <1>4, <1>5, SetInduction
  <2> QED
    BY <1>3, <2>1
<1>7. CASE loop[N].at = 0
  BY <1>1, <1>6, <1>7 DEF w
<1>8. CASE loop[N].at # 0
  <2>1. loop[N].v \in ViewType
    BY <1>6 DEF Fewer
  <2>2. w = [loop[N].v EXCEPT !.hung = TRUE]
    BY <1>1, <1>8
  <2>3. Fewer(v, w)
    <3>1. /\ w \in ViewType /\ SameFrame(loop[N].v, w) /\ w.stale = loop[N].v.stale
          /\ w.idb = loop[N].v.idb /\ w.absent = loop[N].v.absent
          /\ w.state = loop[N].v.state
      BY <2>1, <2>2, SetHung
    <3> QED
      BY <1>6, <3>1 DEF Fewer, SameFrame
  <2> QED
    BY <2>3 DEF w
<1> QED
  BY <1>7, <1>8

(* The loop comes to the end of the list and has removed what is absent.   *)
LEMMA RemovedList ==
  ASSUME NEW v \in ViewType, NEW key, NEW top, Linked(v, key, top), Unhooked(v), Counted(v),
         NEW w, w = RemoveAbsent(v), ~w.stale
  PROVE  /\ Linked(w, key, top) /\ Unhooked(w) /\ Counted(w)
         /\ w.idb = v.idb \ v.absent /\ w.hung = v.hung
<1> DEFINE N == MaxId + 1
           D == v.idb
<1>1. PICK loop : /\ RemoveSteps(loop, v)
                  /\ w = IF loop[N].at = 0 THEN loop[N].v ELSE [loop[N].v EXCEPT !.hung = TRUE]
  BY RemoveIs
<1>2. /\ loop \in [0 .. N -> Removing] /\ loop[0] = [v |-> v, at |-> v.bod]
      /\ \A k \in 1 .. N : loop[k] = RemoveOne(loop[k - 1])
  BY <1>1 DEF RemoveSteps
<1>3. N \in Nat /\ MaxId \in Nat /\ N = MaxId + 1
  BY IdsNat
<1>4. key \in [Ids -> Nat] /\ D \subseteq Ids
  BY ViewParts DEF Linked
<1>5. \A b \in D : /\ Cardinality(Over(D, key, b)) \in Nat /\ Cardinality(Over(D, key, b)) < MaxId
                   /\ \A n \in D : key[n] < key[b] =>
                        Cardinality(Over(D, key, b)) + 1 <= Cardinality(Over(D, key, n))
  <2> HIDE DEF D
  <2> QED
    BY <1>4, OverBound
<1> DEFINE Done(l) ==
             /\ Linked(l.v, key, top) /\ Unhooked(l.v) /\ Counted(l.v)
             /\ l.at = 0 \/ l.at \in l.v.idb
             /\ l.v.absent = v.absent /\ l.v.hung = v.hung
             /\ l.v.idb \subseteq D /\ D \ v.absent \subseteq l.v.idb
             /\ \A c \in l.v.idb \cap v.absent : l.at # 0 /\ key[c] <= key[l.at]
           P(k) == \/ loop[k].v.stale
                   \/ /\ Done(loop[k])
                      /\ loop[k].at # 0 => k <= Cardinality(Over(D, key, loop[k].at))
           S == {k \in Nat : k <= N => P(k)}
<1> HIDE DEF N
<1>6. 0 \in S
  <2> SUFFICES P(0)
    OBVIOUS
  <2>1. loop[0].v = v /\ loop[0].at = v.bod
    BY <1>2
  <2>2. IF v.bod = 0 THEN D = {} ELSE v.bod \in D /\ \A c \in D : key[c] <= key[v.bod]
    BY DEF Linked, Higher
  <2>3. Done(loop[0])
    BY <2>1, <2>2
  <2>4. loop[0].at # 0 => 0 <= Cardinality(Over(D, key, loop[0].at))
    BY <1>5, <2>1, <2>2
  <2> QED
    BY <2>3, <2>4
<1>7. ASSUME NEW k \in Nat, k \in S
      PROVE  k + 1 \in S
  <2> SUFFICES ASSUME k + 1 <= N
               PROVE  P(k + 1)
    OBVIOUS
  <2>1. k + 1 \in 1 .. N /\ k \in 0 .. N /\ k + 1 - 1 = k /\ P(k)
    BY <1>3, <1>7
  <2> DEFINE l == loop[k]
             m == loop[k + 1]
             b == l.at
             n == l.v.next[b]
  <2>2. m = RemoveOne(l) /\ l \in Removing /\ m \in Removing
    BY <1>2, <2>1, RemoveOneType
  <2>3. l.v \in ViewType /\ b \in 0 .. MaxId /\ m.v \in ViewType
    BY <2>2 DEF Removing
  <2> HIDE DEF P, S, Done
  <2>4. CASE l.v.stale
    <3>1. Fewer(l.v, l.v)
      BY <2>3 DEF Fewer, SameFrame
    <3>2. m.v.stale
      BY <2>2, <2>4, <3>1, FewerOne DEF Fewer
    <3> QED
      BY <3>2 DEF P
  <2>5. CASE ~l.v.stale /\ b = 0
    <3>1. m = l
      BY <2>2, <2>5 DEF RemoveOne
    <3> QED
      BY <2>1, <2>5, <3>1 DEF P
  <2>6. CASE ~l.v.stale /\ b # 0 /\ ~m.v.stale
    <3>1. Done(l) /\ k <= Cardinality(Over(D, key, b))
      BY <2>1, <2>6 DEF P
    <3>2. /\ Linked(l.v, key, top) /\ Unhooked(l.v) /\ Counted(l.v) /\ b \in l.v.idb
          /\ l.v.absent = v.absent /\ l.v.hung = v.hung
          /\ l.v.idb \subseteq D /\ D \ v.absent \subseteq l.v.idb
          /\ \A c \in l.v.idb \cap v.absent : key[c] <= key[b]
      BY <2>6, <3>1 DEF Done
    <3>3. /\ IF n = 0 THEN \A c \in l.v.idb : key[b] <= key[c]
             ELSE n \in l.v.idb /\ key[n] < key[b]
                  /\ \A d \in l.v.idb : key[d] <= key[n] \/ key[b] <= key[d]
          /\ \A a, c \in l.v.idb : key[a] = key[c] => a = c
      BY <3>2 DEF Linked, Follows
    <3>4. m.at = n /\ m.v = IF b \in v.absent THEN Unlink(l.v, b) ELSE l.v
      BY <2>2, <2>6, <3>2 DEF RemoveOne
    <3> HIDE DEF l, m, b, n, D
    <3>5. \A c \in l.v.idb : key[c] \in Nat /\ c \in Ids
      BY <1>4, <3>2
    <3>6. n # b
      <4>1. b # 0
        BY <2>6
      <4> QED
        BY <3>2, <3>3, <3>5, <4>1
    <3>7. /\ Linked(m.v, key, top) /\ Unhooked(m.v) /\ Counted(m.v)
          /\ m.v.absent = v.absent /\ m.v.hung = v.hung
          /\ m.v.idb = IF b \in v.absent THEN l.v.idb \ {b} ELSE l.v.idb
      <4>1. CASE b \in v.absent
        <5>1. m.v = Unlink(l.v, b) /\ ~m.v.stale
          BY <2>6, <3>4, <4>1
        <5>2. Linked(m.v, key, top) /\ Unhooked(m.v) /\ Counted(m.v)
          BY <2>3, <3>2, <5>1, UnlinkLinked
        <5>3. m.v.absent = l.v.absent /\ m.v.hung = l.v.hung /\ m.v.idb = l.v.idb \ {b}
          <6>1. TakenOut(l.v, b, Unlink(l.v, b))
            BY <2>3, <3>2, <3>5, UnlinkView
          <6> QED
            BY <5>1, <6>1 DEF TakenOut
        <5> QED
          BY <3>2, <4>1, <5>2, <5>3
      <4>2. CASE b \notin v.absent
        BY <3>2, <3>4, <4>2
      <4> QED
        BY <4>1, <4>2
    <3>8. m.at = 0 \/ m.at \in m.v.idb
      BY <3>3, <3>4, <3>6, <3>7
    <3>9. m.v.idb \subseteq D /\ D \ v.absent \subseteq m.v.idb
      BY <3>2, <3>7
    <3>10. ASSUME NEW c \in m.v.idb \cap v.absent
           PROVE  m.at # 0 /\ key[c] <= key[m.at]
      <4>1. c \in l.v.idb /\ key[c] <= key[b] /\ c # b
        BY <3>2, <3>7
      <4>2. key[c] < key[b]
        BY <3>2, <3>3, <3>5, <4>1
      <4> QED
        BY <3>2, <3>3, <3>4, <3>5, <4>1, <4>2
    <3>11. Done(m)
      BY <3>7, <3>8, <3>9, <3>10 DEF Done
    <3>12. ASSUME m.at # 0
           PROVE  k + 1 <= Cardinality(Over(D, key, m.at))
      <4>1. n \in D /\ key[n] < key[b] /\ b \in D /\ m.at = n
        BY <3>2, <3>3, <3>4, <3>12
      <4>2. /\ Cardinality(Over(D, key, b)) \in Nat /\ Cardinality(Over(D, key, n)) \in Nat
            /\ Cardinality(Over(D, key, b)) + 1 <= Cardinality(Over(D, key, n))
        BY <1>5, <4>1
      <4> QED
        BY <3>1, <4>1, <4>2
    <3> QED
      BY <3>11, <3>12 DEF P, m
  <2>7. CASE m.v.stale
    BY <2>7 DEF P
  <2> QED
    BY <2>4, <2>5, <2>6, <2>7
<1>8. P(N)
  <2>1. \A k \in Nat : k \in S
    <3> HIDE DEF S
    <3> QED
      BY <1>6, <1>7, SetInduction
  <2> QED
    BY <1>3, <2>1
<1>9. loop[N].v \in ViewType
  <2>1. loop[N] \in Removing
    BY <1>2, <1>3
  <2> QED
    BY <2>1 DEF Removing
<1>10. ~loop[N].v.stale
  <2>1. CASE loop[N].at = 0
    BY <1>1, <2>1
  <2>2. CASE loop[N].at # 0
    <3>1. w = [loop[N].v EXCEPT !.hung = TRUE]
      BY <1>1, <2>2
    <3>2. w.stale = loop[N].v.stale
      BY <1>9, <3>1, SetHung
    <3> QED
      BY <3>2
  <2> QED
    BY <2>1, <2>2
<1>11. /\ Done(loop[N])
       /\ loop[N].at # 0 => N <= Cardinality(Over(D, key, loop[N].at))
  BY <1>8, <1>10
<1>12. loop[N].at = 0
  <2> SUFFICES ASSUME loop[N].at # 0 PROVE FALSE
    OBVIOUS
  <2>1. loop[N].at \in D /\ N <= Cardinality(Over(D, key, loop[N].at))
    BY <1>11
  <2>2. /\ Cardinality(Over(D, key, loop[N].at)) \in Nat
        /\ Cardinality(Over(D, key, loop[N].at)) < MaxId
    BY <1>5, <2>1
  <2> QED
    BY <1>3, <2>1, <2>2
<1>13. w = loop[N].v
  BY <1>1, <1>12
<1>14. w.idb = D \ v.absent
  BY <1>11, <1>12, <1>13
<1> QED
  BY <1>11, <1>13, <1>14

-----------------------------------------------------------------------------
(* Reading a frame.                                                        *)

ListKept(v) == Unhooked(v) /\ Counted(v) /\ \E key, top : Linked(v, key, top)

LEMMA SameLinks ==
  ASSUME NEW v, NEW w, ListKept(v),
         w.idb = v.idb, w.nbod = v.nbod, w.bod = v.bod, w.next = v.next, w.prev = v.prev
  PROVE  ListKept(w)
<1>1. PICK key, top : Linked(v, key, top)
  BY DEF ListKept
<1>2. Linked(w, key, top)
  BY <1>1 DEF Linked, Higher, Follows
<1>3. Unhooked(w) /\ Counted(w)
  BY DEF ListKept, Unhooked, Counted
<1> QED
  BY <1>2, <1>3 DEF ListKept

LEMMA InsertKept ==
  ASSUME NEW v \in ViewType, ListKept(v), NEW b \in Ids \ v.idb
  PROVE  ListKept(Insert(v, b))
<1>1. PICK key, top : Linked(v, key, top)
  BY DEF ListKept
<1> DEFINE w == Insert(v, b)
<1>2. /\ Linked(w, [key EXCEPT ![b] = top], top + 1) /\ Unhooked(w) /\ Counted(w)
  BY <1>1, InsertLinked DEF ListKept
<1> HIDE DEF w
<1>3. ListKept(w)
  BY <1>2 DEF ListKept
<1> QED
  BY <1>3 DEF w

(* A domain whose reader has read the .bod files.                          *)
Loaded == {v \in ViewType : v.all = All}

(* w is v after the bodies of S have been read, at the time t.             *)
BodiesHere(v, S, t, w) ==
  /\ w \in Loaded /\ SameFrame(v, w) /\ w.hung = v.hung /\ w.stale = v.stale
  /\ w.idb = v.idb \cup S /\ w.absent = v.absent \ S
  /\ \A b \in S : w.state[b] = t
  /\ ListKept(v) => ListKept(w)

(* ... and after one body has been read.                                   *)
BodyHere(v, b, t, w) ==
  /\ BodiesHere(v, {b}, t, w)
  /\ \A c \in Ids \ {b} : w.state[c] = v.state[c]

LEMMA PairParts ==
  ASSUME NEW A, NEW B, NEW y \in A \X B
  PROVE  y[1] \in A /\ y[2] \in B /\ y = <<y[1], y[2]>>
OBVIOUS

LEMMA ReadBodyView ==
  ASSUME NEW v \in Loaded, NEW b \in DOMAIN All, DOMAIN All \subseteq Ids,
         NEW t \in 0 .. MaxTime, NEW x, x[1] = b, x[2] = t
  PROVE  BodyHere(v, b, t, ReadBody(v, x))
<1> DEFINE u == IF b \in v.idb THEN v ELSE Insert(v, b)
           w == ReadBody(v, x)
<1>1. v \in ViewType /\ v.all = All /\ b \in Ids
  BY DEF Loaded
<1>2. /\ u \in ViewType /\ SameFrame(v, u) /\ u.hung = v.hung /\ u.stale = v.stale
      /\ u.idb = v.idb \cup {b} /\ u.absent = v.absent /\ u.state = v.state
      /\ ListKept(v) => ListKept(u)
  <2>1. CASE b \in v.idb
    BY <1>1, <2>1 DEF SameFrame
  <2>2. CASE b \notin v.idb
    <3>1. PutIn(v, b, u)
      BY <1>1, <2>2, InsertView
    <3>2. ListKept(v) => ListKept(u)
      BY <1>1, <2>2, InsertKept
    <3> HIDE DEF u
    <3> QED
      BY <3>1, <3>2 DEF PutIn
  <2> QED
    BY <2>1, <2>2
<1>3. w = [u EXCEPT !.state[b] = t, !.absent = @ \ {b}]
  BY <1>1 DEF ReadBody
<1> HIDE DEF u, w
<1>4. ViewFields(u)
  BY <1>2, ViewParts
<1>5. w = [status |-> u.status, cur |-> u.cur, known |-> u.known, failed |-> u.failed,
           hung |-> u.hung, stale |-> u.stale, time |-> u.time, all |-> u.all,
           allread |-> u.allread, idb |-> u.idb, nbod |-> u.nbod,
           absent |-> u.absent \ {b}, bod |-> u.bod, next |-> u.next, prev |-> u.prev,
           state |-> [u.state EXCEPT ![b] = t], shown |-> u.shown]
  BY <1>3, <1>4 DEF ViewFields
<1>6. /\ w.status = u.status /\ w.cur = u.cur /\ w.known = u.known
      /\ w.failed = u.failed /\ w.hung = u.hung /\ w.stale = u.stale
      /\ w.time = u.time /\ w.all = u.all /\ w.allread = u.allread
      /\ w.idb = u.idb /\ w.nbod = u.nbod /\ w.absent = u.absent \ {b}
      /\ w.bod = u.bod /\ w.next = u.next /\ w.prev = u.prev
      /\ w.state = [u.state EXCEPT ![b] = t] /\ w.shown = u.shown
      /\ ViewFields(w)
  BY <1>5 DEF ViewFields
<1>7. u.state \in [Ids -> 0 .. MaxTime]
  BY <1>2, ViewParts
<1>8. w.state \in [Ids -> 0 .. MaxTime]
  BY <1>6, <1>7, ExceptMap
<1>9. w \in ViewType
  <2>1. u.absent \ {b} \subseteq Ids
    BY <1>2, ViewParts
  <2> QED
    BY <1>2, <1>6, <1>8, <2>1, ViewParts
<1>10. w.all = All
  BY <1>1, <1>2, <1>6 DEF SameFrame
<1>11. ListKept(u) => ListKept(w)
  BY <1>6, SameLinks
<1>12. w.state[b] = t /\ \A c \in Ids \ {b} : w.state[c] = v.state[c]
  BY <1>1, <1>2, <1>6, <1>7
<1>13. BodiesHere(v, {b}, t, w)
  BY <1>2, <1>6, <1>9, <1>10, <1>11, <1>12 DEF BodiesHere, Loaded, SameFrame
<1> QED
  BY <1>12, <1>13 DEF w, BodyHere

ReadSteps(read, v, list) ==
  /\ read \in [0 .. Len(list) -> Loaded]
  /\ read[0] = v
  /\ \A k \in 1 .. Len(list) : read[k] = ReadBody(read[k - 1], list[k])

LEMMA ReadIs ==
  ASSUME DOMAIN All \subseteq Ids, NEW v \in Loaded,
         NEW list \in Seq((DOMAIN All) \X (0 .. MaxTime))
  PROVE  \E read : ReadSteps(read, v, list) /\ ReadBodies(v, list) = read[Len(list)]
<1> DEFINE N == Len(list)
           Body(f, k) == ReadBody(f[k - 1], list[k])
           Is(f) == f = [k \in 0 .. N |-> IF k = 0 THEN v ELSE Body(f, k)]
           read == CHOOSE f : Is(f)
           step == [p \in (1 .. N) \X Loaded |-> ReadBody(p[2], list[p[1]])]
<1>1. N \in Nat /\ \A k \in 1 .. N : list[k] \in (DOMAIN All) \X (0 .. MaxTime)
  OBVIOUS
<1>2. ReadBodies(v, list) = read[N]
  BY DEF ReadBodies
<1>3. step \in [(1 .. N) \X Loaded -> Loaded]
  <2> SUFFICES ASSUME NEW k \in 1 .. N, NEW u \in Loaded
               PROVE  ReadBody(u, list[k]) \in Loaded
    OBVIOUS
  <2> DEFINE x == list[k]
  <2>1. x[1] \in DOMAIN All /\ x[2] \in 0 .. MaxTime
    <3>1. x \in (DOMAIN All) \X (0 .. MaxTime)
      BY <1>1
    <3> HIDE DEF x
    <3> QED
      BY ONLY <3>1, PairParts
  <2> HIDE DEF x
  <2>2. BodyHere(u, x[1], x[2], ReadBody(u, x))
    BY <2>1, ReadBodyView
  <2> QED
    BY <2>2 DEF BodyHere, BodiesHere, x
<1>4. \A f, k : Body(f, k) = ReadBody(f[k - 1], list[k])
  OBVIOUS
<1>5. \A k \in 1 .. N, u \in Loaded : step[<<k, u>>] = ReadBody(u, list[k])
  OBVIOUS
<1> HIDE DEF N, step, Body
<1>6. PICK f : Recurs(f, N, Loaded, v, step)
  BY <1>1, <1>3, SetRecursion
<1>7. /\ f = [n \in 0 .. N |-> f[n]] /\ f[0] = v
      /\ \A n \in 0 .. N : n = 0 \/ n \in 1 .. N
      /\ \A n \in 1 .. N : /\ f[n - 1] \in Loaded
                           /\ f[n] = step[<<n, f[n - 1]>>]
  BY <1>1, <1>6, RecursSteps
<1>8. \A n \in 1 .. N : f[n] = Body(f, n)
  BY <1>4, <1>5, <1>7
<1>9. \A n \in 0 .. N : f[n] = IF n = 0 THEN v ELSE Body(f, n)
  BY <1>7, <1>8, <1>1
<1>10. Is(f)
  BY <1>7, <1>9
<1>11. Is(read)
  BY <1>10
<1> HIDE DEF read
<1>12. /\ read = [n \in 0 .. N |-> read[n]] /\ read[0] = v
       /\ \A n \in 1 .. N : read[n] = ReadBody(read[n - 1], list[n])
  <2>1. read = [n \in 0 .. N |-> IF n = 0 THEN v ELSE Body(read, n)]
    BY <1>11
  <2>2. 0 \in 0 .. N /\ \A n \in 1 .. N : n \in 0 .. N /\ n # 0
    BY <1>1
  <2> QED
    BY <1>4, <2>1, <2>2
<1>13. \A n \in 1 .. N : read[n - 1] \in Loaded => read[n] = step[<<n, read[n - 1]>>]
  BY <1>5, <1>12
<1>14. Recurs(read, N, Loaded, v, step)
  BY <1>1, <1>3, <1>12, <1>13, RecursTyped
<1>15. ReadSteps(read, v, list)
  BY <1>12, <1>14 DEF ReadSteps, Recurs, N
<1> QED
  BY <1>2, <1>15 DEF N

LEMMA ReadBodiesView ==
  ASSUME DOMAIN All \subseteq Ids, NEW v \in Loaded, NEW n, BodiesIn(n) \subseteq DOMAIN All,
         FrameTime(n) \in 0 .. MaxTime, NEW list, FrameList(list, n)
  PROVE  BodiesHere(v, BodiesIn(n), FrameTime(n), ReadBodies(v, list))
<1> DEFINE N == Len(list)
           t == FrameTime(n)
           Met(k) == {list[j][1] : j \in 1 .. k}
<1>1. /\ list \in Seq(Ids \X {t}) /\ N \in Nat /\ DOMAIN list = 1 .. N
      /\ {x[1] : x \in Range(list)} = BodiesIn(n)
  BY DEF FrameList
<1>2. Met(N) = BodiesIn(n)
  BY <1>1 DEF Range
<1>3. \A k \in 1 .. N : list[k] \in Ids \X {t} /\ list[k][1] \in DOMAIN All /\ list[k][2] = t
  <2>1. \A k \in 1 .. N : list[k] \in Ids \X {t} /\ list[k][1] \in Met(N)
    BY <1>1
  <2> QED
    BY <1>2, <2>1
<1>4. list \in Seq((DOMAIN All) \X (0 .. MaxTime))
  <2>1. \A k \in 1 .. N : list[k] \in (DOMAIN All) \X (0 .. MaxTime)
    <3> HIDE DEF N, t
    <3>1. ASSUME NEW k \in 1 .. N
          PROVE  list[k] \in (DOMAIN All) \X (0 .. MaxTime)
      <4>1. list[k] \in Ids \X {t} /\ list[k][1] \in DOMAIN All /\ list[k][2] = t
        BY <1>3
      <4>2. list[k] = <<list[k][1], list[k][2]>> /\ t \in 0 .. MaxTime
        BY <4>1, PairParts DEF t
      <4>3. <<list[k][1], t>> \in (DOMAIN All) \X (0 .. MaxTime)
        BY <4>1, <4>2
      <4> QED
        BY <4>1, <4>2, <4>3
    <3> QED
      BY <3>1
  <2>2. list = [k \in 1 .. N |-> list[k]]
    BY <1>1
  <2> DEFINE X == (DOMAIN All) \X (0 .. MaxTime)
  <2> HIDE DEF N, X
  <2>3. list \in [1 .. N -> X]
    BY <2>1, <2>2 DEF X
  <2>4. list \in Seq(X)
    BY <1>1, <2>3
  <2> QED
    BY <2>4 DEF X
<1>5. PICK read : ReadSteps(read, v, list) /\ ReadBodies(v, list) = read[N]
  BY <1>4, ReadIs
<1>6. /\ read \in [0 .. N -> Loaded] /\ read[0] = v
      /\ \A k \in 1 .. N : read[k] = ReadBody(read[k - 1], list[k])
  BY <1>5 DEF ReadSteps
<1> DEFINE S == {k \in Nat : k <= N => BodiesHere(v, Met(k), t, read[k])}
<1> HIDE DEF N, t
<1>7. 0 \in S
  <2>1. Met(0) = {}
    OBVIOUS
  <2>2. BodiesHere(v, {}, t, v)
    BY DEF BodiesHere, SameFrame
  <2> HIDE DEF Met
  <2> QED
    BY <1>6, <2>1, <2>2
<1>8. ASSUME NEW k \in Nat, k \in S
      PROVE  k + 1 \in S
  <2> SUFFICES ASSUME k + 1 <= N
               PROVE  BodiesHere(v, Met(k + 1), t, read[k + 1])
    OBVIOUS
  <2>1. k + 1 \in 1 .. N /\ k \in 0 .. N /\ k + 1 - 1 = k
    BY <1>1
  <2> DEFINE x == list[k + 1]
             b == x[1]
             u == read[k]
             w == read[k + 1]
  <2>2. /\ u \in Loaded /\ w = ReadBody(u, x) /\ BodiesHere(v, Met(k), t, u)
        /\ b \in DOMAIN All /\ x[2] = t
    <3> HIDE DEF Met
    <3>1. k <= N => BodiesHere(v, Met(k), t, read[k])
      BY <1>8
    <3>2. k <= N
      BY <1>1, <2>1
    <3>3. w = ReadBody(u, x)
      BY <1>6, <2>1
    <3>4. b \in DOMAIN All /\ x[2] = t
      BY <1>3, <2>1
    <3>5. u \in Loaded
      BY <1>6, <2>1
    <3> QED
      BY <3>1, <3>2, <3>3, <3>4, <3>5
  <2>3. Met(k + 1) = Met(k) \cup {b}
    <3>1. \A j \in 1 .. (k + 1) : j \in 1 .. k \/ j = k + 1
      OBVIOUS
    <3>2. \A j \in 1 .. k : j \in 1 .. (k + 1)
      OBVIOUS
    <3> QED
      BY <3>1, <3>2
  <2>4. Met(k) \subseteq Ids
    <3>1. \A j \in 1 .. k : j \in 1 .. N
      BY <2>1, <1>1
    <3> QED
      BY <1>3, <3>1
  <2> HIDE DEF Met, S, u, w, b, x
  <2>5. BodyHere(u, b, t, w)
    <3>1. t \in 0 .. MaxTime /\ x[1] = b
      BY DEF t, b
    <3>2. BodyHere(u, b, t, ReadBody(u, x))
      BY <2>2, <3>1, ReadBodyView
    <3> QED
      BY <2>2, <3>2
  <2>6. /\ w \in Loaded /\ SameFrame(u, w) /\ w.hung = u.hung /\ w.stale = u.stale
        /\ w.idb = u.idb \cup {b} /\ w.absent = u.absent \ {b}
        /\ w.state[b] = t
        /\ ListKept(u) => ListKept(w)
    BY <2>5 DEF BodyHere, BodiesHere
  <2>7. /\ SameFrame(v, u) /\ u.hung = v.hung /\ u.stale = v.stale
        /\ u.idb = v.idb \cup Met(k) /\ u.absent = v.absent \ Met(k)
        /\ \A c \in Met(k) : u.state[c] = t
        /\ ListKept(v) => ListKept(u)
    BY <2>2 DEF BodiesHere
  <2>8. SameFrame(v, w)
    BY <2>6, <2>7 DEF SameFrame
  <2>9. \A c \in Met(k) \cup {b} : w.state[c] = t
    BY <2>4, <2>5, <2>6, <2>7 DEF BodyHere
  <2>10. w.idb = v.idb \cup Met(k + 1) /\ w.absent = v.absent \ Met(k + 1)
    BY <2>3, <2>6, <2>7
  <2>11. BodiesHere(v, Met(k + 1), t, w)
    BY <2>3, <2>6, <2>7, <2>8, <2>9, <2>10 DEF BodiesHere
  <2> QED
    BY <2>11 DEF w
<1> HIDE DEF Met
<1>9. BodiesHere(v, Met(N), t, read[N])
  <2>1. \A k \in Nat : k \in S
    <3> HIDE DEF S
    <3> QED
      BY <1>7, <1>8, SetInduction
  <2> QED
    BY <1>1, <2>1
<1> QED
  BY <1>2, <1>5, <1>9 DEF t

(* w is v after frame n has been read into its domain.                     *)
DomainRead(v, n, w) ==
  /\ w \in ViewType /\ w.status = v.status /\ w.cur = v.cur /\ w.known = v.known
  /\ w.failed = v.failed /\ w.time = v.time /\ w.shown = v.shown
  /\ w.allread /\ w.all = All /\ w.idb \subseteq DOMAIN All
  /\ v.stale => w.stale
  /\ ~w.stale /\ ListKept(v) =>
       /\ ListKept(w) /\ w.hung = v.hung /\ w.idb = BodiesIn(n)
       /\ \A b \in BodiesIn(n) : w.state[b] = FrameTime(n)

LEMMA FrameBodies ==
  ASSUME OutputReadable, NEW n \in 0 .. (Count - 1)
  PROVE  BodiesIn(n) \subseteq DOMAIN All
BY DEF BodiesIn, OutputReadable, FrameKnown

LEMMA DomRead ==
  ASSUME OutputReadable, NEW v \in ViewType, NEW n \in 0 .. (Count - 1), FrameWhole(n),
         v.cur = [r \in Ranks |-> n],
         v.all = IF v.allread THEN All ELSE InputBodies, v.idb \subseteq DOMAIN v.all
  PROVE  DomainRead(v, n, dom_read_state(v))
<1> DEFINE B == BodiesIn(n)
           t == FrameTime(n)
           list == Recorded(v.cur)
<1>1. PICK u : u = [v EXCEPT !.all = IF v.allread THEN @ ELSE read_new_bodies(@),
                             !.allread = TRUE,
                             !.absent = @ \cup Listed(v),
                             !.hung = @ \/ IsRing(v)]
  OBVIOUS
<1>2. PICK x : x = ReadBodies(u, list)
  OBVIOUS
<1>3. PICK w : w = RemoveAbsent(x)
  OBVIOUS
<1>4. w = dom_read_state(v)
  BY <1>1, <1>2, <1>3 DEF dom_read_state
<1>5. B \subseteq DOMAIN All /\ DOMAIN All \subseteq Ids /\ t \in 0 .. MaxTime
  BY FrameBodies DEF OutputReadable
<1>6. v.idb \subseteq DOMAIN All
  BY DEF OutputReadable, InputBodies
<1>7. FrameList(list, n)
  BY RecordedList
<1> HIDE DEF B, t, list
<1>8. (IF v.allread THEN v.all ELSE read_new_bodies(v.all)) = All
  BY DEF All
<1>9. PICK ring \in BOOLEAN : ring = (v.hung \/ IsRing(v))
  OBVIOUS
<1>10. Listed(v) \subseteq Ids
  <2>1. Walk(v) \in [0 .. MaxId -> 0 .. MaxId]
    BY WalkIs DEF WalkSteps
  <2> HIDE DEF Walk
  <2>2. \A b \in 0 .. MaxId : b # 0 => b \in Ids
    BY IdsNat DEF Ids
  <2> QED
    BY <2>1, <2>2 DEF Listed, Range
<1>11. u = [status |-> v.status, cur |-> v.cur, known |-> v.known, failed |-> v.failed,
            hung |-> ring, stale |-> v.stale, time |-> v.time, all |-> All,
            allread |-> TRUE, idb |-> v.idb, nbod |-> v.nbod,
            absent |-> v.absent \cup Listed(v), bod |-> v.bod, next |-> v.next, prev |-> v.prev,
            state |-> v.state, shown |-> v.shown]
  <2>1. ViewFields(v)
    BY ViewParts
  <2> QED
    BY <1>1, <1>8, <1>9, <2>1 DEF ViewFields
<1>12. /\ u.status = v.status /\ u.cur = v.cur /\ u.known = v.known
       /\ u.failed = v.failed /\ u.hung = ring /\ u.stale = v.stale
       /\ u.time = v.time /\ u.all = All /\ u.allread = TRUE
       /\ u.idb = v.idb /\ u.nbod = v.nbod /\ u.absent = v.absent \cup Listed(v)
       /\ u.bod = v.bod /\ u.next = v.next /\ u.prev = v.prev
       /\ u.state = v.state /\ u.shown = v.shown
       /\ ViewFields(u)
  BY <1>11 DEF ViewFields
<1>13. u \in Loaded
  <2>1. v.absent \cup Listed(v) \subseteq Ids
    BY <1>10, ViewParts
  <2>2. u \in ViewType
    BY <1>12, <2>1, ViewParts
  <2> QED
    BY <1>12, <2>2 DEF Loaded
<1>14. BodiesHere(u, B, t, x)
  BY <1>2, <1>5, <1>7, <1>13, ReadBodiesView DEF B, t
<1>15. x \in ViewType /\ Fewer(x, w)
  BY <1>3, <1>14, RemovedView DEF BodiesHere, Loaded
<1>16. /\ w \in ViewType /\ SameFrame(u, w)
       /\ w.idb \subseteq v.idb \cup B
       /\ v.stale => w.stale
       /\ w.state = x.state /\ \A b \in B : w.state[b] = t
  BY <1>12, <1>14, <1>15 DEF BodiesHere, Fewer, SameFrame
<1>17. ASSUME ~w.stale, ListKept(v)
       PROVE  ListKept(w) /\ w.hung = v.hung /\ w.idb = B
  <2>1. ListKept(u)
    BY <1>12, <1>17, SameLinks
  <2>2. ListKept(x) /\ x.idb = v.idb \cup B /\ x.absent = (v.absent \cup Listed(v)) \ B
        /\ x.hung = ring
    BY <1>12, <1>14, <2>1 DEF BodiesHere
  <2>3. PICK key, top : Linked(x, key, top)
    BY <2>2 DEF ListKept
  <2>4. /\ Linked(w, key, top) /\ Unhooked(w) /\ Counted(w)
        /\ w.idb = x.idb \ x.absent /\ w.hung = x.hung
    BY <1>3, <1>15, <1>17, <2>2, <2>3, RemovedList DEF ListKept
  <2>5. PICK k, p : Linked(v, k, p)
    BY <1>17 DEF ListKept
  <2>6. Listed(v) = v.idb /\ ~IsRing(v)
    BY <2>5, WalkList
  <2>7. ListKept(w)
    BY <2>4 DEF ListKept
  <2>8. ring = v.hung
    <3>1. v.hung \in BOOLEAN
      BY ViewParts
    <3> QED
      BY <1>9, <2>6, <3>1
  <2>9. w.idb = B
    BY <2>2, <2>4, <2>6
  <2> QED
    BY <2>2, <2>4, <2>7, <2>8, <2>9
<1>18. DomainRead(v, n, w)
  <2>1. w.idb \subseteq DOMAIN All
    BY <1>5, <1>6, <1>16
  <2> QED
    BY <1>12, <1>16, <1>17, <2>1 DEF DomainRead, SameFrame, B, t
<1> QED
  BY <1>4, <1>18

-----------------------------------------------------------------------------
(* The view of a reader of readable output.                                *)

Places == 0 .. (Count - 1)

AtFrame(v, n) == v.cur = [r \in Ranks |-> n]

Base(v) ==
  /\ v \in ViewType /\ v.status = "open" /\ ~v.failed
  /\ v.all = IF v.allread THEN All ELSE InputBodies
  /\ v.idb \subseteq DOMAIN v.all
  /\ v.stale \/ (ListKept(v) /\ ~v.hung)

(* The domain has been read of frame m.                                    *)
ShownFrame(v, m) ==
  /\ v.shown = [r \in Ranks |-> m] /\ v.time = FrameTime(m) /\ v.allread
  /\ \/ v.stale
     \/ v.idb = BodiesIn(m) /\ \A b \in BodiesIn(m) : v.state[b] = FrameTime(m)

(* A view that has read some frame, with its files at frame n.             *)
Settled(v, n) ==
  /\ Base(v) /\ v.known /\ AtFrame(v, n) /\ n \in Places
  /\ \E m \in Places : ShownFrame(v, m)

GoodView(v) ==
  \/ \E n \in Places : Settled(v, n)
  \/ Base(v) /\ ~v.known /\ AtFrame(v, 0)

(* w has just read frame n.                                                *)
JustRead(w, n) == Settled(w, n) /\ ShownFrame(w, n)

(* A reader that has met a frame whose data are lost: it has stopped.      *)
Failed(v) ==
  /\ v \in ViewType /\ v.status = "open" /\ v.known /\ v.failed
  /\ v.idb \subseteq DOMAIN v.all
  /\ \E m \in Places : AtFrame(v, m) /\ ~FrameWhole(m)

SaneView(v) == GoodView(v) \/ Failed(v)

Shows(w, n) == JustRead(w, n) \/ Failed(w)

LEMMA ReadGood ==
  ASSUME OutputReadable, NEW v, Base(v), NEW n \in Places, AtFrame(v, n), FrameWhole(n),
         v.known \/ n = 0
  PROVE  JustRead(read_state(v), n) /\ (v.stale => read_state(v).stale)
<1> DEFINE c == v.cur[0]
<1>1. c = n /\ 0 \in Ranks
  BY ZeroRank DEF AtFrame
<1>2. /\ v \in ViewType /\ ViewFields(v) /\ v.failed = FALSE /\ v.known \in BOOLEAN
      /\ v.status = "open"
  BY ViewParts DEF Base
<1>3. /\ FrameRead(file[0], n, log[0][n + 1]) /\ FrameKnown(file[0], n, log[0][n + 1])
      /\ FrameTime(n) \in 0 .. MaxTime
  BY <1>1 DEF OutputReadable, Places, FrameWhole
<1> DEFINE iover == v.known \/ HasLabel(file[0], c, "IOVER")
           timers == \E r \in Ranks : HasLabel(file[r], v.cur[r], "TIMERS")
<1>4. iover = TRUE
  BY <1>1, <1>2, <1>3 DEF FrameRead
<1>5. timers = TRUE
  BY <1>1, <1>3 DEF FrameRead
<1>6. PICK u : u = [v EXCEPT !.time = TimeOf(file[0], c), !.known = TRUE, !.failed = @ \/ ~iover]
  OBVIOUS
<1>7. PICK x : x = dom_read_state(u)
  OBVIOUS
<1>8. PICK w : w = [x EXCEPT !.failed = @ \/ ~timers, !.shown = v.cur]
  OBVIOUS
<1>9. w = read_state(v)
  BY <1>2, <1>6, <1>7, <1>8 DEF read_state
<1>10. TimeOf(file[0], c) = FrameTime(n)
  BY <1>1, <1>3 DEF FrameKnown
<1> HIDE DEF c, iover, timers
<1>11. u = [status |-> v.status, cur |-> v.cur, known |-> TRUE, failed |-> FALSE,
            hung |-> v.hung, stale |-> v.stale, time |-> FrameTime(n), all |-> v.all,
            allread |-> v.allread, idb |-> v.idb, nbod |-> v.nbod,
            absent |-> v.absent, bod |-> v.bod, next |-> v.next, prev |-> v.prev,
            state |-> v.state, shown |-> v.shown]
  BY <1>2, <1>4, <1>6, <1>10 DEF ViewFields
<1>12. /\ u.status = v.status /\ u.cur = v.cur /\ u.known = TRUE
       /\ u.failed = FALSE /\ u.hung = v.hung /\ u.stale = v.stale
       /\ u.time = FrameTime(n) /\ u.all = v.all /\ u.allread = v.allread
       /\ u.idb = v.idb /\ u.nbod = v.nbod /\ u.absent = v.absent
       /\ u.bod = v.bod /\ u.next = v.next /\ u.prev = v.prev
       /\ u.state = v.state /\ u.shown = v.shown
       /\ ViewFields(u)
  BY <1>11 DEF ViewFields
<1>13. u \in ViewType
  <2>1. /\ v.status \in {"none", "open", "refused"}
           /\ v.cur \in [Ranks -> Nat] /\ v.shown \in [Ranks -> Nat]
           /\ v.hung \in BOOLEAN
           /\ v.stale \in BOOLEAN /\ v.allread \in BOOLEAN
           /\ v.all \in {InputBodies, All}
           /\ v.idb \subseteq Ids /\ v.absent \subseteq Ids /\ v.nbod \in Int
           /\ v.bod \in 0 .. MaxId /\ v.next \in [Ids -> 0 .. MaxId]
           /\ v.prev \in [Ids -> 0 .. MaxId] /\ v.state \in [Ids -> 0 .. MaxTime]
    BY <1>2, ViewParts
  <2> QED
    BY <1>3, <1>12, <2>1, ViewParts
<1>14. DomainRead(u, n, x)
  BY <1>7, <1>12, <1>13, DomRead DEF Base, AtFrame, Places
<1>15. x \in ViewType /\ ViewFields(x) /\ x.failed = FALSE
  BY <1>12, <1>14, ViewParts DEF DomainRead
<1>16. w = [status |-> x.status, cur |-> x.cur, known |-> x.known, failed |-> FALSE,
            hung |-> x.hung, stale |-> x.stale, time |-> x.time, all |-> x.all,
            allread |-> x.allread, idb |-> x.idb, nbod |-> x.nbod,
            absent |-> x.absent, bod |-> x.bod, next |-> x.next, prev |-> x.prev,
            state |-> x.state, shown |-> v.cur]
  BY <1>5, <1>8, <1>15 DEF ViewFields
<1>17. /\ w.status = x.status /\ w.cur = x.cur /\ w.known = x.known
       /\ w.failed = FALSE /\ w.hung = x.hung /\ w.stale = x.stale
       /\ w.time = x.time /\ w.all = x.all /\ w.allread = x.allread
       /\ w.idb = x.idb /\ w.nbod = x.nbod /\ w.absent = x.absent
       /\ w.bod = x.bod /\ w.next = x.next /\ w.prev = x.prev
       /\ w.state = x.state /\ w.shown = v.cur
       /\ ViewFields(w)
  BY <1>16 DEF ViewFields
<1>18. w \in ViewType
  <2>1. /\ x.status \in {"none", "open", "refused"}
           /\ x.cur \in [Ranks -> Nat] /\ v.cur \in [Ranks -> Nat]
           /\ x.known \in BOOLEAN /\ x.hung \in BOOLEAN
           /\ x.stale \in BOOLEAN /\ x.allread \in BOOLEAN
           /\ x.time \in 0 .. MaxTime /\ x.all \in {InputBodies, All}
           /\ x.idb \subseteq Ids /\ x.absent \subseteq Ids /\ x.nbod \in Int
           /\ x.bod \in 0 .. MaxId /\ x.next \in [Ids -> 0 .. MaxId]
           /\ x.prev \in [Ids -> 0 .. MaxId] /\ x.state \in [Ids -> 0 .. MaxTime]
    BY <1>2, <1>15, ViewParts
  <2> QED
    BY <1>17, <2>1, ViewParts
<1>19. x.stale \in BOOLEAN /\ v.stale \in BOOLEAN
  BY <1>2, <1>15, ViewParts
<1>20. v.stale => w.stale
  BY <1>12, <1>14, <1>17 DEF DomainRead
<1>21. ASSUME ~w.stale
       PROVE  /\ ListKept(w) /\ ~w.hung /\ w.idb = BodiesIn(n)
              /\ \A b \in BodiesIn(n) : w.state[b] = FrameTime(n)
  <2>1. ListKept(v) /\ ~v.hung
    BY <1>20, <1>21 DEF Base
  <2>2. ListKept(u)
    BY <1>12, <2>1, SameLinks
  <2>3. /\ ListKept(x) /\ x.hung = u.hung /\ x.idb = BodiesIn(n)
        /\ \A b \in BodiesIn(n) : x.state[b] = FrameTime(n)
    BY <1>14, <1>17, <1>21, <2>2 DEF DomainRead
  <2>4. ListKept(w)
    BY <1>17, <2>3, SameLinks
  <2> QED
    BY <1>12, <1>17, <2>1, <2>3, <2>4
<1>22. Base(w)
  <2>1. w.all = All /\ w.allread /\ w.idb \subseteq DOMAIN All /\ w.status = "open"
    BY <1>2, <1>12, <1>14, <1>17 DEF DomainRead
  <2> QED
    BY <1>17, <1>18, <1>21, <2>1 DEF Base
<1>23. ShownFrame(w, n)
  <2>1. w.shown = [r \in Ranks |-> n] /\ w.time = FrameTime(n) /\ w.allread
    BY <1>12, <1>14, <1>17 DEF DomainRead, AtFrame
  <2> QED
    BY <1>21, <2>1 DEF ShownFrame
<1>24. w.known /\ AtFrame(w, n)
  BY <1>12, <1>14, <1>17 DEF DomainRead, AtFrame
<1> QED
  BY <1>9, <1>20, <1>22, <1>23, <1>24 DEF JustRead, Settled

-----------------------------------------------------------------------------
(* The binary search for the frame of a time.                              *)

Range3 == [l : 0 .. Count, h : -1 .. (Count - 1), m : Places]

SearchOne(s, t) ==
  LET mid == s.l + (s.h - s.l) \div 2
  IN  IF s.l > s.h THEN s
      ELSE IF t = FrameTime(mid) THEN [l |-> mid, h |-> mid, m |-> mid]
      ELSE IF t < FrameTime(mid) THEN [l |-> s.l, h |-> mid - 1, m |-> mid]
      ELSE [l |-> mid + 1, h |-> s.h, m |-> mid]

LEMMA CountNat ==
  ASSUME OutputReadable
  PROVE  /\ Count \in Nat \ {0} /\ Places \subseteq Nat /\ 0 \in Places
         /\ Places \subseteq Int /\ \A n \in Places : n < Count
         /\ \A n \in Places : FrameTime(n) \in 0 .. MaxTime /\ FrameTime(n) \in Int
BY DEF OutputReadable, Places

LEMMA Halving ==
  ASSUME NEW l \in Int, NEW h \in Int, l <= h
  PROVE  l + (h - l) \div 2 \in l .. h
OBVIOUS

LEMMA SearchOneType ==
  ASSUME OutputReadable, NEW s \in Range3, NEW t
  PROVE  SearchOne(s, t) \in Range3
<1>1. /\ s.l \in 0 .. Count /\ s.h \in -1 .. (Count - 1) /\ s.m \in Places
      /\ Count \in Nat
  BY CountNat DEF Range3
<1>2. CASE s.l > s.h
  BY <1>2 DEF SearchOne
<1>3. CASE ~ (s.l > s.h)
  <2>1. PICK mid : mid = s.l + (s.h - s.l) \div 2
    OBVIOUS
  <2>2. mid \in s.l .. s.h
    BY <1>1, <1>3, <2>1, Halving
  <2>3. mid \in Places /\ mid \in 0 .. Count /\ mid \in -1 .. (Count - 1)
        /\ mid - 1 \in -1 .. (Count - 1) /\ mid + 1 \in 0 .. Count
    BY <1>1, <2>2 DEF Places
  <2>4. SearchOne(s, t) \in {[l |-> mid, h |-> mid, m |-> mid],
                             [l |-> s.l, h |-> mid - 1, m |-> mid],
                             [l |-> mid + 1, h |-> s.h, m |-> mid]}
    BY <1>3, <2>1 DEF SearchOne
  <2> QED
    BY <1>1, <2>3, <2>4 DEF Range3
<1> QED
  BY <1>2, <1>3

SearchRun(at, t) ==
  /\ at \in [0 .. Count -> Range3]
  /\ at[0] = [l |-> 0, h |-> Count - 1, m |-> 0]
  /\ \A k \in 1 .. Count : at[k] = SearchOne(at[k - 1], t)

(* Where the search stops.                                                 *)
Stops(s) ==
  IF s.l <= s.h THEN s.m
  ELSE IF s.h < 0 THEN s.l
  ELSE IF s.l > Count - 1 THEN s.h
  ELSE s.m

LEMMA SearchIs ==
  ASSUME OutputReadable, NEW r \in Ranks, NEW t
  PROVE  \E at : SearchRun(at, t) /\ Search(file[r], t) = Stops(at[Count])
<1> DEFINE f == file[r]
           N == Size(f)
           first == [l |-> 0, h |-> N - 1, m |-> 0]
           Body(at, k) == LET s == at[k - 1]
                              mid == s.l + (s.h - s.l) \div 2
                          IN  IF s.l > s.h THEN s
                              ELSE IF t = TimeOf(f, mid) THEN [l |-> mid, h |-> mid, m |-> mid]
                              ELSE IF t < TimeOf(f, mid)
                                   THEN [l |-> s.l, h |-> mid - 1, m |-> mid]
                              ELSE [l |-> mid + 1, h |-> s.h, m |-> mid]
           Is(at) == at = [k \in 0 .. N |-> IF k = 0 THEN first ELSE Body(at, k)]
           at == CHOOSE at : Is(at)
           step == [p \in (1 .. N) \X Range3 |-> SearchOne(p[2], t)]
<1>1. /\ N = Count /\ N \in Nat
      /\ \A n \in Places : TimeOf(f, n) = FrameTime(n)
  BY CountNat DEF OutputReadable, FrameKnown, Places
<1>2. SearchSteps(f, t) = at
  BY DEF SearchSteps
<1>3. first \in Range3
  BY <1>1, CountNat DEF Range3, Places
<1>4. step \in [(1 .. N) \X Range3 -> Range3]
  BY SearchOneType
<1>5. ASSUME NEW g, NEW k, g[k - 1] \in Range3
      PROVE  Body(g, k) = SearchOne(g[k - 1], t)
  <2>1. PICK s \in Range3 : s = g[k - 1]
    BY <1>5
  <2>2. PICK mid : mid = s.l + (s.h - s.l) \div 2
    OBVIOUS
  <2>3. CASE s.l > s.h
    BY <2>1, <2>3 DEF SearchOne
  <2>4. CASE ~ (s.l > s.h)
    <3>1. /\ s.l \in 0 .. Count /\ s.h \in -1 .. (Count - 1) /\ Count \in Nat
      BY CountNat DEF Range3
    <3>2. mid \in s.l .. s.h
      BY <2>2, <2>4, <3>1, Halving
    <3>3. mid \in Places
      BY <3>1, <3>2 DEF Places
    <3>4. TimeOf(f, mid) = FrameTime(mid)
      BY <1>1, <3>3
    <3> HIDE DEF f
    <3> QED
      BY <2>1, <2>2, <3>4 DEF SearchOne
  <2> QED
    BY <2>3, <2>4
<1>6. \A k \in 1 .. N, s \in Range3 : step[<<k, s>>] = SearchOne(s, t)
  OBVIOUS
<1> HIDE DEF N, first, step, Body
<1>7. PICK g : Recurs(g, N, Range3, first, step)
  BY <1>1, <1>3, <1>4, SetRecursion
<1>8. /\ g = [n \in 0 .. N |-> g[n]] /\ g[0] = first
      /\ \A n \in 0 .. N : n = 0 \/ n \in 1 .. N
      /\ \A n \in 1 .. N : /\ g[n - 1] \in Range3
                           /\ g[n] = step[<<n, g[n - 1]>>]
  BY <1>1, <1>7, RecursSteps
<1>9. \A n \in 1 .. N : g[n] = Body(g, n)
  <2> SUFFICES ASSUME NEW n \in 1 .. N
               PROVE  g[n] = Body(g, n)
    OBVIOUS
  <2>1. g[n - 1] \in Range3 /\ g[n] = step[<<n, g[n - 1]>>]
    BY <1>8
  <2>2. g[n] = SearchOne(g[n - 1], t)
    BY <1>6, <2>1
  <2>3. Body(g, n) = SearchOne(g[n - 1], t)
    BY ONLY <1>5, <2>1
  <2> QED
    BY <2>2, <2>3
<1>10. \A n \in 0 .. N : g[n] = IF n = 0 THEN first ELSE Body(g, n)
  BY <1>1, <1>8, <1>9
<1>11. Is(g)
  BY <1>8, <1>10
<1>12. Is(at)
  BY <1>11
<1> HIDE DEF at
<1>13. /\ at = [n \in 0 .. N |-> at[n]] /\ at[0] = first
       /\ \A n \in 1 .. N : at[n] = Body(at, n)
  <2>1. at = [n \in 0 .. N |-> IF n = 0 THEN first ELSE Body(at, n)]
    BY <1>12
  <2>2. 0 \in 0 .. N /\ \A n \in 1 .. N : n \in 0 .. N /\ n # 0
    BY <1>1
  <2> QED
    BY <2>1, <2>2
<1>14. \A n \in 1 .. N : at[n - 1] \in Range3 => at[n] = step[<<n, at[n - 1]>>]
  BY <1>5, <1>6, <1>13
<1>15. Recurs(at, N, Range3, first, step)
  BY <1>1, <1>3, <1>4, <1>13, <1>14, RecursTyped
<1>16. /\ at \in [0 .. N -> Range3] /\ at[0] = first
       /\ \A n \in 1 .. N : at[n - 1] \in Range3
  BY <1>1, <1>15, RecursSteps
<1>17. \A n \in 1 .. N : at[n] = SearchOne(at[n - 1], t)
  BY <1>5, <1>13, <1>16
<1>18. SearchRun(at, t)
  BY <1>1, <1>16, <1>17 DEF SearchRun, first
<1>19. Search(f, t) = Stops(at[N])
  BY <1>1, <1>2 DEF Search, Stops, N
<1> QED
  BY <1>1, <1>18, <1>19

LEMMA SearchRunOnly ==
  ASSUME OutputReadable, NEW t, NEW f, SearchRun(f, t), NEW g, SearchRun(g, t)
  PROVE  f[Count] = g[Count]
<1> DEFINE S == {k \in Nat : k <= Count => f[k] = g[k]}
<1>1. Count \in Nat
  BY CountNat
<1>2. 0 \in S
  BY DEF SearchRun
<1>3. ASSUME NEW k \in Nat, k \in S
      PROVE  k + 1 \in S
  <2> SUFFICES ASSUME k + 1 <= Count
               PROVE  f[k + 1] = g[k + 1]
    OBVIOUS
  <2>1. k + 1 \in 1 .. Count /\ k + 1 - 1 = k /\ f[k] = g[k]
    BY <1>1, <1>3
  <2> QED
    BY <2>1 DEF SearchRun
<1>4. \A k \in Nat : k \in S
  <2> HIDE DEF S
  <2> QED
    BY <1>2, <1>3, SetInduction
<1> QED
  BY <1>1, <1>4

(* What is before frame m is earlier than t and what follows is not.       *)
Around(m, t) ==
  /\ m \in Places
  /\ \A j \in Places : /\ j < m => FrameTime(j) < t
                       /\ j > m => FrameTime(j) >= t

FoundAt(s, t) == s.l = s.h /\ s.m = s.l /\ Around(s.m, t) /\ FrameTime(s.m) = t

Narrowed(s, t, room) ==
  /\ s.h - s.l + 1 <= room /\ s.l <= s.h + 1
  /\ s.l <= s.h \/ s.m \in {s.l, s.h}
  /\ \A j \in Places : /\ j < s.l => FrameTime(j) < t
                       /\ j > s.h => FrameTime(j) > t

LEMMA FoundAround ==
  ASSUME OutputReadable, NEW s \in Range3, NEW t \in Int, NEW room \in Int, Narrowed(s, t, room),
         s.l <= s.h, NEW mid, mid = s.l + (s.h - s.l) \div 2, FrameTime(mid) = t
  PROVE  Around(mid, t)
<1>1. /\ s.l \in 0 .. Count /\ s.h \in -1 .. (Count - 1) /\ Count \in Nat
  BY CountNat DEF Range3
<1>2. /\ mid \in s.l .. s.h /\ mid \in Places
      /\ mid = Count - 1 => s.l = mid
  <2>1. mid \in s.l .. s.h
    BY <1>1, Halving
  <2>2. mid \in Places
    BY <1>1, <2>1 DEF Places
  <2>3. mid = Count - 1 => s.l = mid
    BY <1>1
  <2> QED
    BY <2>1, <2>2, <2>3
<1>3. ASSUME NEW j \in Places, j < mid
      PROVE  FrameTime(j) < t
  <2>1. CASE mid = Count - 1
    BY <1>2, <1>3, <2>1 DEF Narrowed
  <2>2. CASE mid # Count - 1
    <3>1. mid < Count - 1
      BY <1>1, <1>2, <2>2 DEF Places
    <3> QED
      BY <1>2, <1>3, <3>1 DEF OutputReadable, Sorted, Places
  <2> QED
    BY <2>1, <2>2
<1>4. ASSUME NEW j \in Places, j > mid
      PROVE  FrameTime(j) >= t
  <2>1. mid < j /\ j \in 0 .. (Count - 1) /\ mid \in 0 .. (Count - 1)
    BY <1>1, <1>2, <1>4 DEF Places
  <2>2. FrameTime(mid) < FrameTime(j) \/ FrameTime(mid) <= FrameTime(j)
    BY <2>1 DEF OutputReadable, Sorted
  <2>3. FrameTime(j) \in Int
    BY CountNat, <1>4
  <2> QED
    BY <2>2, <2>3
<1> QED
  BY <1>2, <1>3, <1>4 DEF Around

LEMMA SearchStep ==
  ASSUME OutputReadable, NEW s \in Range3, NEW t \in Int, NEW room \in Nat,
         FoundAt(s, t) \/ Narrowed(s, t, room + 1), NEW u, u = SearchOne(s, t)
  PROVE  FoundAt(u, t) \/ Narrowed(u, t, room)
<1>1. /\ s.l \in 0 .. Count /\ s.h \in -1 .. (Count - 1) /\ s.m \in Places /\ Count \in Nat
      /\ s.l \in Int /\ s.h \in Int
  BY CountNat DEF Range3
<1>2. CASE s.l > s.h
  <2>1. u = s /\ ~FoundAt(s, t)
    BY <1>1, <1>2 DEF SearchOne, FoundAt
  <2>2. Narrowed(s, t, room)
    BY <1>1, <1>2, <2>1 DEF Narrowed
  <2> QED
    BY <2>1, <2>2
<1>3. CASE s.l <= s.h
  <2>1. PICK mid : mid = s.l + (s.h - s.l) \div 2
    OBVIOUS
  <2>2. mid \in s.l .. s.h
    BY <1>1, <1>3, <2>1, Halving
  <2>3. mid \in Places /\ mid \in Int
    BY <1>1, <2>2 DEF Places
  <2>4. FrameTime(mid) \in Int
    BY <2>3, CountNat
  <2>5. ~ (s.l > s.h)
    BY <1>1, <1>3
  <2>6. CASE FoundAt(s, t)
    <3>1. mid = s.l /\ mid = s.m /\ mid = s.h
      BY <1>1, <2>2, <2>6 DEF FoundAt
    <3>2. u = [l |-> mid, h |-> mid, m |-> mid]
      BY <2>1, <2>5, <2>6, <3>1 DEF FoundAt, SearchOne
    <3>3. FoundAt(u, t)
      BY <2>6, <3>1, <3>2 DEF FoundAt
    <3> QED
      BY <3>3
  <2>7. CASE Narrowed(s, t, room + 1) /\ t = FrameTime(mid)
    <3>1. u = [l |-> mid, h |-> mid, m |-> mid]
      BY <2>1, <2>5, <2>7 DEF SearchOne
    <3>2. Around(mid, t)
      <4>1. room + 1 \in Int
        OBVIOUS
      <4> QED
        BY <1>3, <2>1, <2>7, <4>1, FoundAround
    <3>3. FoundAt(u, t)
      BY <2>7, <3>1, <3>2 DEF FoundAt
    <3> QED
      BY <3>3
  <2>8. CASE Narrowed(s, t, room + 1) /\ t # FrameTime(mid) /\ t < FrameTime(mid)
    <3>1. u = [l |-> s.l, h |-> mid - 1, m |-> mid]
      BY <2>1, <2>5, <2>8 DEF SearchOne
    <3>2. u.l = s.l /\ u.h = mid - 1 /\ u.m = mid
      BY <3>1
    <3>3. ASSUME NEW j \in Places, j > u.h
          PROVE  FrameTime(j) > t
      <4>1. j = mid \/ mid < j
        BY <2>3, <3>2, <3>3, CountNat
      <4>2. mid < j => FrameTime(mid) < FrameTime(j) \/ FrameTime(mid) <= FrameTime(j)
        BY <2>3 DEF OutputReadable, Sorted, Places
      <4>3. FrameTime(j) \in Int
        BY CountNat
      <4> QED
        BY <2>4, <2>8, <4>1, <4>2, <4>3
    <3>4. u.h - u.l + 1 <= room /\ u.l <= u.h + 1 /\ (u.l <= u.h \/ u.m \in {u.l, u.h})
      BY <1>1, <2>2, <2>8, <3>2 DEF Narrowed
    <3>5. \A j \in Places : j < u.l => FrameTime(j) < t
      BY <2>8, <3>2 DEF Narrowed
    <3> QED
      BY <3>3, <3>4, <3>5 DEF Narrowed
  <2>9. CASE Narrowed(s, t, room + 1) /\ t # FrameTime(mid) /\ ~ (t < FrameTime(mid))
    <3>1. u = [l |-> mid + 1, h |-> s.h, m |-> mid]
      BY <2>1, <2>5, <2>9 DEF SearchOne
    <3>2. u.l = mid + 1 /\ u.h = s.h /\ u.m = mid
      BY <3>1
    <3>3. ASSUME NEW j \in Places, j < u.l
          PROVE  FrameTime(j) < t
      <4>1. j = mid \/ j < mid
        BY <2>3, <3>2, <3>3, CountNat
      <4>2. j < mid => FrameTime(j) < FrameTime(mid) \/ FrameTime(j) <= FrameTime(mid)
        BY <2>3 DEF OutputReadable, Sorted, Places
      <4>3. FrameTime(j) \in Int
        BY CountNat
      <4> QED
        BY <2>4, <2>9, <4>1, <4>2, <4>3
    <3>4. u.h - u.l + 1 <= room /\ u.l <= u.h + 1 /\ (u.l <= u.h \/ u.m \in {u.l, u.h})
      BY <1>1, <2>2, <2>9, <3>2 DEF Narrowed
    <3>5. \A j \in Places : j > u.h => FrameTime(j) > t
      BY <2>9, <3>2 DEF Narrowed
    <3> QED
      BY <3>3, <3>4, <3>5 DEF Narrowed
  <2> QED
    BY <2>6, <2>7, <2>8, <2>9
<1> QED
  BY <1>1, <1>2, <1>3

(* The frame that is looked for at time t.                                 *)
Place(t) == Search(file[0], t)

Looked(m, t) ==
  /\ Around(m, t)
  /\ \A j \in Places : FrameTime(j) = t => FrameTime(m) = t

LEMMA SearchPlace ==
  ASSUME OutputReadable, NEW t \in Int
  PROVE  Looked(Place(t), t) /\ \A r \in Ranks : Search(file[r], t) = Place(t)
<1>1. PICK at : SearchRun(at, t) /\ Place(t) = Stops(at[Count])
  BY ZeroRank, SearchIs DEF Place
<1>2. ASSUME NEW r \in Ranks
      PROVE  Search(file[r], t) = Place(t)
  <2>1. PICK g : SearchRun(g, t) /\ Search(file[r], t) = Stops(g[Count])
    BY SearchIs
  <2>2. g[Count] = at[Count]
    BY <1>1, <2>1, SearchRunOnly
  <2> QED
    BY <1>1, <2>1, <2>2
<1>3. /\ at \in [0 .. Count -> Range3]
      /\ at[0] = [l |-> 0, h |-> Count - 1, m |-> 0]
      /\ \A k \in 1 .. Count : at[k] = SearchOne(at[k - 1], t)
  BY <1>1 DEF SearchRun
<1>4. Count \in Nat \ {0}
  BY CountNat
<1> DEFINE S == {k \in Nat : k <= Count => FoundAt(at[k], t) \/ Narrowed(at[k], t, Count - k)}
<1>5. 0 \in S
  <2>1. at[0].l = 0 /\ at[0].h = Count - 1
    BY <1>3
  <2>2. Narrowed(at[0], t, Count - 0)
    BY <1>4, <2>1 DEF Narrowed, Places
  <2> QED
    BY <2>2
<1>6. ASSUME NEW k \in Nat, k \in S
      PROVE  k + 1 \in S
  <2> SUFFICES ASSUME k + 1 <= Count
               PROVE  FoundAt(at[k + 1], t) \/ Narrowed(at[k + 1], t, Count - (k + 1))
    OBVIOUS
  <2>1. PICK s \in Range3 : s = at[k]
    BY <1>3, <1>4
  <2>2. PICK u : u = at[k + 1]
    OBVIOUS
  <2>3. PICK room \in Nat : room = Count - (k + 1) /\ room + 1 = Count - k
    BY <1>4
  <2>4. u = SearchOne(s, t)
    <3>1. k + 1 \in 1 .. Count /\ k + 1 - 1 = k
      BY <1>4
    <3> QED
      BY <1>3, <2>1, <2>2, <3>1
  <2>5. FoundAt(s, t) \/ Narrowed(s, t, room + 1)
    <3>1. FoundAt(at[k], t) \/ Narrowed(at[k], t, Count - k)
      BY <1>4, <1>6
    <3> QED
      BY <2>1, <2>3, <3>1
  <2>6. FoundAt(u, t) \/ Narrowed(u, t, room)
    BY <2>4, <2>5, SearchStep
  <2> QED
    BY <2>2, <2>3, <2>6
<1>7. \A k \in Nat : k \in S
  <2> HIDE DEF S
  <2> QED
    BY <1>5, <1>6, SetInduction
<1>8. PICK s \in Range3 : s = at[Count]
  BY <1>3, <1>4
<1>9. FoundAt(s, t) \/ Narrowed(s, t, 0)
  <2>1. FoundAt(at[Count], t) \/ Narrowed(at[Count], t, Count - Count)
    BY <1>4, <1>7
  <2>2. Count - Count = 0
    BY <1>4
  <2> QED
    BY <1>8, <2>1, <2>2
<1>10. /\ s.l \in 0 .. Count /\ s.h \in -1 .. (Count - 1) /\ s.m \in Places
       /\ \A j \in Places : FrameTime(j) \in Int /\ j \in Int
  BY CountNat DEF Range3
<1>11. CASE FoundAt(s, t)
  <2>1. Stops(s) = s.m
    BY <1>10, <1>11 DEF Stops, FoundAt
  <2>2. Around(s.m, t) /\ FrameTime(s.m) = t
    BY <1>11 DEF FoundAt
  <2>3. Looked(Place(t), t)
    BY <1>1, <1>8, <2>1, <2>2 DEF Looked
  <2> QED
    BY <1>2, <2>3
<1>12. CASE Narrowed(s, t, 0)
  <2>1. s.l = s.h + 1 /\ s.m \in {s.l, s.h}
    BY <1>10, <1>12 DEF Narrowed
  <2>2. PICK p : p = Stops(s)
    OBVIOUS
  <2>3. p \in Places /\ p \in {s.l, s.h}
    BY <1>4, <1>10, <2>1, <2>2 DEF Stops, Places
  <2>4. \A j \in Places : (j < s.l => FrameTime(j) < t) /\ (j > s.h => FrameTime(j) > t)
    BY <1>12 DEF Narrowed
  <2>5. Around(p, t)
    <3>1. ASSUME NEW j \in Places, j < p
          PROVE  FrameTime(j) < t
      <4>1. j < s.l
        BY <1>10, <2>1, <2>3, <3>1
      <4> QED
        BY <2>4, <4>1
    <3>2. ASSUME NEW j \in Places, j > p
          PROVE  FrameTime(j) >= t
      <4>1. j > s.h
        BY <1>10, <2>1, <2>3, <3>2
      <4> QED
        BY <1>10, <2>4, <4>1
    <3> QED
      BY <2>3, <3>1, <3>2 DEF Around
  <2>6. ASSUME NEW j \in Places
        PROVE  FrameTime(j) # t
    <3>1. j < s.l \/ j > s.h
      BY <1>10, <2>1
    <3> QED
      BY <1>10, <2>4, <3>1
  <2>7. Looked(Place(t), t)
    BY <1>1, <1>8, <2>2, <2>5, <2>6 DEF Looked
  <2> QED
    BY <1>2, <2>7
<1> QED
  BY <1>9, <1>11, <1>12

-----------------------------------------------------------------------------
(* The operations of the reader.                                           *)

(* w is v with its files at frame m.                                       *)
Moved(v, m, w) ==
  /\ Base(w) /\ AtFrame(w, m) /\ FrameWhole(m) /\ w.known = v.known /\ w.time = v.time
  /\ \A k : ShownFrame(v, k) => ShownFrame(w, k)

Arrives(v, m, w) == Moved(v, m, w) \/ Failed(w)

LEMMA FilesMoved ==
  ASSUME OutputReadable, NEW v, Base(v), v.known, NEW m \in Places,
         NEW w, w = MoveFiles(v, [r \in Ranks |-> m])
  PROVE  Arrives(v, m, w)
<1>1. v \in ViewType /\ ViewFields(v) /\ ~v.failed /\ m \in Nat
  BY CountNat, ViewParts DEF Base
<1> DEFINE cur == [r \in Ranks |-> m]
<1>2. cur \in [Ranks -> Nat]
  BY <1>1
<1>3. PICK lost \in BOOLEAN : lost = \E r \in Ranks : ~Complete(file[r], cur[r])
  OBVIOUS
<1>4. lost <=> ~FrameWhole(m)
  BY <1>3 DEF FrameWhole
<1>5. w = [v EXCEPT !.cur = cur, !.failed = lost]
  BY <1>3, <1>1 DEF MoveFiles
<1> HIDE DEF cur
<1>6. w = [status |-> v.status, cur |-> cur, known |-> v.known, failed |-> lost,
           hung |-> v.hung, stale |-> v.stale, time |-> v.time, all |-> v.all,
           allread |-> v.allread, idb |-> v.idb, nbod |-> v.nbod,
           absent |-> v.absent, bod |-> v.bod, next |-> v.next, prev |-> v.prev,
           state |-> v.state, shown |-> v.shown]
  BY <1>1, <1>5 DEF ViewFields
<1>7. /\ w.status = v.status /\ w.cur = cur /\ w.known = v.known
      /\ w.failed = lost /\ w.hung = v.hung /\ w.stale = v.stale
      /\ w.time = v.time /\ w.all = v.all /\ w.allread = v.allread
      /\ w.idb = v.idb /\ w.nbod = v.nbod /\ w.absent = v.absent
      /\ w.bod = v.bod /\ w.next = v.next /\ w.prev = v.prev
      /\ w.state = v.state /\ w.shown = v.shown
  BY ONLY <1>6
<1>8. ViewFields(w)
  BY <1>6, <1>7 DEF ViewFields
<1>9. w \in ViewType
  <2>1. /\ v.status \in {"none", "open", "refused"} /\ v.shown \in [Ranks -> Nat]
        /\ v.known \in BOOLEAN /\ v.hung \in BOOLEAN
        /\ v.stale \in BOOLEAN /\ v.allread \in BOOLEAN
        /\ v.time \in 0 .. MaxTime /\ v.all \in {InputBodies, All}
        /\ v.idb \subseteq Ids /\ v.absent \subseteq Ids /\ v.nbod \in Int
        /\ v.bod \in 0 .. MaxId /\ v.next \in [Ids -> 0 .. MaxId]
        /\ v.prev \in [Ids -> 0 .. MaxId] /\ v.state \in [Ids -> 0 .. MaxTime]
    BY <1>1, ViewParts
  <2> QED
    BY <1>3, <1>2, <1>7, <1>8, <2>1, ViewParts
<1>10. v.stale \/ (ListKept(w) /\ ~w.hung)
  <2>1. ListKept(v) => ListKept(w)
    BY <1>7, SameLinks
  <2> QED
    BY <1>7, <2>1 DEF Base
<1>11. AtFrame(w, m)
  BY <1>7 DEF AtFrame, cur
<1>12. \A k : ShownFrame(v, k) => ShownFrame(w, k)
  BY <1>7 DEF ShownFrame
<1>13. CASE lost
  BY <1>7, <1>9, <1>11, <1>4, <1>13 DEF Arrives, Failed, Base
<1>14. CASE ~lost
  <2>1. Base(w)
    BY <1>7, <1>9, <1>10, <1>14 DEF Base
  <2> QED
    BY <1>7, <1>11, <1>12, <1>4, <1>14, <2>1 DEF Arrives, Moved
<1> QED
  BY <1>13, <1>14

Ahead(n, k) == IF n + k >= Count THEN Count - 1 ELSE n + k

Back(n, k) == IF n < k THEN 0 ELSE n - k

LEMMA StepPlaces ==
  ASSUME OutputReadable, NEW n \in Places, NEW k \in Nat
  PROVE  Ahead(n, k) \in Places /\ Back(n, k) \in Places
<1>1. Count \in Nat \ {0} /\ n \in 0 .. (Count - 1)
  BY CountNat DEF Places
<1> QED
  BY <1>1 DEF Ahead, Back, Places

LEMMA FilesSought ==
  ASSUME OutputReadable, NEW v, Base(v), v.known, NEW t \in Int
  PROVE  Arrives(v, Place(t), SeekFiles(v, t)) /\ Place(t) \in Places
<1>1. Place(t) \in Places /\ \A r \in Ranks : PBF_Seek(file[r], t) = Place(t)
  BY SearchPlace DEF Looked, Around, PBF_Seek
<1>2. [r \in Ranks |-> PBF_Seek(file[r], t)] = [r \in Ranks |-> Place(t)]
  BY <1>1
<1>3. SeekFiles(v, t) = MoveFiles(v, [r \in Ranks |-> Place(t)])
  BY <1>2 DEF SeekFiles
<1> QED
  BY <1>1, <1>3, FilesMoved

LEMMA FilesForward ==
  ASSUME OutputReadable, NEW v, Base(v), v.known, NEW n \in Places,
         AtFrame(v, n), NEW k \in Nat
  PROVE  Arrives(v, Ahead(n, k), ForwardFiles(v, k)) /\ Ahead(n, k) \in Places
<1>1. Ahead(n, k) \in Places
  BY StepPlaces
<1>2. \A r \in Ranks : Size(file[r]) = Count /\ v.cur[r] = n
  BY DEF OutputReadable, AtFrame
<1>3. [r \in Ranks |-> PBF_Forward(file[r], v.cur[r], k)] = [r \in Ranks |-> Ahead(n, k)]
  BY <1>2 DEF PBF_Forward, Ahead
<1>4. ForwardFiles(v, k) = MoveFiles(v, [r \in Ranks |-> Ahead(n, k)])
  BY <1>3 DEF ForwardFiles
<1> QED
  BY <1>1, <1>4, FilesMoved

LEMMA FilesBackward ==
  ASSUME OutputReadable, NEW v, Base(v), v.known, NEW n \in Places,
         AtFrame(v, n), NEW k \in Nat
  PROVE  Arrives(v, Back(n, k), BackwardFiles(v, k)) /\ Back(n, k) \in Places
<1>1. Back(n, k) \in Places
  BY StepPlaces
<1>2. \A r \in Ranks : v.cur[r] = n
  BY DEF AtFrame
<1>3. [r \in Ranks |-> PBF_Backward(file[r], v.cur[r], k)] = [r \in Ranks |-> Back(n, k)]
  BY <1>2 DEF PBF_Backward, Back
<1>4. BackwardFiles(v, k) = MoveFiles(v, [r \in Ranks |-> Back(n, k)])
  BY <1>3 DEF BackwardFiles
<1> QED
  BY <1>1, <1>4, FilesMoved

LEMMA InitGood ==
  ASSUME OutputReadable, NEW v, GoodView(v)
  PROVE  /\ \E n \in Places : Settled(init(v), n)
         /\ v.known => init(v) = v
         /\ ~v.known => JustRead(init(v), 0)
<1>1. CASE v.known
  <2>1. init(v) = v
    BY <1>1 DEF init
  <2> QED
    BY <1>1, <2>1 DEF GoodView
<1>2. CASE ~v.known
  <2>1. Base(v) /\ AtFrame(v, 0)
    BY <1>2 DEF GoodView, Settled
  <2>2. init(v) = read_state(v) /\ 0 \in Places
    BY <1>2, CountNat DEF init
  <2>3. JustRead(read_state(v), 0)
    BY <2>1, <2>2, ReadGood DEF OutputReadable
  <2>4. JustRead(init(v), 0)
    BY <2>2, <2>3
  <2> QED
    BY <1>2, <2>2, <2>4 DEF JustRead
<1> QED
  BY <1>1, <1>2

LEMMA JustReadGood ==
  ASSUME NEW v, NEW n, JustRead(v, n)
  PROVE  /\ GoodView(v) /\ Settled(v, n) /\ v.known /\ Base(v) /\ n \in Places
         /\ v.time = FrameTime(n)
BY DEF JustRead, Settled, GoodView, ShownFrame

(* A reader that has failed stays as it is.                                *)
LEMMA FailedStays ==
  ASSUME NEW v, Failed(v)
  PROVE  /\ init(v) = v /\ read_state(v) = v
         /\ \A t : SeekFiles(v, t) = v /\ SeekTo(v, t) = v
         /\ \A k : /\ ForwardFiles(v, k) = v /\ BackwardFiles(v, k) = v
                   /\ Forward(v, k) = v /\ Backward(v, k) = v
         /\ TimeSkip(v) = v
<1>1. v.failed /\ v.known
  BY DEF Failed
<1>2. init(v) = v /\ read_state(v) = v
  BY <1>1 DEF init, read_state
<1>3. \A cur : MoveFiles(v, cur) = v
  BY <1>1 DEF MoveFiles
<1>4. \A t : SeekFiles(v, t) = v
  BY <1>3 DEF SeekFiles
<1>5. \A k : ForwardFiles(v, k) = v /\ BackwardFiles(v, k) = v
  BY <1>3 DEF ForwardFiles, BackwardFiles
<1>6. \A t : SeekTo(v, t) = v
  BY <1>2, <1>4 DEF SeekTo
<1>7. \A k : Forward(v, k) = v /\ Backward(v, k) = v
  BY <1>1, <1>2, <1>5 DEF Forward, Backward
<1>8. TimeSkip(v) = v
  BY <1>2, <1>5 DEF TimeSkip
<1> QED
  BY <1>2, <1>4, <1>5, <1>6, <1>7, <1>8

LEMMA MovedRead ==
  ASSUME OutputReadable, NEW v, v.known, NEW m \in Places, NEW w, Arrives(v, m, w)
  PROVE  Shows(read_state(w), m)
<1>1. CASE Failed(w)
  BY <1>1, FailedStays DEF Shows
<1>2. CASE Moved(v, m, w)
  BY <1>2, ReadGood DEF Moved, Shows
<1> QED
  BY <1>1, <1>2 DEF Arrives

LEMMA SeekGood ==
  ASSUME OutputReadable, NEW v, GoodView(v), NEW t \in Int
  PROVE  Shows(SeekTo(v, t), Place(t))
<1>1. PICK n \in Places : Settled(init(v), n)
  BY InitGood
<1>2. PICK u : u = init(v)
  OBVIOUS
<1>3. Base(u) /\ u.known
  BY <1>1, <1>2 DEF Settled
<1>4. Arrives(u, Place(t), SeekFiles(u, t)) /\ Place(t) \in Places
  BY <1>3, FilesSought
<1>5. Shows(read_state(SeekFiles(u, t)), Place(t))
  BY <1>3, <1>4, MovedRead
<1> QED
  BY <1>2, <1>5 DEF SeekTo

LEMMA ForwardGood ==
  ASSUME OutputReadable, NEW v, NEW n, Settled(v, n), NEW k \in Nat
  PROVE  Shows(Forward(v, k), Ahead(n, k))
<1>1. Base(v) /\ v.known /\ AtFrame(v, n) /\ n \in Places
  BY DEF Settled
<1>2. Arrives(v, Ahead(n, k), ForwardFiles(v, k)) /\ Ahead(n, k) \in Places
  BY <1>1, FilesForward
<1>3. Shows(read_state(ForwardFiles(v, k)), Ahead(n, k))
  BY <1>1, <1>2, MovedRead
<1> QED
  BY <1>1, <1>3 DEF Forward

LEMMA BackwardGood ==
  ASSUME OutputReadable, NEW v, NEW n, Settled(v, n), NEW k \in Nat
  PROVE  Shows(Backward(v, k), Back(n, k))
<1>1. Base(v) /\ v.known /\ AtFrame(v, n) /\ n \in Places
  BY DEF Settled
<1>2. Arrives(v, Back(n, k), BackwardFiles(v, k)) /\ Back(n, k) \in Places
  BY <1>1, FilesBackward
<1>3. Shows(read_state(BackwardFiles(v, k)), Back(n, k))
  BY <1>1, <1>2, MovedRead
<1> QED
  BY <1>1, <1>3 DEF Backward

LEMMA ShowsSane ==
  ASSUME NEW v, NEW n, Shows(v, n)
  PROVE  SaneView(v) /\ v.known
BY JustReadGood DEF Shows, SaneView, Failed

LEMMA SeekSane ==
  ASSUME OutputReadable, NEW v, SaneView(v), NEW t \in Int
  PROVE  Shows(SeekTo(v, t), Place(t))
<1>1. CASE Failed(v)
  BY <1>1, FailedStays DEF Shows
<1>2. CASE GoodView(v)
  BY <1>2, SeekGood
<1> QED
  BY <1>1, <1>2 DEF SaneView

LEMMA MoveGood ==
  ASSUME OutputReadable, NEW v, SaneView(v), NEW k \in Nat
  PROVE  SaneView(Forward(v, k)) /\ SaneView(Backward(v, k))
<1>1. CASE GoodView(v) /\ v.known
  <2>1. PICK n \in Places : Settled(v, n)
    BY <1>1 DEF GoodView
  <2> QED
    BY <2>1, ForwardGood, BackwardGood, ShowsSane
<1>2. CASE GoodView(v) /\ ~v.known
  <2>1. Forward(v, k) = init(v) /\ Backward(v, k) = init(v)
    BY <1>2 DEF Forward, Backward
  <2> QED
    BY <1>2, <2>1, InitGood, JustReadGood DEF SaneView
<1>3. CASE Failed(v)
  BY <1>3, FailedStays DEF SaneView
<1> QED
  BY <1>1, <1>2, <1>3 DEF SaneView

LEMMA SettledMoved ==
  ASSUME NEW v, NEW n, Settled(v, n), NEW m \in Places, NEW w, Moved(v, m, w)
  PROVE  Settled(w, m)
BY DEF Settled, Moved

LEMMA SkipGood ==
  ASSUME OutputReadable, NEW v, NEW n, Settled(init(v), n)
  PROVE  Settled(TimeSkip(v), Back(Ahead(n, 1), 1)) \/ Failed(TimeSkip(v))
<1>1. PICK u : u = init(v)
  OBVIOUS
<1>2. Base(u) /\ AtFrame(u, n) /\ n \in Places /\ Settled(u, n) /\ u.known
  BY <1>1 DEF Settled
<1>3. PICK m : m = Ahead(n, 1)
  OBVIOUS
<1>4. PICK x : x = ForwardFiles(u, 1)
  OBVIOUS
<1>5. Arrives(u, m, x) /\ m \in Places
  BY <1>2, <1>3, <1>4, FilesForward
<1>6. TimeSkip(v) = BackwardFiles(x, 1)
  BY <1>1, <1>4 DEF TimeSkip
<1>7. CASE Failed(x)
  BY <1>6, <1>7, FailedStays
<1>8. CASE Moved(u, m, x)
  <2>1. Settled(x, m)
    BY <1>2, <1>5, <1>8, SettledMoved
  <2>2. Base(x) /\ AtFrame(x, m) /\ x.known
    BY <2>1 DEF Settled
  <2>3. Arrives(x, Back(m, 1), BackwardFiles(x, 1)) /\ Back(m, 1) \in Places
    BY <1>5, <2>2, FilesBackward
  <2>4. Failed(BackwardFiles(x, 1)) \/ Settled(BackwardFiles(x, 1), Back(m, 1))
    BY <2>1, <2>3, SettledMoved DEF Arrives
  <2> QED
    BY <1>3, <1>6, <2>4
<1> QED
  BY <1>5, <1>7, <1>8 DEF Arrives

-----------------------------------------------------------------------------
(* Histories.                                                              *)

LEMMA MultipleNext ==
  ASSUME NEW k \in Nat, NEW s \in Nat \ {0}
  PROVE  /\ k * s \in Nat /\ (k + 1) * s = k * s + s /\ 1 * s = s /\ k <= k * s
OBVIOUS

LEMMA Multiples ==
  ASSUME NEW a \in Int, NEW b \in Int, NEW s \in Nat \ {0}, a * s <= b * s
  PROVE  a <= b
OBVIOUS

LEMMA Quotient ==
  ASSUME NEW a \in Int, NEW s \in Nat \ {0}
  PROVE  /\ a \div s \in Int /\ (a \div s) * s <= a /\ a < (a \div s + 1) * s
OBVIOUS

SettledViews == {v \in ViewType : Failed(v) \/ \E n \in Places : Settled(v, n)}

Pointing == [v : SettledViews, points : Nat]

HistoryOne(l, k, t1, skip) ==
  IF k > 1 /\ l.v.time >= t1 THEN l ELSE [v |-> Forward(l.v, skip), points |-> k]

HistoryRun(loop, v, t1, skip) ==
  /\ loop \in [0 .. (Count + 1) -> Pointing]
  /\ loop[0] = [v |-> v, points |-> 0]
  /\ \A k \in 1 .. (Count + 1) : loop[k] = HistoryOne(loop[k - 1], k, t1, skip)

LEMMA ShowsSettled ==
  ASSUME NEW v, NEW n, Shows(v, n)
  PROVE  v \in SettledViews
<1>1. CASE Failed(v)
  BY <1>1 DEF SettledViews, Failed
<1>2. CASE JustRead(v, n)
  BY <1>2, JustReadGood DEF SettledViews, Base
<1> QED
  BY <1>1, <1>2 DEF Shows

LEMMA HistoryOneType ==
  ASSUME OutputReadable, NEW l \in Pointing, NEW k \in Nat, NEW t1, NEW skip \in Nat
  PROVE  HistoryOne(l, k, t1, skip) \in Pointing
<1> DEFINE w == Forward(l.v, skip)
<1>1. l.v \in SettledViews
  BY DEF Pointing
<1>2. w \in SettledViews
  <2>1. CASE Failed(l.v)
    BY <1>1, <2>1, FailedStays
  <2>2. CASE ~Failed(l.v)
    <3>1. PICK n \in Places : Settled(l.v, n)
      BY <1>1, <2>2 DEF SettledViews
    <3> QED
      BY <3>1, ForwardGood, ShowsSettled
  <2> QED
    BY <2>1, <2>2
<1> HIDE DEF w
<1>3. HistoryOne(l, k, t1, skip) \in {l, [v |-> w, points |-> k]}
  BY DEF HistoryOne, w
<1> QED
  BY <1>2, <1>3 DEF Pointing

LEMMA HistoryIs ==
  ASSUME OutputReadable, NEW v \in SettledViews, NEW t1, NEW skip \in Nat
  PROVE  \E loop : /\ HistoryRun(loop, v, t1, skip)
                   /\ HistoryLoop(v, t1, skip) = loop[Count + 1]
<1> DEFINE N == Size(file[0]) + 1
           first == [v |-> v, points |-> 0]
           Body(f, k) == LET l == f[k - 1]
                         IN  IF k > 1 /\ l.v.time >= t1 THEN l
                             ELSE [v |-> Forward(l.v, skip), points |-> k]
           Is(f) == f = [k \in 0 .. N |-> IF k = 0 THEN first ELSE Body(f, k)]
           loop == CHOOSE f : Is(f)
           step == [p \in (1 .. N) \X Pointing |-> HistoryOne(p[2], p[1], t1, skip)]
<1>1. N = Count + 1 /\ N \in Nat /\ first \in Pointing
  BY CountNat, ZeroRank DEF OutputReadable, Pointing
<1>2. HistoryLoop(v, t1, skip) = loop[N]
  BY DEF HistoryLoop
<1>3. step \in [(1 .. N) \X Pointing -> Pointing]
  <2> SUFFICES ASSUME NEW k \in 1 .. N, NEW l \in Pointing
               PROVE  HistoryOne(l, k, t1, skip) \in Pointing
    OBVIOUS
  <2>1. k \in Nat
    BY <1>1
  <2> QED
    BY <2>1, HistoryOneType
<1>4. \A f, k : Body(f, k) = HistoryOne(f[k - 1], k, t1, skip)
  BY DEF HistoryOne
<1>5. \A k \in 1 .. N, l \in Pointing : step[<<k, l>>] = HistoryOne(l, k, t1, skip)
  OBVIOUS
<1> HIDE DEF N, first, step, Body
<1>6. PICK f : Recurs(f, N, Pointing, first, step)
  BY <1>1, <1>3, SetRecursion
<1>7. /\ f = [n \in 0 .. N |-> f[n]] /\ f[0] = first
      /\ \A n \in 0 .. N : n = 0 \/ n \in 1 .. N
      /\ \A n \in 1 .. N : /\ f[n - 1] \in Pointing
                           /\ f[n] = step[<<n, f[n - 1]>>]
  BY <1>1, <1>6, RecursSteps
<1>8. \A n \in 1 .. N : f[n] = Body(f, n)
  BY <1>4, <1>5, <1>7
<1>9. \A n \in 0 .. N : f[n] = IF n = 0 THEN first ELSE Body(f, n)
  BY <1>7, <1>8, <1>1
<1>10. Is(f)
  BY <1>7, <1>9
<1>11. Is(loop)
  BY <1>10
<1> HIDE DEF loop
<1>12. /\ loop = [n \in 0 .. N |-> loop[n]] /\ loop[0] = first
       /\ \A n \in 1 .. N : loop[n] = HistoryOne(loop[n - 1], n, t1, skip)
  <2>1. loop = [n \in 0 .. N |-> IF n = 0 THEN first ELSE Body(loop, n)]
    BY <1>11
  <2>2. 0 \in 0 .. N /\ \A n \in 1 .. N : n \in 0 .. N /\ n # 0
    BY <1>1
  <2> QED
    BY <1>4, <2>1, <2>2
<1>13. \A n \in 1 .. N : loop[n - 1] \in Pointing => loop[n] = step[<<n, loop[n - 1]>>]
  BY <1>5, <1>12
<1>14. Recurs(loop, N, Pointing, first, step)
  BY <1>1, <1>3, <1>12, <1>13, RecursTyped
<1>15. HistoryRun(loop, v, t1, skip)
  BY <1>1, <1>12, <1>14 DEF HistoryRun, Recurs, first
<1> QED
  BY <1>1, <1>2, <1>15

(* What the loop has done after some points.                               *)
Pointed(l, c, t1, skip, k) ==
  LET p == l.points
  IN  /\ p \in 1 .. k
      /\ JustRead(l.v, Ahead(c, p * skip))
      /\ p = 1 \/ FrameTime(Ahead(c, (p - 1) * skip)) < t1
      /\ p = k \/ l.v.time >= t1

PointedSane(l, c, t1, skip, k) == Pointed(l, c, t1, skip, k) \/ Failed(l.v)

LEMMA AheadTwice ==
  ASSUME OutputReadable, NEW c \in Places, NEW a \in Nat, NEW b \in Nat
  PROVE  Ahead(Ahead(c, a), b) = Ahead(c, a + b)
BY CountNat DEF Ahead, Places

LEMMA PointedNext ==
  ASSUME OutputReadable, NEW l, NEW c \in Places, NEW t1 \in Int, NEW skip \in Nat \ {0},
         NEW k \in Nat \ {0}, Pointed(l, c, t1, skip, k)
  PROVE  PointedSane(HistoryOne(l, k + 1, t1, skip), c, t1, skip, k + 1)
<1>1. PICK p \in 1 .. k :
        /\ p = l.points
        /\ JustRead(l.v, Ahead(c, p * skip))
        /\ p = 1 \/ FrameTime(Ahead(c, (p - 1) * skip)) < t1
        /\ p = k \/ l.v.time >= t1
  BY DEF Pointed
<1>2. PICK u : u = HistoryOne(l, k + 1, t1, skip)
  OBVIOUS
<1>3. k + 1 > 1 /\ p \in 1 .. (k + 1)
  OBVIOUS
<1>4. CASE l.v.time >= t1
  <2>1. u = l
    BY <1>2, <1>3, <1>4 DEF HistoryOne
  <2>2. PointedSane(l, c, t1, skip, k + 1)
    BY <1>1, <1>3, <1>4 DEF Pointed, PointedSane
  <2> QED
    BY <1>2, <2>1, <2>2
<1>5. CASE ~ (l.v.time >= t1)
  <2>1. p = k
    BY <1>1, <1>5
  <2>2. u = [v |-> Forward(l.v, skip), points |-> k + 1]
    BY <1>2, <1>5 DEF HistoryOne
  <2>3. u.points = k + 1 /\ u.v = Forward(l.v, skip)
    BY <2>2
  <2>4. PICK a \in Nat : a = k * skip /\ (k + 1) * skip = a + skip
    BY MultipleNext
  <2>5. JustRead(l.v, Ahead(c, a)) /\ Settled(l.v, Ahead(c, a)) /\ l.v.time = FrameTime(Ahead(c, a))
    BY <1>1, <2>1, <2>4, JustReadGood
  <2>6. Shows(u.v, Ahead(Ahead(c, a), skip))
    BY <2>3, <2>5, ForwardGood
  <2>7. Shows(u.v, Ahead(c, (k + 1) * skip))
    BY <2>4, <2>6, AheadTwice
  <2>8. FrameTime(Ahead(c, a)) < t1
    <3>1. Ahead(c, a) \in Places
      BY StepPlaces
    <3>2. FrameTime(Ahead(c, a)) \in Int
      BY <3>1, CountNat
    <3> QED
      BY <1>5, <2>5, <3>2
  <2>9. k + 1 \in 1 .. (k + 1) /\ k + 1 - 1 = k
    OBVIOUS
  <2>10. PointedSane(u, c, t1, skip, k + 1)
    BY <2>3, <2>4, <2>7, <2>8, <2>9 DEF Pointed, PointedSane, Shows
  <2> QED
    BY <1>2, <2>10
<1> QED
  BY <1>4, <1>5

LEMMA PointedFails ==
  ASSUME NEW l, NEW k, NEW t1, NEW skip, Failed(l.v)
  PROVE  Failed(HistoryOne(l, k, t1, skip).v)
<1>1. HistoryOne(l, k, t1, skip) \in {l, [v |-> l.v, points |-> k]}
  BY FailedStays DEF HistoryOne
<1> QED
  BY <1>1

LEMMA HistoryEnds ==
  ASSUME OutputReadable, NEW v, NEW c \in Places, Settled(v, c), NEW t1 \in Int,
         NEW skip \in Nat \ {0}
  PROVE  PointedSane(HistoryLoop(v, t1, skip), c, t1, skip, Count + 1)
<1>1. v \in SettledViews
  BY DEF SettledViews, Settled, Base
<1>2. PICK loop : /\ HistoryRun(loop, v, t1, skip)
                  /\ HistoryLoop(v, t1, skip) = loop[Count + 1]
  BY <1>1, HistoryIs
<1>3. /\ loop[0] = [v |-> v, points |-> 0]
      /\ \A k \in 1 .. (Count + 1) : loop[k] = HistoryOne(loop[k - 1], k, t1, skip)
  BY <1>2 DEF HistoryRun
<1>4. Count \in Nat
  BY CountNat
<1> DEFINE S == {j \in Nat : j <= Count => PointedSane(loop[j + 1], c, t1, skip, j + 1)}
<1>5. 0 \in S
  <2>1. PICK l : l = loop[1]
    OBVIOUS
  <2>2. l = HistoryOne(loop[0], 1, t1, skip)
    BY <1>3, <1>4, <2>1
  <2>3. l = [v |-> Forward(v, skip), points |-> 1]
    BY <1>3, <2>2 DEF HistoryOne
  <2>4. l.points = 1 /\ l.v = Forward(v, skip)
    BY <2>3
  <2>5. Shows(l.v, Ahead(c, 1 * skip))
    BY <2>4, ForwardGood, MultipleNext
  <2>6. PointedSane(l, c, t1, skip, 1)
    BY <2>4, <2>5 DEF Pointed, PointedSane, Shows
  <2> QED
    BY <2>1, <2>6
<1>6. ASSUME NEW j \in Nat, j \in S
      PROVE  j + 1 \in S
  <2> SUFFICES ASSUME j + 1 <= Count
               PROVE  PointedSane(loop[j + 1 + 1], c, t1, skip, j + 1 + 1)
    OBVIOUS
  <2>1. PICK k \in Nat \ {0} : k = j + 1
    OBVIOUS
  <2>2. PointedSane(loop[k], c, t1, skip, k)
    BY <1>4, <1>6, <2>1
  <2>3. k + 1 \in 1 .. (Count + 1) /\ k + 1 - 1 = k
    BY <1>4, <2>1
  <2>4. loop[k + 1] = HistoryOne(loop[k], k + 1, t1, skip)
    BY <1>3, <2>3
  <2>5. PointedSane(HistoryOne(loop[k], k + 1, t1, skip), c, t1, skip, k + 1)
    BY <2>2, PointedNext, PointedFails DEF PointedSane
  <2> QED
    BY <2>1, <2>4, <2>5
<1>7. \A j \in Nat : j \in S
  <2> HIDE DEF S
  <2> QED
    BY <1>5, <1>6, SetInduction
<1> QED
  BY <1>2, <1>4, <1>7

LEMMA LoopFailed ==
  ASSUME OutputReadable, NEW v, Failed(v), NEW t1 \in Int, NEW skip \in Nat \ {0}
  PROVE  Failed(HistoryLoop(v, t1, skip).v)
<1>1. v \in SettledViews
  BY DEF SettledViews, Failed
<1>2. PICK loop : /\ HistoryRun(loop, v, t1, skip)
                  /\ HistoryLoop(v, t1, skip) = loop[Count + 1]
  BY <1>1, HistoryIs
<1>3. /\ loop[0] = [v |-> v, points |-> 0]
      /\ \A k \in 1 .. (Count + 1) : loop[k] = HistoryOne(loop[k - 1], k, t1, skip)
  BY <1>2 DEF HistoryRun
<1>4. Count \in Nat
  BY CountNat
<1> DEFINE S == {j \in Nat : j <= Count + 1 => Failed(loop[j].v)}
<1>5. 0 \in S
  BY <1>3
<1>6. ASSUME NEW j \in Nat, j \in S
      PROVE  j + 1 \in S
  <2> SUFFICES ASSUME j + 1 <= Count + 1
               PROVE  Failed(loop[j + 1].v)
    OBVIOUS
  <2>1. j + 1 \in 1 .. (Count + 1) /\ j + 1 - 1 = j /\ Failed(loop[j].v)
    BY <1>4, <1>6
  <2>2. loop[j + 1] = HistoryOne(loop[j], j + 1, t1, skip)
    BY <1>3, <2>1
  <2> QED
    BY <2>1, <2>2, PointedFails
<1>7. \A j \in Nat : j \in S
  <2> HIDE DEF S
  <2> QED
    BY <1>5, <1>6, SetInduction
<1> QED
  BY <1>2, <1>4, <1>7

LEMMA LoopGood ==
  ASSUME OutputReadable, NEW v, SaneView(v), v.known, NEW t1 \in Int, NEW skip \in Nat \ {0}
  PROVE  SaneView(HistoryLoop(v, t1, skip).v)
<1>1. CASE Failed(v)
  BY <1>1, LoopFailed DEF SaneView
<1>2. CASE GoodView(v)
  <2>1. PICK c \in Places : Settled(v, c)
    BY <1>2 DEF GoodView
  <2>2. PointedSane(HistoryLoop(v, t1, skip), c, t1, skip, Count + 1)
    BY <2>1, HistoryEnds
  <2> QED
    BY <2>2, JustReadGood DEF Pointed, PointedSane, SaneView
<1> QED
  BY <1>1, <1>2 DEF SaneView

LEMMA HistoryGood ==
  ASSUME OutputReadable, NEW v, GoodView(v), NEW t0 \in Int, NEW t1 \in Int,
         NEW skip \in Nat \ {0}
  PROVE  Shows(History(v, t0, t1, skip), Place(init(v).time))
<1>1. PICK n \in Places : Settled(init(v), n)
  BY InitGood
<1>2. PICK i : i = init(v)
  OBVIOUS
<1>3. SaneView(i) /\ i.time \in Int
  <2>1. i \in ViewType
    BY <1>1, <1>2 DEF Settled, Base
  <2>2. i.time \in 0 .. MaxTime /\ MaxTime \in Nat
    BY <2>1, ViewParts, OutputAssumption
  <2> QED
    BY <1>1, <1>2, <2>2 DEF GoodView, SaneView
<1>4. PICK u : u = SeekTo(i, t0)
  OBVIOUS
<1>5. SaneView(u) /\ u.known
  BY <1>3, <1>4, SeekSane, ShowsSane
<1>6. SaneView(HistoryLoop(u, t1, skip).v)
  BY <1>5, LoopGood
<1>7. Shows(SeekTo(HistoryLoop(u, t1, skip).v, i.time), Place(i.time))
  BY <1>3, <1>6, SeekSane
<1> QED
  BY <1>2, <1>4, <1>7 DEF History

-----------------------------------------------------------------------------
(* The reader begins with the list of the bodies of the input file, and    *)
(* from then on it is at a frame.                                          *)
ViewInv ==
  /\ view.status # "open" => \E s \in {"none", "refused"} : view = [InitView EXCEPT !.status = s]
  /\ view.status = "open" => SaneView(view) /\ \A r \in Ranks : Readable(file[r])
  /\ ~StaleLinks => ~view.stale

LEMMA WriteRunning ==
  ASSUME Write
  PROVE  pc \notin Ended /\ view' = view
<1>1. pc \in Running => pc \notin Ended
  BY DEF Running, Ended
<1>2. pc \in {"exit", "abort"} => pc \notin Ended
  BY DEF Ended
<1>3. \A S \in SUBSET Ranks : \A lost : SOLFEC_Abort(S, lost) => pc \notin Ended
  BY <1>1 DEF SOLFEC_Abort
<1>4. \A r \in Ranks : Close(r) => pc \notin Ended
  BY <1>2 DEF Close
<1>5. \A lost : Crash(lost) => pc \notin Ended
  BY DEF Crash
<1>6. \A b, to, gone, cracked, parts : Step(b, to, gone, cracked, parts) => pc \notin Ended
  BY DEF Step, Ended
<1>7. \A S, create, go : Callback(S, create, go) => pc \notin Ended
  BY DEF Callback, Ended
<1>8. Output \/ RecordLast \/ SOLFEC_Destroy => pc \notin Ended
  BY DEF Output, RecordLast, SOLFEC_Destroy, Ended
<1>9. /\ \A interval : SOLFEC_Output(interval) => pc \notin Ended
      /\ \A S, interval : SOLFEC_Set_Callback(S, interval) => pc \notin Ended
      /\ \A duration : Run(duration) => pc \notin Ended
  BY DEF SOLFEC_Output, SOLFEC_Set_Callback, Run, Ended
<1> QED
  BY <1>3, <1>4, <1>5, <1>6, <1>7, <1>8, <1>9 DEF Write

InitParts(v) ==
  /\ v.cur = [r \in Ranks |-> 0] /\ v.known = FALSE /\ v.failed = FALSE /\ v.hung = FALSE
  /\ v.stale = FALSE /\ v.time = 0 /\ v.all = InputBodies /\ v.allread = FALSE
  /\ v.idb = 1 .. InitBodies /\ v.nbod = InitBodies /\ v.absent = {} /\ v.bod = InitBodies
  /\ v.next = [b \in Ids |-> IF b <= InitBodies THEN b - 1 ELSE 0]
  /\ v.prev = [b \in Ids |-> IF b < InitBodies THEN b + 1 ELSE 0]
  /\ v.state = [b \in Ids |-> 0] /\ v.shown = [r \in Ranks |-> 0]

LEMMA InitialView ==
  ASSUME NEW s \in {"none", "open", "refused"}, NEW v, v = [InitView EXCEPT !.status = s]
  PROVE  v \in ViewType /\ InitParts(v) /\ v.status = s
<1>1. v = [status |-> s, cur |-> [r \in Ranks |-> 0], known |-> FALSE, failed |-> FALSE,
           hung |-> FALSE, stale |-> FALSE, time |-> 0, all |-> InputBodies,
           allread |-> FALSE, idb |-> 1 .. InitBodies, nbod |-> InitBodies, absent |-> {},
           bod |-> InitBodies,
           next |-> [b \in Ids |-> IF b <= InitBodies THEN b - 1 ELSE 0],
           prev |-> [b \in Ids |-> IF b < InitBodies THEN b + 1 ELSE 0],
           state |-> [b \in Ids |-> 0], shown |-> [r \in Ranks |-> 0]]
  BY DEF InitView, InputBodies
<1>2. InitParts(v) /\ v.status = s
  BY <1>1 DEF InitParts
<1>3. ViewFields(v)
  BY <1>1, <1>2 DEF ViewFields, InitParts
<1>4. MaxId \in Nat /\ InitBodies \in Nat /\ InitBodies <= MaxId /\ MaxTime \in Nat
      /\ Ids = 1 .. MaxId
  BY OutputAssumption DEF Ids
<1>5. /\ v.next \in [Ids -> 0 .. MaxId] /\ v.prev \in [Ids -> 0 .. MaxId]
      /\ v.state \in [Ids -> 0 .. MaxTime] /\ v.idb \subseteq Ids /\ v.absent \subseteq Ids
      /\ v.cur \in [Ranks -> Nat] /\ v.shown \in [Ranks -> Nat]
  BY <1>2, <1>4 DEF InitParts
<1>6. v \in ViewType
  <2>1. /\ v.known \in BOOLEAN /\ v.failed \in BOOLEAN /\ v.hung \in BOOLEAN
        /\ v.stale \in BOOLEAN /\ v.allread \in BOOLEAN
        /\ v.time \in 0 .. MaxTime /\ v.all \in {InputBodies, All}
        /\ v.nbod \in Int /\ v.bod \in 0 .. MaxId
    <3>1. v.time = 0 /\ v.nbod = InitBodies /\ v.bod = InitBodies
      BY <1>2 DEF InitParts
    <3>2. v.all = InputBodies
      BY <1>2 DEF InitParts
    <3>3. /\ v.known = FALSE /\ v.failed = FALSE /\ v.hung = FALSE
          /\ v.stale = FALSE /\ v.allread = FALSE
      BY <1>2 DEF InitParts
    <3>4. v.time \in 0 .. MaxTime /\ v.nbod \in Int /\ v.bod \in 0 .. MaxId
      BY ONLY <1>4, <3>1
    <3> QED
      BY <3>2, <3>3, <3>4
  <2> QED
    BY <1>2, <1>3, <1>5, <2>1, ViewParts
<1> QED
  BY <1>2, <1>6

LEMMA InitialList ==
  ASSUME NEW v \in ViewType, InitParts(v)
  PROVE  ListKept(v)
<1> DEFINE key == [b \in Ids |-> b]
<1>1. MaxId \in Nat /\ InitBodies \in Nat \ {0} /\ InitBodies <= MaxId /\ Ids = 1 .. MaxId
  BY OutputAssumption DEF Ids
<1>2. /\ v.idb = 1 .. InitBodies /\ v.nbod = InitBodies /\ v.bod = InitBodies
      /\ v.next = [b \in Ids |-> IF b <= InitBodies THEN b - 1 ELSE 0]
      /\ v.prev = [b \in Ids |-> IF b < InitBodies THEN b + 1 ELSE 0]
  BY DEF InitParts
<1>3. key \in [Ids -> Nat] /\ \A b \in Ids : key[b] = b
  BY <1>1
<1> HIDE DEF key
<1>4. \A b \in v.idb : b \in Ids /\ b \in 1 .. InitBodies /\ key[b] = b
  BY <1>1, <1>2, <1>3
<1>5. Linked(v, key, MaxId + 1)
  <2>1. \A b \in v.idb : key[b] < MaxId + 1
    BY <1>1, <1>4
  <2>2. v.bod \in v.idb /\ Higher(v, key, v.bod) /\ v.bod # 0
    <3>1. v.bod \in v.idb /\ key[v.bod] = InitBodies /\ v.bod # 0
      BY <1>1, <1>2, <1>4
    <3>2. \A b \in v.idb : key[b] <= InitBodies
      BY <1>1, <1>4
    <3> QED
      BY <3>1, <3>2 DEF Higher
  <2>3. ASSUME NEW b \in v.idb
        PROVE  IF v.next[b] = 0 THEN \A c \in v.idb : key[b] <= key[c]
               ELSE v.next[b] \in v.idb /\ Follows(v, key, b, v.next[b])
    <3>1. b \in Ids /\ b \in 1 .. InitBodies /\ v.next[b] = b - 1
      BY <1>2, <1>4
    <3>2. CASE b = 1
      BY <1>1, <1>2, <1>4, <3>1, <3>2
    <3>3. CASE b # 1
      <4>1. PICK c : c = b - 1
        OBVIOUS
      <4>2. c \in v.idb /\ c # 0 /\ key[c] = c /\ key[b] = b
        BY <1>1, <1>2, <1>4, <3>1, <3>3, <4>1
      <4>3. Follows(v, key, b, c)
        BY <1>4, <3>1, <4>1, <4>2 DEF Follows
      <4> QED
        BY <3>1, <4>1, <4>2, <4>3
    <3> QED
      BY <3>2, <3>3
  <2>4. ASSUME NEW b \in v.idb, b # v.bod
        PROVE  v.prev[b] \in v.idb /\ v.next[v.prev[b]] = b
    BY <1>1, <1>2, <1>4, <2>4
  <2> QED
    BY <1>1, <1>3, <1>4, <2>1, <2>2, <2>3, <2>4 DEF Linked
<1>6. Unhooked(v)
  BY <1>1, <1>2 DEF Unhooked
<1>7. Counted(v)
  BY <1>1, <1>2, FS_Interval DEF Counted
<1> QED
  BY <1>5, <1>6, <1>7 DEF ListKept

LEMMA OpenedView ==
  ASSUME NEW v, v = [InitView EXCEPT !.status = "open"]
  PROVE  GoodView(v)
<1>1. v \in ViewType /\ InitParts(v) /\ v.status = "open"
  BY InitialView
<1>2. ListKept(v)
  BY <1>1, InitialList
<1>3. v.idb \subseteq DOMAIN v.all
  BY <1>1 DEF InitParts, InputBodies
<1> QED
  BY <1>1, <1>2, <1>3 DEF GoodView, Base, AtFrame, InitParts

(* What the reader finds is the same after a step of the reader.           *)
LEMMA SameOutput ==
  ASSUME UNCHANGED vars
  PROVE  /\ All' = All /\ Count' = Count /\ Places' = Places /\ ViewType' = ViewType
         /\ \A n : /\ FrameTime(n)' = FrameTime(n) /\ BodiesIn(n)' = BodiesIn(n)
                   /\ FrameWhole(n)' = FrameWhole(n)
<1>1. bodfile' = bodfile /\ log' = log /\ file' = file
  BY DEF vars
<1>2. All' = All
  BY <1>1 DEF All, read_new_bodies
<1>3. Count' = Count
  BY <1>1 DEF Count
<1> QED
  BY <1>1, <1>2, <1>3 DEF Places, ViewType, FrameTime, BodiesIn, FrameWhole

LEMMA SameBase ==
  ASSUME UNCHANGED vars, NEW w, view' = w
  PROVE  Base(view)' = Base(w)
BY SameOutput DEF Base

LEMMA SameShown ==
  ASSUME UNCHANGED vars, NEW w, view' = w, NEW m
  PROVE  ShownFrame(view, m)' = ShownFrame(w, m)
BY SameOutput DEF ShownFrame

LEMMA SameGood ==
  ASSUME UNCHANGED vars, NEW w, view' = w, GoodView(w)
  PROVE  GoodView(view)'
<1>1. Places' = Places
  BY SameOutput
<1>2. ASSUME NEW n \in Places, Settled(w, n)
      PROVE  Settled(view, n)'
  <2>1. PICK m \in Places : ShownFrame(w, m)
    BY <1>2 DEF Settled
  <2>2. ShownFrame(view, m)'
    BY <2>1, SameShown
  <2>3. Base(view)'
    BY <1>2, SameBase DEF Settled
  <2> QED
    BY <1>1, <1>2, <2>1, <2>2, <2>3 DEF Settled, AtFrame
<1>3. ASSUME Base(w), ~w.known, AtFrame(w, 0)
      PROVE  GoodView(view)'
  <2>1. Base(view)'
    BY <1>3, SameBase
  <2> QED
    BY <1>3, <2>1 DEF GoodView, AtFrame
<1> QED
  BY <1>1, <1>2, <1>3 DEF GoodView

LEMMA SameSane ==
  ASSUME UNCHANGED vars, NEW w, view' = w, SaneView(w)
  PROVE  SaneView(view)'
<1>1. CASE GoodView(w)
  BY <1>1, SameGood DEF SaneView
<1>2. CASE Failed(w)
  BY <1>2, SameOutput DEF Failed, SaneView, AtFrame
<1> QED
  BY <1>1, <1>2 DEF SaneView

LEMMA ReadingView ==
  ASSUME UNCHANGED vars, NEW w, view' = w, SaneView(w), StaleLinks \/ ~w.stale,
         \A r \in Ranks : Readable(file[r])
  PROVE  ViewInv'
<1>1. SaneView(view)'
  BY SameSane
<1>2. w.status = "open"
  BY DEF SaneView, GoodView, Base, Settled, Failed
<1>3. file' = file
  BY DEF vars
<1> QED
  BY <1>1, <1>2, <1>3 DEF ViewInv

LEMMA OpenView ==
  ASSUME Inv, Inv', ViewInv, Open
  PROVE  ViewInv'
<1>1. /\ view.status = "none" /\ UNCHANGED vars
      /\ view' = [view EXCEPT !.status = IF \A r \in Ranks : Readable(file[r])
                                         THEN "open" ELSE "refused"]
  BY DEF Open
<1>2. PICK s \in {"none", "refused"} : view = [InitView EXCEPT !.status = s]
  BY <1>1 DEF ViewInv
<1>3. \A s2, s3 : [[InitView EXCEPT !.status = s2] EXCEPT !.status = s3]
                   = [InitView EXCEPT !.status = s3]
  BY DEF InitView
<1>4. PICK w : w = view'
  OBVIOUS
<1>5. \/ w = [InitView EXCEPT !.status = "open"] /\ \A r \in Ranks : Readable(file[r])
      \/ w = [InitView EXCEPT !.status = "refused"]
  BY <1>1, <1>2, <1>3, <1>4
<1>6. CASE w = [InitView EXCEPT !.status = "open"] /\ \A r \in Ranks : Readable(file[r])
  <2>1. SaneView(w) /\ ~w.stale
    BY <1>6, OpenedView, InitialView DEF InitParts, SaneView
  <2> QED
    BY <1>1, <1>4, <1>6, <2>1, ReadingView
<1>7. CASE w = [InitView EXCEPT !.status = "refused"]
  <2>1. w.status = "refused" /\ ~w.stale
    BY <1>7, InitialView DEF InitParts
  <2> QED
    BY <1>4, <1>7, <2>1 DEF ViewInv
<1> QED
  BY <1>5, <1>6, <1>7

LEMMA ReadableNow ==
  ASSUME Inv, BodiesInv, ContentsInv, LogsInv, ViewInv, view.status = "open"
  PROVE  OutputReadable
<1>1. pc \in Ended /\ \A r \in Ranks : Readable(file[r])
  BY DEF Inv, ReaderInv, ViewInv
<1> QED
  BY <1>1, OutputRead

LEMMA StepView ==
  ASSUME Inv, Inv', BodiesInv, ContentsInv, LogsInv, ViewInv, Read, ~Open, ~Stopped
  PROVE  ViewInv'
<1>1. view.status = "open" /\ ~view.failed /\ UNCHANGED vars
  BY DEF Read, SOLFEC_Seek_To, SOLFEC_Forward, SOLFEC_Backward,
              SOLFEC_Time_Skip, SOLFEC_History, Reading, Becomes
<1>2. /\ OutputReadable /\ GoodView(view) /\ SaneView(view)
      /\ \A r \in Ranks : Readable(file[r])
  BY <1>1, ReadableNow DEF ViewInv, SaneView, Failed
<1>3. \E v : SaneView(v) /\ Becomes(v)
  <2>1. ASSUME NEW t \in 0 .. MaxTime, SOLFEC_Seek_To(t)
        PROVE  \E v : SaneView(v) /\ Becomes(v)
    <3>1. SaneView(SeekTo(view, t)) /\ t \in Int
      BY <1>2, SeekGood, ShowsSane
    <3> QED
      BY <2>1, <3>1 DEF SOLFEC_Seek_To
  <2>2. ASSUME NEW n \in Skips, SOLFEC_Forward(n) \/ SOLFEC_Backward(n)
        PROVE  \E v : SaneView(v) /\ Becomes(v)
    <3>1. n \in Nat
      BY ResultsAssumption
    <3>2. SaneView(Forward(view, n)) /\ SaneView(Backward(view, n))
      BY <1>2, <3>1, MoveGood
    <3> QED
      BY <2>2, <3>2 DEF SOLFEC_Forward, SOLFEC_Backward
  <2>3. ASSUME SOLFEC_Time_Skip
        PROVE  \E v : SaneView(v) /\ Becomes(v)
    <3>1. PICK n \in Places : Settled(init(view), n)
      BY <1>2, InitGood
    <3>2. Settled(TimeSkip(view), Back(Ahead(n, 1), 1)) \/ Failed(TimeSkip(view))
      BY <1>2, <3>1, SkipGood
    <3>3. SaneView(TimeSkip(view))
      BY <3>2 DEF Settled, GoodView, SaneView
    <3> QED
      BY <2>3, <3>3 DEF SOLFEC_Time_Skip
  <2>4. ASSUME NEW t0 \in 0 .. MaxTime, NEW t1 \in 0 .. MaxTime, SOLFEC_History(t0, t1, 1)
        PROVE  \E v : SaneView(v) /\ Becomes(v)
    <3>1. t0 \in Int /\ t1 \in Int /\ 1 \in Nat \ {0}
      OBVIOUS
    <3>2. SaneView(History(view, t0, t1, 1))
      BY <1>2, <3>1, HistoryGood, ShowsSane
    <3> QED
      BY <2>4, <3>2 DEF SOLFEC_History
  <2> QED
    BY <2>1, <2>2, <2>3, <2>4 DEF Read
<1>4. PICK v : SaneView(v) /\ Becomes(v)
  BY <1>3
<1> QED
  BY <1>1, <1>2, <1>4, ReadingView DEF Becomes

LEMMA ViewNext ==
  Inv /\ Inv' /\ BodiesInv /\ ContentsInv /\ LogsInv /\ ViewInv /\ [Next]_allvars => ViewInv'
<1> SUFFICES ASSUME Inv, Inv', BodiesInv, ContentsInv, LogsInv, ViewInv, [Next]_allvars
             PROVE  ViewInv'
  OBVIOUS
<1>1. CASE UNCHANGED allvars
  <2>1. UNCHANGED vars /\ view' = view
    BY <1>1 DEF allvars
  <2>2. CASE view.status = "open"
    <3>1. /\ SaneView(view) /\ (StaleLinks \/ ~view.stale)
          /\ \A r \in Ranks : Readable(file[r])
      BY <2>2 DEF ViewInv
    <3> QED
      BY <2>1, <3>1, ReadingView
  <2>3. CASE view.status # "open"
    BY <2>1, <2>3 DEF ViewInv
  <2> QED
    BY <2>2, <2>3
<1>2. CASE Write
  <2>1. view' = view /\ view.status # "open"
    BY <1>2, WriteRunning DEF Inv, ReaderInv
  <2> QED
    BY <2>1 DEF ViewInv
<1>3. CASE Open
  BY <1>3, OpenView
<1>4. CASE Stopped
  BY <1>1, <1>4 DEF Stopped
<1>5. CASE Read /\ ~Open /\ ~Stopped
  BY <1>5, StepView
<1> QED
  BY <1>1, <1>2, <1>3, <1>4, <1>5 DEF Next

LEMMA ViewInit == ResultsInit => ViewInv
<1> SUFFICES ASSUME ResultsInit PROVE ViewInv
  OBVIOUS
<1>1. view = InitView /\ InitView = [InitView EXCEPT !.status = "none"]
  BY DEF ResultsInit, InitView
<1>2. view.status = "none" /\ ~view.stale
  BY <1>1, InitialView DEF InitParts
<1> QED
  BY <1>1, <1>2 DEF ViewInv

-----------------------------------------------------------------------------
(* All of it together.                                                     *)
ReadsInv ==
  /\ Inv /\ TimesInv /\ BodiesInv /\ ContentsInv /\ BoundsInv /\ LogsInv /\ ViewInv

LEMMA ReadsInit == ResultsInit => ReadsInv
<1>1. ContentsInv => BoundsInv
  BY DEF ContentsInv
<1> QED
  BY <1>1, InitInv, TimesInit, BodiesInit, ContentsInit, LogsInit, ViewInit DEF ReadsInv

LEMMA ReadsNext == ReadsInv /\ [Next]_allvars => ReadsInv'
<1> SUFFICES ASSUME ReadsInv, [Next]_allvars
             PROVE  ReadsInv'
  OBVIOUS
<1>1. Inv /\ TimesInv /\ BodiesInv /\ ContentsInv /\ BoundsInv /\ LogsInv /\ ViewInv
  BY DEF ReadsInv
<1>2. Inv'
  BY <1>1, StepInv
<1>3. TimesInv'
  BY <1>1, TimesNext
<1>4. BodiesInv'
  BY <1>1, BodiesNext
<1>5. ContentsInv'
  BY <1>1, ContentsNext
<1>6. BoundsInv'
  BY <1>5 DEF ContentsInv
<1>7. LogsInv'
  BY <1>1, <1>2, <1>3, <1>5, LogsNext
<1>8. ViewInv'
  BY <1>1, <1>2, ViewNext
<1> QED
  BY <1>2, <1>3, <1>4, <1>5, <1>6, <1>7, <1>8 DEF ReadsInv

LEMMA GoodParts ==
  ASSUME NEW v, GoodView(v)
  PROVE  /\ Base(v)
         /\ v.known => \E m \in Places : ShownFrame(v, m)
BY DEF GoodView, Settled

(* The files that a reader has opened, as they were when the run ended.    *)
LEMMA OpenedFiles ==
  ASSUME ReadsInv
  PROVE  OnlyClosedOpens
<1> SUFFICES ASSUME view.status = "open", NEW r \in Ranks
             PROVE  /\ file[r].mem = <<>>
                    /\ Size(file[r]) = Len(log[r])
                    /\ pc # "crashed" =>
                         \A n \in 0 .. (Size(file[r]) - 1) : Complete(file[r], n)
  BY DEF OnlyClosedOpens
<1>1. pc \in Ended /\ Readable(file[r])
  BY DEF ReadsInv, Inv, ReaderInv, ViewInv
<1>2. /\ FoundFile(file[r], log[r])
      /\ pc # "crashed" => \A n \in 1 .. Len(log[r]) : Complete(file[r], n - 1)
  BY <1>1, AcceptedFile DEF ReadsInv
<1>3. file[r].mem = <<>> /\ Size(file[r]) = Len(log[r]) /\ Len(log[r]) \in Nat
  BY <1>2 DEF FoundFile, Size
<1>4. ASSUME pc # "crashed", NEW n \in 0 .. (Size(file[r]) - 1)
      PROVE  Complete(file[r], n)
  <2>1. n + 1 \in 1 .. Len(log[r]) /\ n + 1 - 1 = n
    BY <1>3
  <2>2. Complete(file[r], n + 1 - 1)
    BY <1>2, <1>4, <2>1
  <2> QED
    BY <2>1, <2>2
<1> QED
  BY <1>3, <1>4

(* Output is only accepted when the index of every rank has all frames     *)
(* that the rank has recorded (finalize_frames of pbf.c), and then all     *)
(* their data are there too unless the process has died, whatever part of  *)
(* the streams was on disk and however far PBF_Close had come.             *)
THEOREM OnlyClosedOpensHolds == Spec => []OnlyClosedOpens
<1>1. ReadsInv => OnlyClosedOpens
  BY OpenedFiles
<1> QED
  BY ReadsInit, ReadsNext, <1>1, PTL DEF Spec

(* No assertion of the reader fails, whatever the run has done, but at a   *)
(* frame whose data were lost when the process died.                       *)
THEOREM ReadsSucceedHolds == Spec => []ReadsSucceed
<1>1. ReadsInv => ReadsSucceed
  <2> SUFFICES ASSUME ReadsInv, view.failed
               PROVE  pc = "crashed" /\ \E r \in Ranks : ~Complete(file[r], view.cur[r])
    BY DEF ReadsSucceed
  <2>1. CASE view.status = "open"
    <3>1. OutputReadable /\ SaneView(view)
      BY <2>1, ReadableNow DEF ReadsInv, ViewInv
    <3>2. Failed(view)
      BY <3>1, GoodParts DEF SaneView, Base
    <3>3. PICK m \in Places : AtFrame(view, m) /\ ~FrameWhole(m)
      BY <3>2 DEF Failed
    <3> QED
      BY <3>1, <3>3 DEF OutputReadable, FrameWhole, AtFrame, Places
  <2>2. CASE view.status # "open"
    <3>1. PICK s \in {"none", "refused"} : view = [InitView EXCEPT !.status = s]
      BY <2>2 DEF ReadsInv, ViewInv
    <3> QED
      BY <3>1, InitialView DEF InitParts
  <2> QED
    BY <2>1, <2>2
<1> QED
  BY ReadsInit, ReadsNext, <1>1, PTL DEF Spec

LEMMA ListOfFrame ==
  ASSUME ReadsInv, ~view.stale
  PROVE  ListIsFrame
<1> SUFFICES ASSUME view.status = "open", ~view.failed
             PROVE  Listed(view) = view.idb /\ ~IsRing(view)
  BY DEF ListIsFrame
<1>1. view \in ViewType /\ ListKept(view)
  BY GoodParts DEF ReadsInv, ViewInv, SaneView, Failed, Base
<1>2. PICK key, top : Linked(view, key, top)
  BY <1>1 DEF ListKept
<1> QED
  BY <1>1, <1>2, WalkList

(* Without stale links the list of bodies is that of the frame and comes   *)
(* to an end; with them, it is until a body is removed from a place where  *)
(* the list does not have it.                                              *)
THEOREM ListHolds == Spec => [](~(StaleLinks /\ view.stale) => ListIsFrame)
<1>1. ReadsInv => (~(StaleLinks /\ view.stale) => ListIsFrame)
  BY ListOfFrame DEF ReadsInv, ViewInv
<1> QED
  BY ReadsInit, ReadsNext, <1>1, PTL DEF Spec

LEMMA ShownOfFrame ==
  ASSUME ReadsInv, ~view.stale
  PROVE  ShownIsFrame
<1> SUFFICES ASSUME Reading, view.known
             PROVE  LET recorded(r) == log[r][view.shown[r] + 1]
                    IN  /\ view.idb = UNION {DOMAIN recorded(r).bod : r \in Ranks}
                        /\ view.nbod = Cardinality(view.idb)
                        /\ \A r \in Ranks :
                             /\ view.time = recorded(r).time
                             /\ \A b \in DOMAIN recorded(r).bod :
                                  /\ view.all[b] = recorded(r).bod[b]
                                  /\ view.state[b] = recorded(r).time
  BY DEF ShownIsFrame
<1>1. view.status = "open" /\ ~view.failed
  BY DEF Reading
<1>2. OutputReadable
  BY <1>1, ReadableNow DEF ReadsInv
<1>3. GoodView(view)
  BY <1>1 DEF ReadsInv, ViewInv, SaneView, Failed
<1>4. Base(view)
  BY <1>3, GoodParts
<1>5. PICK m \in Places : ShownFrame(view, m)
  BY <1>3, GoodParts
<1>6. /\ view.shown = [r \in Ranks |-> m] /\ view.time = FrameTime(m) /\ view.all = All
      /\ view.idb = BodiesIn(m) /\ \A b \in BodiesIn(m) : view.state[b] = FrameTime(m)
  BY <1>4, <1>5 DEF ShownFrame, Base
<1>7. view.nbod = Cardinality(view.idb)
  BY <1>4 DEF Base, ListKept, Counted
<1>8. ASSUME NEW r \in Ranks
      PROVE  /\ view.shown[r] = m /\ log[r][m + 1].time = FrameTime(m)
             /\ DOMAIN log[r][m + 1].bod \subseteq BodiesIn(m)
             /\ \A b \in DOMAIN log[r][m + 1].bod : All[b] = log[r][m + 1].bod[b]
  BY <1>2, <1>6 DEF OutputReadable, FrameKnown, Places, BodiesIn
<1>9. view.idb = UNION {DOMAIN log[r][view.shown[r] + 1].bod : r \in Ranks}
  BY <1>6, <1>8 DEF BodiesIn
<1> QED
  BY <1>6, <1>7, <1>8, <1>9

(* The domain of the reader has just the bodies, states and time of the    *)
(* frame that was read last, however it came there, as long as the list of *)
(* bodies is right, which without stale links it always is.                *)
THEOREM ShownHolds == Spec => [](~(StaleLinks /\ view.stale) => ShownIsFrame)
<1>1. ReadsInv => (~(StaleLinks /\ view.stale) => ShownIsFrame)
  BY ShownOfFrame DEF ReadsInv, ViewInv
<1> QED
  BY ReadsInit, ReadsNext, <1>1, PTL DEF Spec

LEMMA DomsType ==
  ASSUME ReadsInv, NEW r \in Ranks
  PROVE  /\ dom[r].bid \in 1 .. (MaxId + 1)
         /\ DOMAIN dom[r].all \cup dom[r].sparebid \subseteq 1 .. (dom[r].bid - 1)
         /\ IsInjective(dom[r].bod)
         /\ Range(dom[r].bod) \cup dom[r].newb \subseteq DOMAIN dom[r].all
         /\ DOMAIN bodfile[r] \subseteq (InitBodies + 1) .. MaxId
<1>1. BodiesInv
  BY DEF ReadsInv
<1>2. PICK names : Known(names)
  BY <1>1 DEF BodiesInv
<1>3. Agreed(dom) /\ Kept(dom[r])
  BY <1>2 DEF Known, Whole, Tracked
<1>4. Sound(dom[r]) /\ dom[r].bid = dom[0].bid
  BY <1>3, ZeroRank DEF Agreed, SameBodies
<1>5. dom[r].bid \in 1 .. (MaxId + 1)
  BY <1>1, <1>4, OutputAssumption DEF BodiesInv, Sound
<1>6. IsInjective(dom[r].bod)
  BY <1>3 DEF Kept, Distinct, IsInjective
<1> QED
  BY <1>1, <1>3, <1>4, <1>5, <1>6 DEF Sound, Dealt, Kept, BodiesInv, Within

LEMMA FilesType ==
  ASSUME ReadsInv, NEW r \in Ranks
  PROVE  file[r] \in FileType /\ (file[r].mem # <<>> => file[r].stage = "writing")
<1>1. FileKept(r) /\ (IsOpen(file[r]) \/ IsFinal(file[r]) \/ IsDead(file[r]))
  BY DEF ReadsInv, ContentsInv, Inv, FilesInv
<1> QED
  BY <1>1, TypedFile DEF FileKept, IsOpen, IsFinal, IsDead

LEMMA ViewsType ==
  ASSUME ReadsInv
  PROVE  /\ view.cur \in [Ranks -> Nat]
         /\ view.idb \subseteq DOMAIN view.all
         /\ DOMAIN view.all \subseteq Ids /\ view.absent \subseteq Ids
         /\ view.bod \in 0 .. MaxId
         /\ view.next \in [Ids -> 0 .. MaxId] /\ view.prev \in [Ids -> 0 .. MaxId]
         /\ view.state \in [Ids -> 0 .. MaxTime]
<1>1. DOMAIN InputBodies = 1 .. InitBodies /\ 1 .. InitBodies \subseteq Ids
  BY OutputAssumption DEF InputBodies, Ids
<1>2. DOMAIN All \subseteq Ids
  BY AllBodies DEF ReadsInv, BodiesInv
<1>3. view \in ViewType /\ view.idb \subseteq DOMAIN view.all
  <2>1. CASE view.status = "open"
    BY <2>1, GoodParts DEF ReadsInv, ViewInv, SaneView, Failed, Base
  <2>2. CASE view.status # "open"
    <3>1. PICK s \in {"none", "refused"} : view = [InitView EXCEPT !.status = s]
      BY <2>2 DEF ReadsInv, ViewInv
    <3>2. view \in ViewType /\ InitParts(view)
      BY <3>1, InitialView
    <3> QED
      BY <1>1, <3>2 DEF InitParts
  <2> QED
    BY <2>1, <2>2
<1> QED
  BY <1>1, <1>2, <1>3, ViewParts

(* Type correctness of the run and of the process that reads its output.   *)
THEOREM TypeHolds == Spec => []TypeOK
<1>1. ReadsInv => TypeOK
  <2> SUFFICES ASSUME ReadsInv PROVE TypeOK
    OBVIOUS
  <2>1. pc \in Running \cup {"exit", "abort"} \cup Ended
    BY DEF ReadsInv, Inv, FilesInv
  <2>2. time \in 0 .. MaxTime /\ end \in 0 .. MaxTime
    BY OutputAssumption DEF ReadsInv, TimesInv, ClockInv, BoundsInv
  <2> QED
    BY <2>1, <2>2, DomsType, FilesType, ViewsType DEF TypeOK
<1> QED
  BY ReadsInit, ReadsNext, <1>1, PTL DEF Spec

-----------------------------------------------------------------------------
(* Queries.                                                                *)

LEMMA SameTime ==
  ASSUME OutputReadable, NEW n \in Places
  PROVE  /\ Place(FrameTime(n)) \in Places
         /\ FrameTime(Place(FrameTime(n))) = FrameTime(n)
         /\ pc = "closed" => Place(FrameTime(n)) = n
<1>1. FrameTime(n) \in Int
  BY CountNat
<1>2. PICK m : m = Place(FrameTime(n))
  OBVIOUS
<1>3. Looked(m, FrameTime(n))
  BY <1>1, <1>2, SearchPlace
<1>4. m \in Places /\ FrameTime(m) = FrameTime(n)
  BY <1>3 DEF Looked, Around
<1>5. ASSUME pc = "closed"
      PROVE  m = n
  <2>1. \A i, j \in Places : i < j => FrameTime(i) < FrameTime(j)
    BY <1>5 DEF OutputReadable, Sorted, Places
  <2>2. m \in Int /\ n \in Int
    BY <1>4, CountNat
  <2>3. m < n \/ n < m \/ m = n
    BY <2>2
  <2> QED
    BY <1>1, <1>4, <2>1, <2>3
<1> QED
  BY <1>2, <1>4, <1>5

LEMMA QueriesKeep ==
  ASSUME ReadsInv
  PROVE  QueriesKeepPlace
<1> SUFFICES ASSUME Reading, view.known, view.cur = view.shown
             PROVE  /\ \A t0, t1 \in HistoryTimes, skip \in Skips :
                         t0 <= t1 =>
                           LET v == History(view, t0, t1, skip)
                           IN  ~v.failed =>
                                 /\ \A r \in Ranks :
                                      TimeOf(file[r], v.cur[r]) = TimeOf(file[r], view.cur[r])
                                 /\ pc = "closed" => v.cur = view.cur
                    /\ \A r \in Ranks :
                         view.cur[r] < Size(file[r]) - 1 /\ ~TimeSkip(view).failed =>
                           TimeSkip(view).cur[r] = view.cur[r]
  BY DEF QueriesKeepPlace
<1>1. view.status = "open" /\ ~view.failed
  BY DEF Reading
<1>2. OutputReadable
  BY <1>1, ReadableNow DEF ReadsInv
<1>3. GoodView(view) /\ init(view) = view
  BY <1>1, <1>2, InitGood DEF ReadsInv, ViewInv, SaneView, Failed
<1>4. PICK n \in Places : Settled(view, n)
  BY <1>3 DEF GoodView
<1>5. PICK m \in Places : ShownFrame(view, m)
  BY <1>3, GoodParts
<1>6. view.cur = [r \in Ranks |-> n] /\ view.shown = [r \in Ranks |-> m]
      /\ view.time = FrameTime(m)
  BY <1>4, <1>5 DEF Settled, AtFrame, ShownFrame
<1>7. m = n
  <2>1. view.cur[0] = n /\ view.shown[0] = m
    BY <1>6, ZeroRank
  <2> QED
    BY <2>1
<1>8. PICK k : k = Place(view.time)
  OBVIOUS
<1>9. k \in Places /\ FrameTime(k) = FrameTime(n) /\ (pc = "closed" => k = n)
  BY <1>2, <1>6, <1>7, <1>8, SameTime
<1>10. ASSUME NEW t0 \in HistoryTimes, NEW t1 \in HistoryTimes, NEW skip \in Skips,
              ~History(view, t0, t1, skip).failed
       PROVE  /\ \A r \in Ranks : TimeOf(file[r], History(view, t0, t1, skip).cur[r])
                                     = TimeOf(file[r], view.cur[r])
              /\ pc = "closed" => History(view, t0, t1, skip).cur = view.cur
  <2>1. t0 \in Int /\ t1 \in Int /\ skip \in Nat \ {0}
    BY ResultsAssumption DEF HistoryTimes
  <2>2. PICK v : v = History(view, t0, t1, skip)
    OBVIOUS
  <2>3. Shows(v, k)
    BY <1>2, <1>3, <1>8, <2>1, <2>2, HistoryGood
  <2>4. v.cur = [r \in Ranks |-> k]
    BY <1>10, <2>2, <2>3 DEF Shows, Failed, JustRead, Settled, AtFrame
  <2>5. ASSUME NEW r \in Ranks
        PROVE  TimeOf(file[r], v.cur[r]) = TimeOf(file[r], view.cur[r])
    <3>1. v.cur[r] = k /\ view.cur[r] = n
      BY <1>6, <2>4
    <3>2. TimeOf(file[r], k) = FrameTime(k) /\ TimeOf(file[r], n) = FrameTime(n)
      BY <1>2, <1>9 DEF OutputReadable, FrameKnown, Places
    <3> QED
      BY <1>9, <3>1, <3>2
  <2>6. pc = "closed" => v.cur = view.cur
    BY <1>6, <1>9, <2>4
  <2> QED
    BY <2>2, <2>5, <2>6
<1>11. ASSUME NEW r \in Ranks, view.cur[r] < Size(file[r]) - 1, ~TimeSkip(view).failed
       PROVE  TimeSkip(view).cur[r] = view.cur[r]
  <2>1. view.cur[r] = n /\ n < Count - 1
    BY <1>2, <1>6, <1>11 DEF OutputReadable
  <2>2. Settled(TimeSkip(view), Back(Ahead(n, 1), 1))
    BY <1>2, <1>3, <1>4, <1>11, SkipGood DEF Failed
  <2>3. Back(Ahead(n, 1), 1) = n
    BY <1>2, <2>1, CountNat DEF Ahead, Back, Places
  <2> QED
    BY <2>1, <2>2, <2>3 DEF Settled, AtFrame
<1> QED
  BY <1>10, <1>11

(* After a history the reader is at the time it was at, and after a normal *)
(* end of the run at the frame; an aborted run may have recorded its last  *)
(* time twice, and SOLFEC_History goes back to a time.  After looking at   *)
(* the next time it is at the frame it was at, except at the last one.     *)
THEOREM QueriesKeepPlaceHolds == Spec => []QueriesKeepPlace
<1>1. ReadsInv => QueriesKeepPlace
  BY QueriesKeep
<1> QED
  BY ReadsInit, ReadsNext, <1>1, PTL DEF Spec

LEMMA PointsFit ==
  ASSUME OutputReadable, NEW l, NEW c \in Places, NEW t1 \in Int, NEW skip \in Nat \ {0},
         Pointed(l, c, t1, skip, Count + 1), t1 <= FrameTime(Count - 1),
         NEW size, size = (Place(t1) - c) \div skip, Place(t1) - c >= -1
  PROVE  size <= l.points /\ l.points <= size + 4
<1>1. PICK m : m = Place(t1)
  OBVIOUS
<1>2. m \in Places /\ Around(m, t1)
  BY <1>1, SearchPlace DEF Looked, Around
<1>3. PICK p \in 1 .. (Count + 1) :
        /\ p = l.points
        /\ JustRead(l.v, Ahead(c, p * skip))
        /\ p = 1 \/ FrameTime(Ahead(c, (p - 1) * skip)) < t1
        /\ p = Count + 1 \/ l.v.time >= t1
  BY DEF Pointed
<1>4. /\ Count \in Nat \ {0} /\ m \in Int /\ c \in Int /\ 0 <= c /\ m - c \in Int /\ p \in Nat \ {0}
      /\ m < Count /\ c < Count /\ Count - 1 \in Places /\ FrameTime(Count - 1) \in Int
      /\ m - c >= -1
  BY <1>1, <1>2, CountNat DEF Places
<1>5. size \in Int /\ size * skip <= m - c /\ m - c < (size + 1) * skip
  BY <1>1, <1>4, Quotient
<1>6. PICK a \in Nat : a = p * skip /\ p <= a
  BY <1>4, MultipleNext
<1>7. Ahead(c, a) \in Places /\ Ahead(c, a) \in Int /\ FrameTime(Ahead(c, a)) \in Int
  BY <1>6, StepPlaces, CountNat
<1>8. FrameTime(Ahead(c, a)) >= t1
  <2>1. CASE p = Count + 1
    <3>1. Ahead(c, a) = Count - 1
      BY <1>4, <1>6, <2>1 DEF Ahead
    <3> QED
      BY <1>4, <3>1
  <2>2. CASE l.v.time >= t1
    <3>1. l.v.time = FrameTime(Ahead(c, a))
      BY <1>3, <1>6, JustReadGood
    <3> QED
      BY <2>2, <3>1
  <2> QED
    BY <1>3, <2>1, <2>2
<1>9. Ahead(c, a) >= m
  <2>1. ~ (Ahead(c, a) < m)
    BY <1>2, <1>7, <1>8 DEF Around
  <2> QED
    BY <1>4, <1>7, <2>1
<1>10. a >= m - c
  BY <1>4, <1>9 DEF Ahead
<1>11. size <= p
  <2>1. size * skip <= p * skip
    <3>1. size * skip \in Int
      BY <1>5
    <3> QED
      BY <1>4, <1>5, <1>6, <1>10, <3>1
  <2> QED
    BY <1>4, <1>5, <2>1, Multiples
<1>12. CASE p = 1
  <2>1. (0 - 1) * skip <= m - c
    BY <1>4
  <2>2. -1 < size + 1
    <3>1. (0 - 1) * skip < (size + 1) * skip
      <4>1. (0 - 1) * skip \in Int /\ (size + 1) * skip \in Int
        BY <1>5
      <4> QED
        BY <1>4, <1>5, <2>1, <4>1
    <3>2. ~ ((size + 1) * skip <= (0 - 1) * skip)
      <4>1. (0 - 1) * skip \in Int /\ (size + 1) * skip \in Int
        BY <1>5
      <4> QED
        BY <3>1, <4>1
    <3>3. size + 1 \in Int /\ 0 - 1 \in Int
      BY <1>5
    <3>4. size + 1 <= 0 - 1 => (size + 1) * skip <= (0 - 1) * skip
      BY <3>3
    <3> QED
      BY <3>2, <3>3, <3>4
  <2> QED
    BY <1>3, <1>5, <1>11, <1>12, <2>2
<1>13. CASE p # 1
  <2>1. PICK k \in Nat \ {0} : k = p - 1 /\ p = k + 1
    BY <1>4, <1>13
  <2>2. PICK b \in Nat : b = k * skip
    BY <2>1, MultipleNext
  <2>3. /\ FrameTime(Ahead(c, b)) < t1 /\ FrameTime(Ahead(c, b)) \in Int
        /\ Ahead(c, b) \in Places /\ Ahead(c, b) \in Int
    BY <1>3, <1>13, <2>1, <2>2, StepPlaces, CountNat
  <2>4. Ahead(c, b) <= m
    <3>1. ~ (Ahead(c, b) > m)
      BY <1>2, <2>3 DEF Around
    <3> QED
      BY <1>4, <2>3, <3>1
  <2>5. Ahead(c, b) # Count - 1
    BY <1>4, <2>3
  <2>6. b <= m - c
    BY <1>4, <2>2, <2>4, <2>5 DEF Ahead
  <2>7. ~ ((size + 1) * skip <= k * skip)
    <3>1. (size + 1) * skip \in Int /\ k * skip \in Int
      BY <1>5
    <3> QED
      BY <1>4, <1>5, <2>2, <2>6, <3>1
  <2>8. ~ (size + 1 <= k)
    <3>1. size + 1 \in Int /\ k \in Int
      BY <1>5
    <3>2. size + 1 <= k => (size + 1) * skip <= k * skip
      BY <3>1
    <3> QED
      BY <2>7, <3>2
  <2> QED
    BY <1>3, <1>5, <1>11, <2>1, <2>8
<1> QED
  BY <1>12, <1>13

LEMMA PlacesOrdered ==
  ASSUME OutputReadable, NEW t0 \in Int, NEW t1 \in Int, t0 <= t1
  PROVE  Place(t1) - Place(t0) >= -1
<1>1. PICK a : a = Place(t0)
  OBVIOUS
<1>2. PICK b : b = Place(t1)
  OBVIOUS
<1>3. Around(a, t0) /\ Around(b, t1) /\ a \in Places /\ b \in Places
  BY <1>1, <1>2, SearchPlace DEF Looked, Around
<1>4. a \in 0 .. (Count - 1) /\ b \in 0 .. (Count - 1) /\ Count \in Nat
  BY <1>3, CountNat DEF Places
<1>5. ASSUME b < a - 1
      PROVE  FALSE
  <2>1. PICK j : j = a - 1
    OBVIOUS
  <2>2. j \in Places /\ j < a /\ j > b
    BY <1>4, <1>5, <2>1 DEF Places
  <2>3. FrameTime(j) < t0 /\ FrameTime(j) >= t1 /\ FrameTime(j) \in Int
    BY <1>3, <2>2, CountNat DEF Around
  <2> QED
    BY <2>3
<1> QED
  BY <1>1, <1>2, <1>4, <1>5

LEMMA PointsOfHistory ==
  ASSUME ReadsInv
  PROVE  HistoryFits
<1> SUFFICES ASSUME view.status = "open",
                    NEW t0 \in HistoryTimes, NEW t1 \in HistoryTimes, NEW skip \in Skips,
                    t0 <= t1, ~view.known,
                    ~HistoryLoop(SeekTo(view, t0), t1, skip).v.failed
             PROVE  /\ HistorySize(t0, t1, skip) <= HistoryLoop(SeekTo(view, t0), t1, skip).points
                    /\ HistoryLoop(SeekTo(view, t0), t1, skip).points
                         <= HistorySize(t0, t1, skip) + 4
  BY DEF HistoryFits
<1>1. OutputReadable /\ GoodView(view)
  BY ReadableNow DEF ReadsInv, ViewInv, SaneView, Failed
<1>2. t0 \in Int /\ t1 \in Int /\ skip \in Nat \ {0}
  BY ResultsAssumption DEF HistoryTimes
<1>3. PICK u : u = SeekTo(view, t0)
  OBVIOUS
<1>4. PICK c : c = Place(t0)
  OBVIOUS
<1>5. PICK l : l = HistoryLoop(u, t1, skip)
  OBVIOUS
<1>6. Settled(u, c) /\ c \in Places /\ ~Failed(l.v)
  <2>1. ~Failed(l.v)
    BY <1>3, <1>5 DEF Failed
  <2>2. ~Failed(u)
    BY <1>1, <1>2, <1>5, <2>1, LoopFailed
  <2> QED
    BY <1>1, <1>2, <1>3, <1>4, <2>1, <2>2, SeekGood, JustReadGood DEF Shows
<1>7. Pointed(l, c, t1, skip, Count + 1)
  BY <1>1, <1>2, <1>5, <1>6, HistoryEnds DEF PointedSane
<1>8. t1 <= FrameTime(Count - 1)
  <2>1. t1 <= LastTime
    BY DEF HistoryTimes
  <2>2. Count - 1 \in Places /\ Size(file[0]) = Count
    BY <1>1, ZeroRank, CountNat DEF OutputReadable, Places
  <2>3. TimeOf(file[0], Count - 1) = FrameTime(Count - 1)
    BY <1>1, <2>2, ZeroRank DEF OutputReadable, FrameKnown, Places
  <2> QED
    BY <2>1, <2>2, <2>3 DEF LastTime
<1>9. PICK size : size = (Place(t1) - c) \div skip
  OBVIOUS
<1>10. Place(t1) - c >= -1
  BY <1>1, <1>2, <1>4, PlacesOrdered
<1>11. size <= l.points /\ l.points <= size + 4
  BY <1>1, <1>2, <1>6, <1>7, <1>8, <1>9, <1>10, PointsFit
<1>12. HistorySize(t0, t1, skip) = size
  BY <1>4, <1>9 DEF HistorySize, PBF_Span, Place
<1> QED
  BY <1>3, <1>5, <1>11, <1>12

(* The arrays of a history have room for every point, and every point that *)
(* is returned has been stored, unless it meets a frame whose data are     *)
(* lost.                                                                   *)
THEOREM HistoryFitsHolds == Spec => []HistoryFits
<1>1. ReadsInv => HistoryFits
  BY PointsOfHistory
<1> QED
  BY ReadsInit, ReadsNext, <1>1, PTL DEF Spec
=============================================================================
