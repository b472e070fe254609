---------------------------- MODULE DomainProofs ----------------------------
(***************************************************************************)
(* Theorems about Domain, for every number of ranks, bodies, constraints   *)
(* and ids, every partitioning and all script calls, DELETE included.      *)
(***************************************************************************)
EXTENDS Domain, TLAPS, WellFoundedInduction

-----------------------------------------------------------------------------
(* Numbers                                                                 *)

(* The spare id taken next is well defined.                                *)
LEMMA SmallestExists ==
  ASSUME NEW S \in SUBSET Nat, S # {}
  PROVE  \E i \in S : \A j \in S : i <= j
<1>1. PICK x \in S : \A y \in S : ~ (<<y, x>> \in OpToRel(<, Nat))
  BY NatLessThanWellFounded, WFMin
<1>2. ASSUME NEW y \in S, y < x
      PROVE  <<y, x>> \in OpToRel(<, Nat)
  <2>1. <<y, x>> \in {ss \in Nat \X Nat : ss[1] < ss[2]}
    BY <1>2
  <2> QED
    BY <2>1, Zenon DEF OpToRel
<1>3. \A y \in S : ~ (y < x)
  BY <1>1, <1>2, Zenon
<1> QED
  BY <1>3

(* Ids that are dealt out in steps of n from different ranks differ.       *)
LEMMA StepsApart ==
  ASSUME NEW n \in Nat, NEW r \in 0 .. n - 1, NEW q \in 0 .. n - 1,
         NEW k \in Nat, NEW l \in Nat, r + 1 + k * n = q + 1 + l * n
  PROVE  r = q
<1>1. ASSUME NEW i \in Nat, NEW j \in Nat, i < j
      PROVE  j * n >= i * n + n
  <2>1. PICK d \in Nat : j = i + 1 + d
    <3>1. j - i - 1 \in Nat
      BY <1>1
    <3> QED
      BY <3>1
  <2>2. d * n \in Nat
    OBVIOUS
  <2>3. j * n = i * n + n + d * n
    BY <2>1
  <2> QED
    BY <2>2, <2>3
<1>2. CASE k < l
  BY <1>1, <1>2
<1>3. CASE l < k
  BY <1>1, <1>3
<1>4. CASE k = l
  BY <1>4
<1> QED
  BY <1>2, <1>3, <1>4

-----------------------------------------------------------------------------
(* Types                                                                   *)

CopyType  == [id : Nat \ {0}, kind : {"CONTACT", "FIXPNT", "RIGLNK"},
              master : Body, slave : Body \cup {0}, rank : Rank]
EntryType == [id : Nat \ {0}, kind : {"CONTACT", "FIXPNT", "RIGLNK"},
              master : Body, slave : Body \cup {0}, external : BOOLEAN]
StoreType == [flag : {"PARENT", "CHILD", "DUMMY", "REMOVED"}, rank : Rank,
              children : SUBSET Rank]

ConType    == con \in [Rank -> SUBSET Constraint]
NotOwn     == \A r \in Rank : \A c \in con[r] : r \notin c.ext
BodyType   == body \in [Rank -> [Body -> StoreType]]
ConextType == conext \in [Rank -> SUBSET CopyType]
BodconType == bodcon \in [Rank -> [Body -> SUBSET EntryType]]
RemoveType ==
  /\ remove \in [Rank -> [Rank -> SUBSET (Nat \ {0})]]
  /\ phase \notin {"callback", "balance"} => remove = NothingToRemove
IdType     == /\ cid \in [Rank -> Nat \ {0}]
              /\ sparecid \in [Rank -> SUBSET (Nat \ {0})]
RestType ==
  /\ phase \in Phases
  /\ started \in BOOLEAN
  /\ sparebid \in [Rank -> SUBSET Body]
  /\ pending \subseteq [master : Body, slave : Body, strength : Strengths]
  /\ linked \subseteq Nat \ {0}
  /\ shape \in [Body -> SUBSET Rank]

LEMMA TypeParts ==
  TypeOK <=> /\ ConType /\ NotOwn /\ BodyType /\ ConextType /\ BodconType
             /\ RemoveType /\ IdType /\ RestType
BY DEF TypeOK, ConType, NotOwn, BodyType, ConextType, BodconType, RemoveType,
       IdType, RestType, CopyType, EntryType, StoreType

(* A rank is not among the other ranks that hold a body it holds.          *)
OtherHolders ==
  \A r \in Rank, b \in Body :
    /\ r \notin body[r][b].children
    /\ body[r][b].flag = "CHILD" => body[r][b].rank # r

TypeInv ==
  /\ ConType /\ NotOwn /\ BodyType /\ OtherHolders /\ ConextType
  /\ BodconType /\ RemoveType /\ IdType /\ RestType

(* Sets of ids are sets of numbers.                                        *)
LEMMA IdsType ==
  ASSUME NEW S,
         \/ S \subseteq Constraint
         \/ S \subseteq CopyType
  PROVE  Ids(S) \subseteq Nat \ {0}
BY DEF Ids, Constraint, CopyType

LEMMA BodiesType ==
  ASSUME NEW c,
         c \in Constraint \/ c \in CopyType
  PROVE  Bodies(c) \subseteq Body
BY DEF Bodies, Constraint, CopyType

LEMMA CopyTyped ==
  ASSUME NEW c \in Constraint, NEW q \in Rank
  PROVE  Copy(c, q) \in CopyType
BY DEF Copy, Constraint, CopyType

LEMMA EntryTyped ==
  ASSUME NEW c, c \in Constraint \/ c \in CopyType, NEW e \in BOOLEAN
  PROVE  Entry(c, e) \in EntryType
BY DEF Entry, Constraint, CopyType, EntryType

LEMMA WithType ==
  ASSUME NEW list \in SUBSET EntryType, NEW S,
         S \subseteq Constraint \/ S \subseteq CopyType, NEW b, NEW e \in BOOLEAN
  PROVE  With(list, S, b, e) \in SUBSET EntryType
<1>1. \A c \in S : Entry(c, e) \in EntryType
  BY EntryTyped
<1> QED
  BY <1>1 DEF With

LEMMA WithoutType ==
  ASSUME NEW list \in SUBSET EntryType, NEW S, NEW b
  PROVE  Without(list, S, b) \in SUBSET EntryType
BY DEF Without

LEMMA RankFacts ==
  /\ 0 \in Rank
  /\ Rank \subseteq Nat
<1>1. ncpu \in Nat /\ ncpu # 0
  BY DomainAssumption
<1> QED
  BY <1>1 DEF Rank

(* Copies are needed on other ranks only.                                  *)
LEMMA NeededType ==
  ASSUME BodyType, OtherHolders, NEW r \in Rank, NEW c \in Constraint
  PROVE  Needed(r, c) \in SUBSET (Rank \ {r})
<1>1. Bodies(c) \subseteq Body
  BY BodiesType
<1>2. \A b \in Body : body[r][b].children \subseteq Rank /\ body[r][b].rank \in Rank
  BY DEF BodyType, StoreType
<1>3. \A b \in Bodies(c) : body[r][b].children \subseteq Rank \ {r}
  BY <1>1, <1>2 DEF OtherHolders
<1>4. \A b \in Bodies(c) : body[r][b].flag = "CHILD" => body[r][b].rank \in Rank \ {r}
  BY <1>1, <1>2 DEF OtherHolders
<1>5. ASSUME NEW x \in Needed(r, c)
      PROVE  x \in Rank \ {r}
  <2>1. \/ \E b \in Bodies(c) : x \in body[r][b].children
        \/ \E b \in Bodies(c) : body[r][b].flag = "CHILD" /\ x = body[r][b].rank
    BY <1>5 DEF Needed
  <2> QED
    BY <2>1, <1>3, <1>4, Zenon
<1> QED
  BY <1>5

-----------------------------------------------------------------------------
(* Local steps keep the types                                              *)

LEMMA NewIdType ==
  ASSUME IdType, NEW r \in Rank
  PROVE  NewId(r) \in Nat \ {0}
<1>1. CASE sparecid[r] = {}
  BY <1>1 DEF IdType, NewId
<1>2. CASE sparecid[r] # {}
  <2>1. sparecid[r] \in SUBSET Nat /\ 0 \notin sparecid[r]
    BY DEF IdType
  <2>2. \E i \in sparecid[r] : \A j \in sparecid[r] : i <= j
    BY <1>2, <2>1, SmallestExists
  <2>3. NewId(r) = CHOOSE i \in sparecid[r] : \A j \in sparecid[r] : i <= j
    BY <1>2 DEF NewId
  <2>4. NewId(r) \in sparecid[r]
    BY <2>2, <2>3, Zenon
  <2> QED
    BY <2>1, <2>4
<1> QED
  BY <1>1, <1>2

LEMMA NewConstraintType ==
  ASSUME IdType, NEW r \in Rank, NEW kind \in {"CONTACT", "FIXPNT", "RIGLNK"},
         NEW m \in Body, NEW s \in Body \cup {0},
         NEW strength \in {"FINITE", "DBL_MAX"}
  PROVE  /\ NewConstraint(r, kind, m, s, strength) \in Constraint
         /\ NewConstraint(r, kind, m, s, strength).ext = {}
         /\ NewConstraint(r, kind, m, s, strength).id = NewId(r)
<1>1. NewId(r) \in Nat \ {0}
  BY NewIdType
<1> QED
  BY <1>1 DEF NewConstraint, Constraint

(* What insert does to the types of the data it changes.                   *)
LEMMA InsertType ==
  ASSUME TypeInv, NEW r \in Rank, NEW c \in Constraint, c.ext = {}, Insert(r, c)
  PROVE  ConType' /\ NotOwn' /\ BodconType' /\ IdType'
<1>1. ConType'
  BY DEF TypeInv, ConType, Insert
<1>2. NotOwn'
  BY DEF TypeInv, ConType, NotOwn, Insert
<1>3. BodconType'
  <2>1. \A b \in Body : With(bodcon[r][b], {c}, b, FALSE) \in SUBSET EntryType
    BY WithType DEF TypeInv, BodconType
  <2>2. bodcon' = [bodcon EXCEPT ![r] =
                     [b \in Body |-> With(bodcon[r][b], {c}, b, FALSE)]]
    BY DEF Insert
  <2> QED
    BY <2>1, <2>2 DEF TypeInv, BodconType
<1>4. IdType'
  <2>1. ncpu \in Nat
    BY DomainAssumption
  <2>2. cid[r] + ncpu \in Nat \ {0}
    BY <2>1 DEF TypeInv, IdType
  <2>3. cid' \in [Rank -> Nat \ {0}]
    BY <2>2 DEF TypeInv, IdType, Insert
  <2>4. sparecid' \in [Rank -> SUBSET (Nat \ {0})]
    BY DEF TypeInv, IdType, Insert
  <2> QED
    BY <2>3, <2>4 DEF IdType
<1> QED
  BY <1>1, <1>2, <1>3, <1>4

LEMMA FixPointType ==
  ASSUME TypeInv, NEW r \in Rank, NEW b \in Body, FixPoint(r, b)
  PROVE  TypeInv'
<1>1. PICK strength \in Strengths :
        Insert(r, NewConstraint(r, "FIXPNT", b, 0, strength))
  BY DEF FixPoint
<1> DEFINE c == NewConstraint(r, "FIXPNT", b, 0, strength)
<1>2. strength \in {"FINITE", "DBL_MAX"}
  BY DomainAssumption
<1>3. c \in Constraint /\ c.ext = {}
  BY <1>2, NewConstraintType DEF TypeInv
<1> HIDE DEF c
<1>4. Insert(r, c)
  BY <1>1 DEF c
<1>5. ConType' /\ NotOwn' /\ BodconType' /\ IdType'
  BY <1>3, <1>4, InsertType
<1>6. UNCHANGED <<phase, started, body, conext, remove, sparebid, pending,
                  linked, shape>>
  BY DEF FixPoint
<1> QED
  BY <1>5, <1>6 DEF TypeInv, BodyType, OtherHolders, ConextType, RemoveType, RestType

LEMMA InsertPendingType ==
  ASSUME TypeInv, NEW r \in Rank, NEW p \in pending, InsertPending(r, p)
  PROVE  TypeInv'
<1> DEFINE c == NewConstraint(r, "RIGLNK", p.master, p.slave, p.strength)
<1>1. /\ p.master \in Body /\ p.slave \in Body
      /\ p.strength \in {"FINITE", "DBL_MAX"}
  BY DomainAssumption DEF TypeInv, RestType
<1>2. c \in Constraint /\ c.ext = {}
  BY <1>1, NewConstraintType DEF TypeInv
<1>3. Insert(r, c)
  BY DEF InsertPending
<1> HIDE DEF c
<1>4. ConType' /\ NotOwn' /\ BodconType' /\ IdType'
  BY <1>2, <1>3, InsertType
<1>5. /\ UNCHANGED <<phase, started, body, conext, remove, sparebid, shape>>
      /\ linked' = linked \cup {NewId(r)}
      /\ pending' = pending \ {p}
  BY DEF InsertPending
<1>6. NewId(r) \in Nat \ {0}
  BY NewIdType DEF TypeInv
<1> QED
  BY <1>4, <1>5, <1>6
  DEF TypeInv, BodyType, OtherHolders, ConextType, RemoveType, RestType

LEMMA OverlapCreateType ==
  ASSUME TypeInv, NEW r \in Rank, NEW a \in Body, NEW b \in Body,
         OverlapCreate(r, a, b)
  PROVE  TypeInv'
<1> DEFINE c == NewConstraint(r, "CONTACT", a, b, "DBL_MAX")
<1>1. c \in Constraint /\ c.ext = {}
  BY NewConstraintType DEF TypeInv
<1>2. Insert(r, c)
  BY DEF OverlapCreate
<1> HIDE DEF c
<1>3. ConType' /\ NotOwn' /\ BodconType' /\ IdType'
  BY <1>1, <1>2, InsertType
<1>4. UNCHANGED <<phase, started, body, conext, remove, sparebid, pending,
                  linked, shape>>
  BY DEF OverlapCreate
<1> QED
  BY <1>3, <1>4 DEF TypeInv, BodyType, OtherHolders, ConextType, RemoveType, RestType

LEMMA PutRigidLinkType ==
  ASSUME TypeInv, NEW m \in Body, NEW s \in Body, PutRigidLink(m, s)
  PROVE  TypeInv'
<1>1. PICK strength \in Strengths :
        pending' = pending \cup {[master |-> m, slave |-> s,
                                  strength |-> strength]}
  BY DEF PutRigidLink
<1>2. UNCHANGED <<phase, started, body, con, conext, bodcon, remove, cid,
                  sparecid, sparebid, linked, shape>>
  BY DEF PutRigidLink
<1> QED
  BY <1>1, <1>2
  DEF TypeInv, ConType, NotOwn, BodyType, OtherHolders, ConextType, BodconType,
      RemoveType, IdType, RestType

-----------------------------------------------------------------------------
(* Removals keep the types                                                 *)

LEMMA RemoveRegularType ==
  ASSUME TypeInv, NEW D, \A r \in Rank : D[r] \subseteq con[r], RemoveRegular(D)
  PROVE  /\ ConType' /\ NotOwn'
         /\ sparecid' \in [Rank -> SUBSET (Nat \ {0})]
<1>1. \A r \in Rank : Ids(D[r]) \subseteq Nat \ {0}
  BY IdsType DEF TypeInv, ConType
<1>2. ConType'
  BY DEF TypeInv, ConType, RemoveRegular
<1>3. NotOwn'
  BY DEF TypeInv, ConType, NotOwn, RemoveRegular
<1>4. sparecid' \in [Rank -> SUBSET (Nat \ {0})]
  BY <1>1 DEF TypeInv, IdType, RemoveRegular
<1> QED
  BY <1>2, <1>3, <1>4

LEMMA ExtToRemoveType ==
  ASSUME TypeInv, NEW D, \A r \in Rank : D[r] \subseteq con[r]
  PROVE  ExtToRemove(D) \in [Rank -> [Rank -> SUBSET (Nat \ {0})]]
<1>1. ASSUME NEW r \in Rank, NEW q \in Rank
      PROVE  Ids({c \in D[r] : q \in c.ext}) \subseteq Nat \ {0}
  <2>1. {c \in D[r] : q \in c.ext} \subseteq Constraint
    BY DEF TypeInv, ConType
  <2> QED
    BY <2>1, IdsType
<1>2. \A r, q \in Rank : remove[r][q] \subseteq Nat \ {0}
  BY DEF TypeInv, RemoveType
<1> QED
  BY <1>1, <1>2 DEF ExtToRemove

LEMMA ClearedType ==
  ASSUME TypeInv, NEW r \in Rank, NEW X, NEW b \in Body
  PROVE  Cleared(r, X, b) \in SUBSET EntryType
<1>1. bodcon[r][b] \in SUBSET EntryType
  BY DEF TypeInv, BodconType
<1>2. Without(bodcon[r][b], RegularOn(r, X) \cup ExternalOn(r, X), b)
        \in SUBSET EntryType
  BY <1>1, WithoutType
<1> QED
  BY <1>2, Zenon DEF Cleared

LEMMA DeleteBodyType ==
  ASSUME TypeInv, NEW r \in Rank, NEW b \in Body, DeleteBody(r, b)
  PROVE  TypeInv'
<1> DEFINE D == [q \in Rank |-> IF q = r THEN RegularOn(r, {b}) ELSE {}]
<1>1. RemoveRegular(D)
  BY DEF DeleteBody
<1>2. \A q \in Rank : D[q] \subseteq con[q]
  BY DEF RegularOn
<1> HIDE DEF D
<1>3. ConType' /\ NotOwn' /\ sparecid' \in [Rank -> SUBSET (Nat \ {0})]
  BY <1>1, <1>2, RemoveRegularType
<1>4. /\ conext' = [conext EXCEPT ![r] = @ \ ExternalOn(r, {b})]
      /\ bodcon' = [bodcon EXCEPT ![r] = [a \in Body |-> Cleared(r, {b}, a)]]
      /\ body' = [body EXCEPT ![r][b] = Removed]
      /\ sparebid' = [sparebid EXCEPT ![r] = @ \cup {b}]
      /\ UNCHANGED <<phase, started, remove, cid, pending, linked, shape>>
  BY DEF DeleteBody
<1>5. ConextType'
  BY <1>4 DEF TypeInv, ConextType
<1>6. BodconType'
  <2>1. \A a \in Body : Cleared(r, {b}, a) \in SUBSET EntryType
    BY ClearedType
  <2> QED
    BY <2>1, <1>4 DEF TypeInv, BodconType
<1>7. Removed \in StoreType
  BY RankFacts DEF Removed, StoreType
<1>8. BodyType'
  BY <1>4, <1>7 DEF TypeInv, BodyType
<1>9. OtherHolders'
  BY <1>4 DEF TypeInv, BodyType, OtherHolders, Removed
<1>10. RemoveType' /\ IdType'
  BY <1>3, <1>4 DEF TypeInv, RemoveType, IdType
<1>11. RestType'
  BY <1>4 DEF TypeInv, RestType
<1> QED
  BY <1>3, <1>5, <1>6, <1>8, <1>9, <1>10, <1>11 DEF TypeInv

LEMMA DeleteConstraintType ==
  ASSUME TypeInv, NEW r \in Rank, NEW c \in con[r], DeleteConstraint(r, c)
  PROVE  TypeInv'
<1> DEFINE D == [q \in Rank |-> IF q = r THEN {c} ELSE {}]
<1>1. RemoveRegular(D)
  BY DEF DeleteConstraint
<1>2. \A q \in Rank : D[q] \subseteq con[q]
  OBVIOUS
<1> HIDE DEF D
<1>3. ConType' /\ NotOwn' /\ sparecid' \in [Rank -> SUBSET (Nat \ {0})]
  BY <1>1, <1>2, RemoveRegularType
<1>4. /\ bodcon' = [bodcon EXCEPT ![r] =
                      [b \in Body |-> Without(bodcon[r][b], {c}, b)]]
      /\ UNCHANGED <<phase, started, body, conext, remove, cid, sparebid,
                     pending, linked, shape>>
  BY DEF DeleteConstraint
<1>5. BodconType'
  <2>1. \A b \in Body : Without(bodcon[r][b], {c}, b) \in SUBSET EntryType
    BY WithoutType DEF TypeInv, BodconType
  <2> QED
    BY <2>1, <1>4 DEF TypeInv, BodconType
<1>6. IdType' /\ BodyType' /\ OtherHolders' /\ ConextType' /\ RemoveType' /\ RestType'
  BY <1>3, <1>4
  DEF TypeInv, IdType, BodyType, OtherHolders, ConextType, RemoveType, RestType
<1> QED
  BY <1>3, <1>5, <1>6 DEF TypeInv

LEMMA UpdateConstraintsType ==
  ASSUME TypeInv, UpdateConstraints
  PROVE  TypeInv'
<1>1. PICK ids \in SUBSET Ids({c \in All : IsContact(c)}) :
        LET D == [r \in Rank |-> {c \in con[r] : c.id \in ids}]
        IN  /\ RemoveRegular(D)
            /\ remove' = ExtToRemove(D)
            /\ bodcon' = [r \in Rank |-> [b \in Body |->
                            Without(bodcon[r][b], D[r], b)]]
  BY DEF UpdateConstraints
<1> DEFINE D == [r \in Rank |-> {c \in con[r] : c.id \in ids}]
<1>2. \A q \in Rank : D[q] \subseteq con[q]
  OBVIOUS
<1>3. /\ RemoveRegular(D)
      /\ remove' = ExtToRemove(D)
      /\ bodcon' = [r \in Rank |-> [b \in Body |->
                      Without(bodcon[r][b], D[r], b)]]
  BY <1>1
<1> HIDE DEF D
<1>4. ConType' /\ NotOwn' /\ sparecid' \in [Rank -> SUBSET (Nat \ {0})]
  BY <1>2, <1>3, RemoveRegularType
<1>5. BodconType'
  <2>1. \A r \in Rank, b \in Body :
          Without(bodcon[r][b], D[r], b) \in SUBSET EntryType
    BY WithoutType DEF TypeInv, BodconType
  <2> QED
    BY <2>1, <1>3 DEF BodconType
<1>6. /\ phase' = "balance"
      /\ UNCHANGED <<started, body, conext, cid, sparebid, pending, linked, shape>>
  BY DEF UpdateConstraints
<1>7. RemoveType'
  <2>1. remove' \in [Rank -> [Rank -> SUBSET (Nat \ {0})]]
    BY <1>2, <1>3, ExtToRemoveType
  <2> QED
    BY <2>1, <1>6 DEF RemoveType
<1>8. IdType' /\ BodyType' /\ OtherHolders' /\ ConextType'
  BY <1>4, <1>6 DEF TypeInv, IdType, BodyType, OtherHolders, ConextType
<1>9. RestType'
  BY <1>6 DEF TypeInv, RestType, Phases
<1> QED
  BY <1>4, <1>5, <1>7, <1>8, <1>9 DEF TypeInv

-----------------------------------------------------------------------------
(* Exchanges keep the types                                                *)

(* Balancing sorts the bodies into parents, children and dummies.          *)
LEMMA PlacedType ==
  ASSUME NEW part \in [Body -> Placement]
  PROVE  LET new == Placed(part)
         IN  /\ new \in [Rank -> [Body -> StoreType]]
             /\ \A r \in Rank, b \in Body :
                  /\ r \notin new[r][b].children
                  /\ new[r][b].flag = "CHILD" => new[r][b].rank # r
<1>1. ASSUME NEW r \in Rank, NEW b \in Body
      PROVE  LET e == Placed(part)[r][b]
             IN  /\ e \in StoreType
                 /\ r \notin e.children
                 /\ e.flag = "CHILD" => e.rank # r
  <2>1. part[b].rank \in Rank /\ part[b].box \subseteq Rank
    BY DEF Placement
  <2>2. 0 \in Rank
    BY RankFacts
  <2>3. Placed(part)[r][b] \in
          {Removed, Dummy, Parent(r, ChildRanks(part[b]))}
            \/ /\ Placed(part)[r][b]
                    = Child(part[b].rank, ChildRanks(part[b]) \ {r})
               /\ r # part[b].rank
    BY DEF Placed
  <2>4. ASSUME Placed(part)[r][b] = Parent(r, ChildRanks(part[b]))
        PROVE  r = part[b].rank
    BY <2>4 DEF Placed, Parent, Child, Dummy, Removed
  <2>5. CASE Placed(part)[r][b] \in {Removed, Dummy}
    BY <2>2, <2>5 DEF Removed, Dummy, StoreType
  <2>6. CASE Placed(part)[r][b] = Parent(r, ChildRanks(part[b]))
    BY <2>1, <2>4, <2>6 DEF Parent, StoreType, ChildRanks
  <2>7. CASE /\ Placed(part)[r][b]
                  = Child(part[b].rank, ChildRanks(part[b]) \ {r})
             /\ r # part[b].rank
    BY <2>1, <2>7 DEF Child, StoreType, ChildRanks
  <2> QED
    BY <2>3, <2>5, <2>6, <2>7
<1>2. Placed(part) \in [Rank -> [Body -> StoreType]]
  BY <1>1 DEF Placed
<1> QED
  BY <1>1, <1>2

LEMMA ReceivedType ==
  ASSUME NEW c \in Constraint, NEW p \in Rank
  PROVE  /\ Received(c, p) \in Constraint
         /\ p \notin Received(c, p).ext
         /\ Received(c, p).id = c.id
BY DEF Received, Constraint

LEMMA MigrateType ==
  ASSUME TypeInv, NEW part \in [Body -> Placement], NEW dest, Migrate(part, dest)
  PROVE  /\ ConType' /\ NotOwn' /\ BodyType' /\ OtherHolders' /\ ConextType'
         /\ BodconType'
         /\ remove' = NothingToRemove
         /\ sparecid' \in [Rank -> SUBSET (Nat \ {0})]
<1> DEFINE Out   == [r \in Rank |-> {c \in con[r] : dest[c.id] # r}]
           In    == [p \in Rank |-> UNION {{c \in con[q] : dest[c.id] = p} :
                                            q \in Rank \ {p}}]
           Taken == [p \in Rank |-> {x \in conext[p] :
                      \E c \in In[p] : p \in c.ext /\ c.id = x.id}]
           Gone  == [p \in Rank |-> {x \in conext[p] :
                      x.id \in Arriving(remove, p)}]
<1>1. /\ body' = Placed(part)
      /\ con' = [p \in Rank |->
                   (con[p] \ Out[p]) \cup {Received(c, p) : c \in In[p]}]
      /\ sparecid' = [p \in Rank |-> sparecid[p] \cup FreedByPacking(Out[p])]
      /\ conext' = [p \in Rank |-> conext[p] \ (Taken[p] \cup Gone[p])]
      /\ bodcon' = [p \in Rank |-> [b \in Body |->
           LET kept == Without(bodcon[p][b], Out[p] \cup Taken[p], b)
           IN  Without(With(kept, In[p], b, FALSE), Gone[p], b)]]
      /\ remove' = NothingToRemove
  BY DEF Migrate
<1>2. \A p \in Rank : In[p] \subseteq Constraint
  BY DEF TypeInv, ConType
<1> HIDE DEF Out, In, Taken, Gone
<1>3. \A p \in Rank : \A c \in In[p] :
        Received(c, p) \in Constraint /\ p \notin Received(c, p).ext
  BY <1>2, ReceivedType
<1>4. ConType'
  BY <1>1, <1>3 DEF TypeInv, ConType
<1>5. NotOwn'
  <2>1. ASSUME NEW p \in Rank, NEW c \in con'[p]
        PROVE  p \notin c.ext
    <3>1. c \in con[p] \/ \E d \in In[p] : c = Received(d, p)
      BY <1>1
    <3> QED
      BY <1>3, <3>1 DEF TypeInv, NotOwn
  <2> QED
    BY <2>1 DEF NotOwn
<1>6. BodyType' /\ OtherHolders'
  BY <1>1, PlacedType DEF BodyType, OtherHolders
<1>7. ConextType'
  BY <1>1 DEF TypeInv, ConextType
<1>8. BodconType'
  <2>1. ASSUME NEW p \in Rank, NEW b \in Body
        PROVE  bodcon'[p][b] \in SUBSET EntryType
    <3> DEFINE kept == Without(bodcon[p][b], Out[p] \cup Taken[p], b)
    <3>1. kept \in SUBSET EntryType
      BY WithoutType DEF TypeInv, BodconType
    <3>2. With(kept, In[p], b, FALSE) \in SUBSET EntryType
      BY <1>2, <3>1, WithType
    <3>3. bodcon'[p][b] = Without(With(kept, In[p], b, FALSE), Gone[p], b)
      BY <1>1
    <3> QED
      BY <3>2, <3>3, WithoutType, ZenonT(30)
  <2>2. bodcon' = [p \in Rank |-> [b \in Body |-> bodcon'[p][b]]]
    BY <1>1
  <2> QED
    BY <2>1, <2>2 DEF BodconType
<1>9. sparecid' \in [Rank -> SUBSET (Nat \ {0})]
  BY <1>1 DEF TypeInv, IdType, FreedByPacking
<1> QED
  BY <1>1, <1>4, <1>5, <1>6, <1>7, <1>8, <1>9

LEMMA DomainBalancingType ==
  ASSUME TypeInv, DomainBalancing
  PROVE  TypeInv'
<1>1. PICK part \in [Body -> Placement], dest \in [Live -> Rank] :
        /\ Migrate(part, dest)
        /\ shape' = [b \in Body |-> part[b].shape]
  BY DEF DomainBalancing
<1>2. /\ ConType' /\ NotOwn' /\ BodyType' /\ OtherHolders' /\ ConextType'
      /\ BodconType'
      /\ remove' = NothingToRemove
      /\ sparecid' \in [Rank -> SUBSET (Nat \ {0})]
  BY <1>1, MigrateType
<1>3. /\ pending' = {}
      /\ linked' = {}
      /\ phase' = "glue"
      /\ UNCHANGED <<started, cid, sparebid>>
  BY DEF DomainBalancing
<1>4. \A b \in Body : part[b].shape \in SUBSET Rank
  BY DEF Placement
<1>5. RemoveType'
  BY <1>2, <1>3 DEF RemoveType, NothingToRemove
<1>6. IdType'
  BY <1>2, <1>3 DEF TypeInv, IdType
<1>7. RestType'
  BY <1>1, <1>3, <1>4 DEF TypeInv, RestType, Phases
<1> QED
  BY <1>2, <1>5, <1>6, <1>7 DEF TypeInv

LEMMA OldBoundaryType ==
  ASSUME TypeInv, OldBoundary
  PROVE  TypeInv'
<1> DEFINE Glued   == [p \in Rank |-> UNION {{Copy(c, q) :
                        c \in {d \in con[q] : p \in Needed(q, d) \ d.ext}} :
                          q \in Rank}]
           Updated == [p \in Rank |-> UNION {{Copy(c, q) :
                        c \in {d \in con[q] : p \in Needed(q, d) \cap d.ext}} :
                          q \in Rank}]
           rem     == [r \in Rank |-> [q \in Rank |->
                        Ids({c \in con[r] : q \in c.ext \ Needed(r, c)})]]
           added   == [p \in Rank |-> {x \in Glued[p] :
                                         x.id \notin Ids(conext[p])}]
           there   == [p \in Rank |->
                        {x \in conext[p] : x.id \notin Ids(Updated[p])}
                          \cup {x \in Updated[p] : x.id \in Ids(conext[p])}
                          \cup added[p]]
           gone    == [p \in Rank |-> {x \in there[p] :
                                         x.id \in Arriving(rem, p)}]
<1>1. /\ con' = [r \in Rank |->
                   {[c EXCEPT !.ext = Needed(r, c)] : c \in con[r]}]
      /\ conext' = [p \in Rank |-> there[p] \ gone[p]]
      /\ bodcon' = [p \in Rank |-> [b \in Body |->
           Without(With(bodcon[p][b], Glued[p], b, TRUE), gone[p], b)]]
      /\ phase = "glue"
      /\ phase' = "detect"
      /\ UNCHANGED <<started, body, remove, cid, sparecid, sparebid, pending,
                     linked, shape>>
  BY DEF OldBoundary
<1>2. \A q \in Rank : \A c \in con[q] : Copy(c, q) \in CopyType
  BY CopyTyped DEF TypeInv, ConType
<1>3. \A p \in Rank : Glued[p] \subseteq CopyType /\ Updated[p] \subseteq CopyType
  BY <1>2
<1> HIDE DEF Glued, Updated, rem
<1>4. \A p \in Rank : there[p] \subseteq CopyType
  BY <1>3 DEF TypeInv, ConextType
<1> HIDE DEF added, there, gone
<1>5. \A r \in Rank : \A c \in con[r] : Needed(r, c) \in SUBSET (Rank \ {r})
  BY NeededType DEF TypeInv, ConType
<1>6. \A r \in Rank : \A c \in con[r] :
        LET d == [c EXCEPT !.ext = Needed(r, c)]
        IN  d \in Constraint /\ r \notin d.ext
  BY <1>5 DEF TypeInv, ConType, Constraint
<1>7. ConType' /\ NotOwn'
  BY <1>1, <1>6 DEF ConType, NotOwn
<1>8. ConextType'
  BY <1>1, <1>4 DEF ConextType
<1>9. BodconType'
  <2>1. ASSUME NEW p \in Rank, NEW b \in Body
        PROVE  Without(With(bodcon[p][b], Glued[p], b, TRUE), gone[p], b)
                 \in SUBSET EntryType
    <3>1. bodcon[p][b] \in SUBSET EntryType
      BY DEF TypeInv, BodconType
    <3>2. With(bodcon[p][b], Glued[p], b, TRUE) \in SUBSET EntryType
      BY <1>3, <3>1, WithType
    <3> QED
      BY <3>2, WithoutType
  <2> QED
    BY <1>1, <2>1 DEF BodconType
<1>10. BodyType' /\ OtherHolders' /\ RemoveType' /\ IdType'
  BY <1>1 DEF TypeInv, BodyType, OtherHolders, RemoveType, IdType
<1>11. RestType'
  BY <1>1 DEF TypeInv, RestType, Phases
<1> QED
  BY <1>7, <1>8, <1>9, <1>10, <1>11 DEF TypeInv

LEMMA GluingBeginType ==
  ASSUME TypeInv, GluingBegin
  PROVE  TypeInv'
<1> DEFINE Glued == [p \in Rank |-> UNION {{Copy(c, q) :
                      c \in {d \in con[q] : d.new /\ p \in Needed(q, d)}} :
                        q \in Rank}]
<1>1. /\ con' = [r \in Rank |->
                   {[c EXCEPT !.ext = IF c.new THEN @ \cup Needed(r, c)
                                      ELSE @] : c \in con[r]}]
      /\ conext' = [p \in Rank |-> conext[p] \cup
                      {x \in Glued[p] : x.id \notin Ids(conext[p])}]
      /\ bodcon' = [p \in Rank |-> [b \in Body |->
                      With(bodcon[p][b], Glued[p], b, TRUE)]]
      /\ shape' = [b \in Body |-> {}]
      /\ phase = "detect"
      /\ phase' = "sparsify"
      /\ UNCHANGED <<started, body, remove, cid, sparecid, sparebid, pending,
                     linked>>
  BY DEF GluingBegin
<1>2. \A q \in Rank : \A c \in con[q] : Copy(c, q) \in CopyType
  BY CopyTyped DEF TypeInv, ConType
<1>3. \A p \in Rank : Glued[p] \subseteq CopyType
  BY <1>2
<1> HIDE DEF Glued
<1>4. \A r \in Rank : \A c \in con[r] : Needed(r, c) \in SUBSET (Rank \ {r})
  BY NeededType DEF TypeInv, ConType
<1>5. \A r \in Rank : \A c \in con[r] :
        LET d == [c EXCEPT !.ext = IF c.new THEN @ \cup Needed(r, c) ELSE @]
        IN  d \in Constraint /\ r \notin d.ext
  BY <1>4 DEF TypeInv, ConType, NotOwn, Constraint
<1>6. ConType' /\ NotOwn'
  BY <1>1, <1>5 DEF ConType, NotOwn
<1>7. ConextType'
  BY <1>1, <1>3 DEF TypeInv, ConextType
<1>8. BodconType'
  <2>1. \A p \in Rank, b \in Body :
          With(bodcon[p][b], Glued[p], b, TRUE) \in SUBSET EntryType
    BY <1>3, WithType DEF TypeInv, BodconType
  <2> QED
    BY <1>1, <2>1 DEF BodconType
<1>9. BodyType' /\ OtherHolders' /\ RemoveType' /\ IdType'
  BY <1>1 DEF TypeInv, BodyType, OtherHolders, RemoveType, IdType
<1>10. RestType'
  BY <1>1 DEF TypeInv, RestType, Phases
<1> QED
  BY <1>6, <1>7, <1>8, <1>9, <1>10 DEF TypeInv

LEMMA OldType ==
  ASSUME NEW c \in Constraint
  PROVE  LET d == [c EXCEPT !.new = FALSE]
         IN  d \in Constraint /\ d.ext = c.ext /\ d.id = c.id
BY DEF Constraint

LEMMA SparsifyType ==
  ASSUME TypeInv, Sparsify
  PROVE  TypeInv'
<1>1. PICK ids \in SUBSET Ids({c \in All : c.new}) :
        LET D    == [r \in Rank |-> {c \in con[r] : c.id \in ids}]
            rem  == ExtToRemove(D)
            Gone == [p \in Rank |-> {x \in conext[p] :
                                       x.id \in Arriving(rem, p)}]
        IN  /\ con' = [r \in Rank |->
                         {[c EXCEPT !.new = FALSE] : c \in con[r] \ D[r]}]
            /\ sparecid' = [r \in Rank |-> sparecid[r] \cup Ids(D[r])]
            /\ conext' = [p \in Rank |-> conext[p] \ Gone[p]]
            /\ bodcon' = [p \in Rank |-> [b \in Body |->
                            Without(bodcon[p][b], D[p] \cup Gone[p], b)]]
  BY DEF Sparsify
<1> DEFINE D    == [r \in Rank |-> {c \in con[r] : c.id \in ids}]
           Gone == [p \in Rank |-> {x \in conext[p] :
                                      x.id \in Arriving(ExtToRemove(D), p)}]
<1>2. \A r \in Rank : D[r] \subseteq con[r]
  OBVIOUS
<1>3. /\ con' = [r \in Rank |->
                   {[c EXCEPT !.new = FALSE] : c \in con[r] \ D[r]}]
      /\ sparecid' = [r \in Rank |-> sparecid[r] \cup Ids(D[r])]
      /\ conext' = [p \in Rank |-> conext[p] \ Gone[p]]
      /\ bodcon' = [p \in Rank |-> [b \in Body |->
                      Without(bodcon[p][b], D[p] \cup Gone[p], b)]]
  BY <1>1
<1> HIDE DEF D, Gone
<1>4. /\ remove' = NothingToRemove
      /\ phase' = "solve"
      /\ UNCHANGED <<started, body, cid, sparebid, pending, linked, shape>>
  BY DEF Sparsify
<1>5. \A r \in Rank : \A c \in con[r] :
        LET d == [c EXCEPT !.new = FALSE]
        IN  d \in Constraint /\ r \notin d.ext
  <2>1. ASSUME NEW r \in Rank, NEW c \in con[r]
        PROVE  c \in Constraint /\ r \notin c.ext
    BY DEF TypeInv, ConType, NotOwn
  <2> QED
    BY <2>1, OldType
<1>6. ConType' /\ NotOwn'
  BY <1>3, <1>5 DEF ConType, NotOwn
<1>7. ConextType'
  BY <1>3 DEF TypeInv, ConextType
<1>8. BodconType'
  <2>1. \A p \in Rank, b \in Body :
          Without(bodcon[p][b], D[p] \cup Gone[p], b) \in SUBSET EntryType
    BY WithoutType DEF TypeInv, BodconType
  <2> QED
    BY <1>3, <2>1 DEF BodconType
<1>9. IdType'
  <2>1. \A r \in Rank : Ids(D[r]) \subseteq Nat \ {0}
    BY <1>2, IdsType DEF TypeInv, ConType
  <2> QED
    BY <1>3, <1>4, <2>1 DEF TypeInv, IdType
<1>10. BodyType' /\ OtherHolders' /\ RemoveType'
  BY <1>4 DEF TypeInv, BodyType, OtherHolders, RemoveType, NothingToRemove
<1>11. RestType'
  BY <1>4 DEF TypeInv, RestType, Phases
<1> QED
  BY <1>6, <1>7, <1>8, <1>9, <1>10, <1>11 DEF TypeInv

LEMMA UpdateEndType ==
  ASSUME TypeInv, UpdateEnd
  PROVE  TypeInv'
<1>1. PICK fallen \in SUBSET {b \in Body : \E r \in Rank : IsParent(r, b)},
           ids \in SUBSET Ids({c \in All : MayBreak(c)}) :
        LET spare   == fallen \cup UNION {sparebid[r] : r \in Rank}
            X       == [r \in Rank |-> {b \in spare : IsStored(r, b)}]
            G       == [r \in Rank |-> RegularOn(r, X[r])]
            D       == [r \in Rank |-> {c \in con[r] \ G[r] : c.id \in ids}]
        IN  /\ RemoveRegular([r \in Rank |-> G[r] \cup D[r]])
            /\ remove' = ExtToRemove(D)
            /\ conext' = [r \in Rank |-> conext[r] \ ExternalOn(r, X[r])]
            /\ bodcon' = [r \in Rank |-> [b \in Body |->
                            Without(Cleared(r, X[r], b), D[r], b)]]
            /\ body' = [r \in Rank |-> [b \in Body |->
                          IF b \in spare THEN Removed ELSE body[r][b]]]
  BY DEF UpdateEnd
<1> DEFINE spare == fallen \cup UNION {sparebid[r] : r \in Rank}
           X     == [r \in Rank |-> {b \in spare : IsStored(r, b)}]
           G     == [r \in Rank |-> RegularOn(r, X[r])]
           D     == [r \in Rank |-> {c \in con[r] \ G[r] : c.id \in ids}]
           E     == [r \in Rank |-> G[r] \cup D[r]]
<1>2. /\ RemoveRegular(E)
      /\ remove' = ExtToRemove(D)
      /\ conext' = [r \in Rank |-> conext[r] \ ExternalOn(r, X[r])]
      /\ bodcon' = [r \in Rank |-> [b \in Body |->
                      Without(Cleared(r, X[r], b), D[r], b)]]
      /\ body' = [r \in Rank |-> [b \in Body |->
                    IF b \in spare THEN Removed ELSE body[r][b]]]
  BY <1>1
<1>3. \A r \in Rank : G[r] \subseteq con[r]
  BY DEF RegularOn
<1> HIDE DEF G
<1>4. \A r \in Rank : D[r] \subseteq con[r]
  OBVIOUS
<1> HIDE DEF D
<1>5. \A r \in Rank : E[r] \subseteq con[r]
  BY <1>3, <1>4
<1> HIDE DEF E, X, spare
<1>6. /\ sparebid' = [r \in Rank |-> {}]
      /\ started' = TRUE
      /\ phase' = "callback"
      /\ UNCHANGED <<cid, pending, linked, shape>>
  BY DEF UpdateEnd
<1>7. ConType' /\ NotOwn' /\ sparecid' \in [Rank -> SUBSET (Nat \ {0})]
  BY <1>2, <1>5, RemoveRegularType
<1>8. RemoveType'
  <2>1. remove' \in [Rank -> [Rank -> SUBSET (Nat \ {0})]]
    BY <1>2, <1>4, ExtToRemoveType
  <2> QED
    BY <2>1, <1>6 DEF RemoveType
<1>9. ConextType'
  BY <1>2 DEF TypeInv, ConextType
<1>10. BodconType'
  <2>1. ASSUME NEW r \in Rank, NEW b \in Body
        PROVE  Without(Cleared(r, X[r], b), D[r], b) \in SUBSET EntryType
    BY ClearedType, WithoutType
  <2> QED
    BY <1>2, <2>1 DEF BodconType
<1>11. Removed \in StoreType /\ Removed.children = {} /\ Removed.flag = "REMOVED"
  BY RankFacts DEF Removed, StoreType
<1>12. BodyType'
  BY <1>2, <1>11 DEF TypeInv, BodyType
<1>13. OtherHolders'
  <2>1. ASSUME NEW r \in Rank, NEW b \in Body
        PROVE  body'[r][b] \in {Removed, body[r][b]}
    BY <1>2
  <2> QED
    BY <1>11, <2>1 DEF TypeInv, OtherHolders
<1>14. IdType' /\ RestType'
  BY <1>6, <1>7 DEF TypeInv, IdType, RestType, Phases
<1> QED
  BY <1>7, <1>8, <1>9, <1>10, <1>12, <1>13, <1>14 DEF TypeInv

LEMMA InitType ==
  ASSUME Init
  PROVE  TypeInv
<1> USE DEF Init
<1>1. ConType /\ NotOwn /\ ConextType /\ BodconType
  BY DEF ConType, NotOwn, ConextType, BodconType
<1>2. BodyType /\ OtherHolders
  <2>1. ASSUME NEW r \in Rank, NEW b \in Body
        PROVE  /\ body[r][b] \in {Parent(r, {}), Dummy}
               /\ body[r][b] \in StoreType
               /\ r \notin body[r][b].children
               /\ body[r][b].flag # "CHILD"
    BY RankFacts DEF Parent, Dummy, StoreType
  <2>2. body = [r \in Rank |-> [b \in Body |-> body[r][b]]]
    OBVIOUS
  <2> QED
    BY <2>1, <2>2 DEF BodyType, OtherHolders
<1>3. RemoveType
  BY DEF RemoveType, NothingToRemove
<1>4. IdType
  BY RankFacts DEF IdType
<1>5. RestType
  BY DEF RestType, Phases
<1> QED
  BY <1>1, <1>2, <1>3, <1>4, <1>5 DEF TypeInv

LEMMA NextType ==
  ASSUME TypeInv, [Next]_vars
  PROVE  TypeInv'
<1>1. CASE UNCHANGED vars
  BY <1>1
  DEF vars, TypeInv, ConType, NotOwn, BodyType, OtherHolders, ConextType,
      BodconType, RemoveType, IdType, RestType
<1>2. ASSUME NEW r \in Rank, NEW b \in Body, FixPoint(r, b)
      PROVE  TypeInv'
  BY <1>2, FixPointType
<1>3. ASSUME NEW r \in Rank, NEW b \in Body, DeleteBody(r, b)
      PROVE  TypeInv'
  BY <1>3, DeleteBodyType
<1>4. ASSUME NEW r \in Rank, NEW a \in Body, NEW b \in Body, OverlapCreate(r, a, b)
      PROVE  TypeInv'
  BY <1>4, OverlapCreateType
<1>5. ASSUME NEW m \in Body, NEW s \in Body, PutRigidLink(m, s)
      PROVE  TypeInv'
  BY <1>5, PutRigidLinkType
<1>6. ASSUME NEW r \in Rank, NEW p \in pending, InsertPending(r, p)
      PROVE  TypeInv'
  BY <1>6, InsertPendingType
<1>7. ASSUME NEW r \in Rank, NEW c \in con[r], DeleteConstraint(r, c)
      PROVE  TypeInv'
  BY <1>7, DeleteConstraintType
<1>8. ASSUME Local
      PROVE  TypeInv'
  BY <1>8, <1>2, <1>3, <1>4, <1>5, <1>6, <1>7 DEF Local
<1>9. ASSUME Exchange
      PROVE  TypeInv'
  BY <1>9, UpdateConstraintsType, DomainBalancingType, OldBoundaryType,
     GluingBeginType, SparsifyType, UpdateEndType DEF Exchange
<1> QED
  BY <1>1, <1>8, <1>9 DEF Next

LEMMA TypeInvariant == Spec => []TypeInv
<1>1. Init => TypeInv
  BY InitType
<1>2. TypeInv /\ [Next]_vars => TypeInv'
  BY NextType
<1> QED
  BY <1>1, <1>2, PTL DEF Spec

(* TypeOK: whatever is exchanged, created and removed, in any order, the   *)
(* domain keeps well formed constraints, copies and body stores, and no    *)
(* rank keeps itself among the ranks it must send updates to.              *)
THEOREM DomainTypeCorrect == Spec => []TypeOK
<1>1. TypeInv => TypeOK
  BY TypeParts DEF TypeInv
<1> QED
  BY <1>1, TypeInvariant, PTL

-----------------------------------------------------------------------------
(* Ids                                                                     *)

(* All the ids that rank r may still deal out.                             *)
Fresh(r) == {cid[r] + k * ncpu : k \in Nat}

(* IdsUnique is not inductive: that an id is not the next one of a rank    *)
(* does not tell that it will not be when the rank has dealt out more.     *)
Dealt      == \A r \in Rank : \E k \in Nat : cid[r] = r + 1 + k * ncpu
OneEach    == \A r, q \in Rank : \A c \in con[r] : \A d \in con[q] :
                c.id = d.id => r = q /\ c = d
NotSpare   == \A r, q \in Rank : \A c \in con[r] : c.id \notin sparecid[q]
SpareApart == \A r, q \in Rank : \A i \in sparecid[r] \cap sparecid[q] : r = q
NotFresh   == \A r, q \in Rank :
                /\ \A c \in con[r] : c.id \notin Fresh(q)
                /\ \A i \in sparecid[r] : i \notin Fresh(q)

IdInv == Dealt /\ OneEach /\ NotSpare /\ SpareApart /\ NotFresh

LEMMA FreshApart ==
  ASSUME Dealt, NEW r \in Rank, NEW q \in Rank, NEW i \in Fresh(r), i \in Fresh(q)
  PROVE  r = q
<1>1. ncpu \in Nat /\ r \in 0 .. ncpu - 1 /\ q \in 0 .. ncpu - 1
  BY DomainAssumption DEF Rank
<1>2. PICK k \in Nat, l \in Nat :
        cid[r] = r + 1 + k * ncpu /\ cid[q] = q + 1 + l * ncpu
  BY DEF Dealt
<1>3. PICK m \in Nat, n \in Nat :
        i = cid[r] + m * ncpu /\ i = cid[q] + n * ncpu
  BY DEF Fresh
<1>4. r + 1 + (k + m) * ncpu = q + 1 + (l + n) * ncpu
  <2>1. /\ (k + m) * ncpu = k * ncpu + m * ncpu
        /\ (l + n) * ncpu = l * ncpu + n * ncpu
    BY <1>1
  <2>2. /\ k * ncpu \in Nat /\ m * ncpu \in Nat
        /\ l * ncpu \in Nat /\ n * ncpu \in Nat
    BY <1>1
  <2>3. r \in Nat /\ q \in Nat
    BY <1>1
  <2> QED
    BY <1>2, <1>3, <2>1, <2>2, <2>3
<1>5. k + m \in Nat /\ l + n \in Nat
  OBVIOUS
<1> QED
  BY <1>1, <1>4, <1>5, StepsApart

LEMMA NextIsFresh ==
  ASSUME IdType, NEW r \in Rank
  PROVE  cid[r] \in Fresh(r)
<1>1. ncpu \in Nat /\ cid[r] \in Nat
  BY DomainAssumption DEF IdType
<1>2. 0 * ncpu = 0
  BY <1>1
<1>3. cid[r] = cid[r] + 0 * ncpu
  BY <1>1, <1>2
<1> QED
  BY <1>3, Zenon DEF Fresh

(* The inductive invariant says more than the property.                    *)
LEMMA IdInvImplies ==
  ASSUME IdType, IdInv
  PROVE  IdsUnique
<1>1. ASSUME NEW r \in Rank, NEW q \in Rank
      PROVE  /\ Ids(con[r]) \cap sparecid[q] = {}
             /\ r # q => sparecid[r] \cap sparecid[q] = {}
             /\ cid[q] \notin Ids(con[r]) \cup sparecid[r]
  <2>1. cid[q] \in Fresh(q)
    BY NextIsFresh
  <2>2. cid[q] \notin Ids(con[r])
    BY <2>1 DEF IdInv, NotFresh, Ids
  <2>3. cid[q] \notin sparecid[r]
    BY <2>1 DEF IdInv, NotFresh
  <2>4. Ids(con[r]) \cap sparecid[q] = {}
    BY DEF IdInv, NotSpare, Ids
  <2>5. r # q => sparecid[r] \cap sparecid[q] = {}
    BY DEF IdInv, SpareApart
  <2> QED
    BY <2>2, <2>3, <2>4, <2>5
<1>2. ASSUME NEW r \in Rank, NEW q \in Rank, NEW c \in con[r], NEW d \in con[q],
             c.id = d.id
      PROVE  r = q /\ c = d
  BY <1>2 DEF IdInv, OneEach
<1> QED
  BY <1>1, <1>2 DEF IdsUnique

(* Constraints that are relabelled, moved or removed keep their ids; those *)
(* that are removed leave theirs on their rank.                            *)
LEMMA RearrangedIds ==
  ASSUME IdInv, NEW D,
         \A r \in Rank : D[r] \subseteq con[r],
         cid' = cid,
         \A r \in Rank : sparecid'[r] = sparecid[r] \cup Ids(D[r]),
         \A r \in Rank : \A e \in con'[r] :
           \E q \in Rank : \E c \in con[q] \ D[q] : c.id = e.id,
         OneEach'
  PROVE  IdInv'
<1>1. Dealt'
  BY DEF IdInv, Dealt
<1>2. \A r \in Rank : Fresh(r)' = Fresh(r)
  BY DEF Fresh
<1>3. ASSUME NEW r \in Rank, NEW i \in sparecid'[r]
      PROVE  i \in sparecid[r] \/ \E d \in con[r] : d \in D[r] /\ i = d.id
  BY DEF Ids
<1>4. NotSpare'
  <2>1. ASSUME NEW r \in Rank, NEW q \in Rank, NEW e \in con'[r],
               e.id \in sparecid'[q]
        PROVE  FALSE
    <3> PICK s \in Rank : \E c \in con[s] \ D[s] : c.id = e.id
      OBVIOUS
    <3>1. PICK c \in con[s] \ D[s] : c.id = e.id
      OBVIOUS
    <3>2. c.id \notin sparecid[q]
      BY DEF IdInv, NotSpare
    <3>3. PICK d \in con[q] : d \in D[q] /\ c.id = d.id
      BY <1>3, <2>1, <3>1, <3>2
    <3>4. s = q /\ c = d
      BY <3>3 DEF IdInv, OneEach
    <3> QED
      BY <3>3, <3>4
  <2> QED
    BY <2>1 DEF NotSpare
<1>5. SpareApart'
  <2>1. ASSUME NEW r \in Rank, NEW q \in Rank, NEW i,
               i \in sparecid'[r], i \in sparecid'[q]
        PROVE  r = q
    <3>1. i \in sparecid[r] \/ \E d \in con[r] : d \in D[r] /\ i = d.id
      BY <1>3, <2>1
    <3>2. i \in sparecid[q] \/ \E d \in con[q] : d \in D[q] /\ i = d.id
      BY <1>3, <2>1
    <3> QED
      BY <3>1, <3>2 DEF IdInv, SpareApart, NotSpare, OneEach
  <2> QED
    BY <2>1 DEF SpareApart
<1>6. NotFresh'
  <2>1. ASSUME NEW r \in Rank, NEW q \in Rank, NEW e \in con'[r]
        PROVE  e.id \notin Fresh(q)'
    <3> PICK s \in Rank : \E c \in con[s] \ D[s] : c.id = e.id
      OBVIOUS
    <3>1. PICK c \in con[s] \ D[s] : c.id = e.id
      OBVIOUS
    <3>2. c.id \notin Fresh(q)
      BY DEF IdInv, NotFresh
    <3> QED
      BY <1>2, <3>1, <3>2
  <2>2. ASSUME NEW r \in Rank, NEW q \in Rank, NEW i \in sparecid'[r]
        PROVE  i \notin Fresh(q)'
    <3>1. i \notin Fresh(q)
      BY <1>3, <2>2 DEF IdInv, NotFresh
    <3> QED
      BY <1>2, <3>1
  <2> QED
    BY <2>1, <2>2 DEF NotFresh
<1> QED
  BY <1>1, <1>4, <1>5, <1>6 DEF IdInv

(* A constraint that is inserted gets an id nothing else has.              *)
LEMMA InsertIds ==
  ASSUME TypeInv, IdInv, NEW r \in Rank, NEW c, Insert(r, c)
  PROVE  IdInv'
<1>1. /\ c.id = NewId(r)
      /\ con' = [con EXCEPT ![r] = @ \cup {c}]
      /\ sparecid' = [sparecid EXCEPT ![r] = @ \ {c.id}]
      /\ cid' = [cid EXCEPT ![r] = IF sparecid[r] = {} THEN @ + ncpu ELSE @]
  BY DEF Insert
<1>2. /\ \A q \in Rank : con'[q] = IF q = r THEN con[r] \cup {c} ELSE con[q]
      /\ \A q \in Rank : sparecid'[q] = IF q = r THEN sparecid[r] \ {c.id}
                                          ELSE sparecid[q]
      /\ \A q \in Rank : cid'[q] = IF q = r /\ sparecid[r] = {}
                                     THEN cid[r] + ncpu ELSE cid[q]
  BY <1>1 DEF TypeInv, ConType, IdType
<1> DEFINE i == c.id
<1> HIDE DEF i
<1>3. ncpu \in Nat /\ ncpu # 0 /\ \A q \in Rank : cid[q] \in Nat
  BY DomainAssumption DEF TypeInv, IdType
<1>4. \/ i \in sparecid[r]
      \/ sparecid[r] = {} /\ i = cid[r]
  <2>1. CASE sparecid[r] = {}
    BY <1>1, <2>1 DEF i, NewId
  <2>2. CASE sparecid[r] # {}
    <3>1. sparecid[r] \in SUBSET Nat
      BY DEF TypeInv, IdType
    <3>2. \E j \in sparecid[r] : \A k \in sparecid[r] : j <= k
      BY <2>2, <3>1, SmallestExists
    <3>3. NewId(r) = CHOOSE j \in sparecid[r] : \A k \in sparecid[r] : j <= k
      BY <2>2 DEF NewId
    <3> QED
      BY <1>1, <3>2, <3>3, Zenon DEF i
  <2> QED
    BY <2>1, <2>2
<1>5. cid[r] \in Fresh(r)
  BY NextIsFresh DEF TypeInv
<1>6. ASSUME NEW q \in Rank, NEW d \in con[q]
      PROVE  d.id # i
  BY <1>4, <1>5 DEF IdInv, NotSpare, NotFresh
<1>7. ASSUME NEW q \in Rank, NEW j \in Fresh(q)'
      PROVE  j \in Fresh(q)
  <2>1. PICK k \in Nat : j = cid'[q] + k * ncpu
    BY <1>7 DEF Fresh
  <2>2. \/ j = cid[q] + k * ncpu
        \/ j = cid[q] + (k + 1) * ncpu
    <3>1. k * ncpu \in Nat /\ (k + 1) * ncpu = ncpu + k * ncpu
      BY <1>3
    <3> QED
      BY <1>2, <1>3, <2>1, <3>1
  <2> QED
    BY <2>2 DEF Fresh
<1>8. ASSUME NEW q \in Rank
      PROVE  i \notin Fresh(q)'
  <2>1. CASE i \in sparecid[r]
    BY <1>7, <2>1 DEF IdInv, NotFresh
  <2>2. CASE sparecid[r] = {} /\ i = cid[r] /\ q # r
    BY <1>5, <1>7, <2>2, FreshApart DEF IdInv
  <2>3. CASE sparecid[r] = {} /\ i = cid[r] /\ q = r
    <3>1. ASSUME NEW k \in Nat, i = cid'[r] + k * ncpu
          PROVE  FALSE
      <4>1. k * ncpu \in Nat
        BY <1>3
      <4>2. cid'[r] = cid[r] + ncpu
        BY <1>2, <2>3
      <4> QED
        BY <1>3, <2>3, <3>1, <4>1, <4>2
    <3> QED
      BY <2>3, <3>1 DEF Fresh
  <2> QED
    BY <1>4, <2>1, <2>2, <2>3
<1>9. Dealt'
  <2>1. ASSUME NEW q \in Rank
        PROVE  \E k \in Nat : cid'[q] = q + 1 + k * ncpu
    <3>1. PICK k \in Nat : cid[q] = q + 1 + k * ncpu
      BY DEF IdInv, Dealt
    <3>2. CASE cid'[q] = cid[q]
      BY <3>1, <3>2
    <3>3. CASE cid'[q] = cid[q] + ncpu
      <4>1. q \in Nat
        BY RankFacts
      <4>2. k * ncpu \in Nat /\ (k + 1) * ncpu = k * ncpu + ncpu
        BY <1>3
      <4>3. cid'[q] = q + 1 + (k + 1) * ncpu
        BY <1>3, <3>1, <3>3, <4>1, <4>2
      <4>4. k + 1 \in Nat
        OBVIOUS
      <4> QED
        BY <4>3, <4>4
    <3> QED
      BY <1>2, <3>2, <3>3
  <2> QED
    BY <2>1 DEF Dealt
<1>10. OneEach'
  <2>1. ASSUME NEW p \in Rank, NEW q \in Rank, NEW d \in con'[p], NEW e \in con'[q],
               d.id = e.id
        PROVE  p = q /\ d = e
    <3>1. d \in con[p] \/ (p = r /\ d = c)
      BY <1>2
    <3>2. e \in con[q] \/ (q = r /\ e = c)
      BY <1>2
    <3> QED
      BY <1>6, <2>1, <3>1, <3>2 DEF i, IdInv, OneEach
  <2> QED
    BY <2>1 DEF OneEach
<1>11. NotSpare' /\ SpareApart'
  <2>1. \A q \in Rank : sparecid'[q] \subseteq sparecid[q] /\ i \notin sparecid'[q]
    <3>1. ASSUME NEW q \in Rank, i \in sparecid'[q]
          PROVE  FALSE
      <4>1. i \in sparecid[q] /\ q # r
        BY <1>2, <3>1 DEF i
      <4>2. cid[r] \notin sparecid[q]
        BY <1>5 DEF IdInv, NotFresh
      <4> QED
        BY <1>4, <4>1, <4>2 DEF IdInv, SpareApart
    <3> QED
      BY <1>2, <3>1
  <2>2. ASSUME NEW p \in Rank, NEW q \in Rank, NEW d \in con'[p]
        PROVE  d.id \notin sparecid'[q]
    <3>1. d \in con[p] \/ d.id = i
      BY <1>2 DEF i
    <3> QED
      BY <2>1, <3>1 DEF IdInv, NotSpare
  <2> QED
    BY <2>1, <2>2 DEF IdInv, NotSpare, SpareApart
<1>12. NotFresh'
  <2>1. ASSUME NEW p \in Rank, NEW q \in Rank, NEW d \in con'[p]
        PROVE  d.id \notin Fresh(q)'
    <3>1. d \in con[p] \/ d.id = i
      BY <1>2 DEF i
    <3> QED
      BY <1>7, <1>8, <3>1 DEF IdInv, NotFresh
  <2>2. ASSUME NEW p \in Rank, NEW q \in Rank, NEW j \in sparecid'[p]
        PROVE  j \notin Fresh(q)'
    <3>1. j \in sparecid[p]
      BY <1>2, <2>2
    <3> QED
      BY <1>7, <3>1 DEF IdInv, NotFresh
  <2> QED
    BY <2>1, <2>2 DEF NotFresh
<1> QED
  BY <1>9, <1>10, <1>11, <1>12 DEF IdInv

(* Removing constraints.                                                   *)
LEMMA RemoveIds ==
  ASSUME IdInv, NEW D, \A r \in Rank : D[r] \subseteq con[r], RemoveRegular(D),
         cid' = cid
  PROVE  IdInv'
<1>1. \A r \in Rank : /\ con'[r] = con[r] \ D[r]
                       /\ sparecid'[r] = sparecid[r] \cup Ids(D[r])
  BY DEF RemoveRegular
<1>2. OneEach'
  BY <1>1 DEF IdInv, OneEach
<1>3. \A r \in Rank : \A e \in con'[r] :
        \E q \in Rank : \E c \in con[q] \ D[q] : c.id = e.id
  BY <1>1
<1> QED
  BY <1>1, <1>2, <1>3, RearrangedIds

(* Changing fields other than the id, after removing some.                 *)
Relabelled(D, F) ==
  /\ \A r \in Rank : D[r] \subseteq con[r]
  /\ \A r \in Rank : \A e \in con'[r] :
       \E c \in con[r] \ D[r] : c.id = e.id /\ e = F[r][c]
  /\ \A r \in Rank : sparecid'[r] = sparecid[r] \cup Ids(D[r])
  /\ cid' = cid

LEMMA RelabelIds ==
  ASSUME IdInv, NEW D, NEW F, Relabelled(D, F)
  PROVE  IdInv'
<1>0. /\ \A r \in Rank : D[r] \subseteq con[r]
      /\ \A r \in Rank : \A e \in con'[r] :
           \E c \in con[r] \ D[r] : c.id = e.id /\ e = F[r][c]
      /\ \A r \in Rank : sparecid'[r] = sparecid[r] \cup Ids(D[r])
      /\ cid' = cid
  BY DEF Relabelled
<1>1. \A r \in Rank : \A e \in con'[r] :
        \E c \in con[r] : c.id = e.id /\ e = F[r][c]
  BY <1>0
<1>2. OneEach'
  <2>1. ASSUME NEW r \in Rank, NEW q \in Rank, NEW d \in con'[r], NEW e \in con'[q],
               d.id = e.id
        PROVE  r = q /\ d = e
    <3>1. PICK a \in con[r] : a.id = d.id /\ d = F[r][a]
      BY <1>1
    <3>2. PICK b \in con[q] : b.id = e.id /\ e = F[q][b]
      BY <1>1
    <3>3. r = q /\ a = b
      BY <2>1, <3>1, <3>2 DEF IdInv, OneEach
    <3> QED
      BY <3>1, <3>2, <3>3
  <2> QED
    BY <2>1 DEF OneEach
<1>3. \A r \in Rank : \A e \in con'[r] :
        \E q \in Rank : \E c \in con[q] \ D[q] : c.id = e.id
  BY <1>0
<1> QED
  BY <1>0, <1>2, <1>3, RearrangedIds

(* A constraint that migrates is on exactly one rank afterwards.           *)
LEMMA MigrateIds ==
  ASSUME TypeInv, IdInv, NEW part, NEW dest, Migrate(part, dest), cid' = cid
  PROVE  IdInv'
<1> DEFINE In == [p \in Rank |-> UNION {{c \in con[q] : dest[c.id] = p} :
                                        q \in Rank \ {p}}]
           D  == [p \in Rank |-> {}]
<1>1. \A p \in Rank :
        con'[p] = {c \in con[p] : dest[c.id] = p}
                    \cup {Received(c, p) : c \in In[p]}
  BY DEF Migrate
<1>2. \A p \in Rank : sparecid'[p] = sparecid[p] \cup Ids(D[p])
  BY DEF Migrate, FreedByPacking, Ids
<1>3. ASSUME NEW p \in Rank, NEW c \in In[p]
      PROVE  /\ \E q \in Rank \ {p} : c \in con[q]
             /\ dest[c.id] = p
             /\ Received(c, p).id = c.id
  <2>1. /\ \E q \in Rank \ {p} : c \in con[q]
        /\ dest[c.id] = p
    OBVIOUS
  <2> QED
    BY <2>1, ReceivedType DEF TypeInv, ConType
<1> HIDE DEF In
<1>4. ASSUME NEW p \in Rank, NEW e \in con'[p]
      PROVE  \E q \in Rank : \E c \in con[q] :
               /\ c.id = e.id
               /\ dest[c.id] = p
               /\ e = IF q = p THEN c ELSE Received(c, p)
  <2>1. CASE e \in con[p] /\ dest[e.id] = p
    BY <2>1
  <2>2. ASSUME NEW c \in In[p], e = Received(c, p)
        PROVE  \E q \in Rank : \E d \in con[q] :
                 /\ d.id = e.id
                 /\ dest[d.id] = p
                 /\ e = IF q = p THEN d ELSE Received(d, p)
    BY <1>3, <2>2
  <2> QED
    BY <1>1, <2>1, <2>2
<1>5. OneEach'
  <2>1. ASSUME NEW r \in Rank, NEW s \in Rank, NEW d \in con'[r], NEW e \in con'[s],
               d.id = e.id
        PROVE  r = s /\ d = e
    <3>1. PICK p \in Rank : \E c \in con[p] :
                 /\ c.id = d.id
                 /\ dest[c.id] = r
                 /\ d = IF p = r THEN c ELSE Received(c, r)
      BY <1>4
    <3>2. PICK a \in con[p] : /\ a.id = d.id
                              /\ dest[a.id] = r
                              /\ d = IF p = r THEN a ELSE Received(a, r)
      BY <3>1
    <3>3. PICK q \in Rank : \E c \in con[q] :
                 /\ c.id = e.id
                 /\ dest[c.id] = s
                 /\ e = IF q = s THEN c ELSE Received(c, s)
      BY <1>4
    <3>4. PICK b \in con[q] : /\ b.id = e.id
                              /\ dest[b.id] = s
                              /\ e = IF q = s THEN b ELSE Received(b, s)
      BY <3>3
    <3>5. p = q /\ a = b
      BY <2>1, <3>2, <3>4 DEF IdInv, OneEach
    <3> QED
      BY <3>2, <3>4, <3>5
  <2> QED
    BY <2>1 DEF OneEach
<1>6. \A r \in Rank : \A e \in con'[r] :
        \E q \in Rank : \E c \in con[q] \ D[q] : c.id = e.id
  BY <1>4
<1>7. \A r \in Rank : D[r] \subseteq con[r]
  OBVIOUS
<1> HIDE DEF D
<1> QED
  BY <1>2, <1>5, <1>6, <1>7, RearrangedIds

LEMMA SameIds ==
  ASSUME IdInv, UNCHANGED <<con, cid, sparecid>>
  PROVE  IdInv'
BY DEF IdInv, Dealt, OneEach, NotSpare, SpareApart, NotFresh, Fresh

(* An EXCEPT of another field keeps the id.                                *)
LEMMA ExceptKeepsId ==
  ASSUME NEW c \in Constraint, NEW x
  PROVE  /\ [c EXCEPT !.ext = x].id = c.id
         /\ [c EXCEPT !.new = x].id = c.id
BY DEF Constraint

LEMMA OldBoundaryIds ==
  ASSUME TypeInv, IdInv, OldBoundary
  PROVE  IdInv'
<1> DEFINE D == [r \in Rank |-> {}]
           f(r, c) == [c EXCEPT !.ext = Needed(r, c)]
           F == [r \in Rank |-> [c \in con[r] |-> f(r, c)]]
<1>1. con' = [r \in Rank |-> {f(r, c) : c \in con[r]}]
  BY DEF OldBoundary
<1>2. cid' = cid /\ sparecid' = sparecid
  BY DEF OldBoundary
<1>3. \A r \in Rank : \A c \in con[r] : f(r, c).id = c.id
  BY ExceptKeepsId DEF TypeInv, ConType
<1> HIDE DEF f
<1>4. ASSUME NEW r \in Rank, NEW e \in con'[r]
      PROVE  \E c \in con[r] \ D[r] : c.id = e.id /\ e = F[r][c]
  <2>1. PICK c \in con[r] : e = f(r, c)
    BY <1>1
  <2> QED
    BY <1>3, <2>1
<1>5. \A r \in Rank : D[r] \subseteq con[r]
  OBVIOUS
<1>6. \A r \in Rank : sparecid'[r] = sparecid[r] \cup Ids(D[r])
  BY <1>2 DEF Ids
<1> HIDE DEF D, F
<1> QED
  <2>1. Relabelled(D, F)
    BY <1>2, <1>4, <1>5, <1>6 DEF Relabelled
  <2> QED
    BY <2>1, RelabelIds

LEMMA GluingBeginIds ==
  ASSUME TypeInv, IdInv, GluingBegin
  PROVE  IdInv'
<1> DEFINE D == [r \in Rank |-> {}]
           f(r, c) == [c EXCEPT !.ext = IF c.new THEN @ \cup Needed(r, c) ELSE @]
           F == [r \in Rank |-> [c \in con[r] |-> f(r, c)]]
<1>1. con' = [r \in Rank |-> {f(r, c) : c \in con[r]}]
  BY DEF GluingBegin
<1>2. cid' = cid /\ sparecid' = sparecid
  BY DEF GluingBegin
<1>3. \A r \in Rank : \A c \in con[r] : f(r, c).id = c.id
  BY ExceptKeepsId DEF TypeInv, ConType
<1> HIDE DEF f
<1>4. ASSUME NEW r \in Rank, NEW e \in con'[r]
      PROVE  \E c \in con[r] \ D[r] : c.id = e.id /\ e = F[r][c]
  <2>1. PICK c \in con[r] : e = f(r, c)
    BY <1>1
  <2> QED
    BY <1>3, <2>1
<1>5. \A r \in Rank : D[r] \subseteq con[r]
  OBVIOUS
<1>6. \A r \in Rank : sparecid'[r] = sparecid[r] \cup Ids(D[r])
  BY <1>2 DEF Ids
<1> HIDE DEF D, F
<1> QED
  <2>1. Relabelled(D, F)
    BY <1>2, <1>4, <1>5, <1>6 DEF Relabelled
  <2> QED
    BY <2>1, RelabelIds

LEMMA SparsifyIds ==
  ASSUME TypeInv, IdInv, Sparsify
  PROVE  IdInv'
<1>1. PICK ids \in SUBSET Ids({c \in All : c.new}) :
        LET D == [r \in Rank |-> {c \in con[r] : c.id \in ids}]
        IN  /\ con' = [r \in Rank |->
                         {[c EXCEPT !.new = FALSE] : c \in con[r] \ D[r]}]
            /\ sparecid' = [r \in Rank |-> sparecid[r] \cup Ids(D[r])]
  BY DEF Sparsify
<1> DEFINE D == [r \in Rank |-> {c \in con[r] : c.id \in ids}]
           f(c) == [c EXCEPT !.new = FALSE]
           F == [r \in Rank |-> [c \in con[r] |-> f(c)]]
<1>2. \A r \in Rank : D[r] \subseteq con[r]
  OBVIOUS
<1>3. /\ con' = [r \in Rank |-> {f(c) : c \in con[r] \ D[r]}]
      /\ sparecid' = [r \in Rank |-> sparecid[r] \cup Ids(D[r])]
  BY <1>1
<1>4. cid' = cid
  BY DEF Sparsify
<1>5. \A r \in Rank : \A c \in con[r] : f(c).id = c.id
  BY ExceptKeepsId DEF TypeInv, ConType
<1> HIDE DEF f, D
<1>6. ASSUME NEW r \in Rank, NEW e \in con'[r]
      PROVE  \E c \in con[r] \ D[r] : c.id = e.id /\ e = F[r][c]
  <2>1. PICK c \in con[r] \ D[r] : e = f(c)
    BY <1>3
  <2> QED
    BY <1>5, <2>1
<1>7. \A r \in Rank : sparecid'[r] = sparecid[r] \cup Ids(D[r])
  BY <1>3
<1>8. \A r \in Rank : \A e \in con'[r] :
        \E c \in con[r] \ D[r] : c.id = e.id /\ e = F[r][c]
  BY <1>6
<1> HIDE DEF F
<1> QED
  <2>1. Relabelled(D, F)
    BY <1>2, <1>4, <1>7, <1>8 DEF Relabelled
  <2> QED
    BY <2>1, RelabelIds

LEMMA LocalIds ==
  ASSUME TypeInv, IdInv, Local
  PROVE  IdInv'
<1>1. ASSUME NEW r \in Rank, NEW b \in Body, FixPoint(r, b)
      PROVE  IdInv'
  BY <1>1, InsertIds DEF FixPoint
<1>2. ASSUME NEW r \in Rank, NEW b \in Body, DeleteBody(r, b)
      PROVE  IdInv'
  <2> DEFINE D == [q \in Rank |-> IF q = r THEN RegularOn(r, {b}) ELSE {}]
  <2>1. RemoveRegular(D) /\ cid' = cid
    BY <1>2 DEF DeleteBody
  <2>2. \A q \in Rank : D[q] \subseteq con[q]
    BY DEF RegularOn
  <2> HIDE DEF D
  <2> QED
    BY <2>1, <2>2, RemoveIds
<1>3. ASSUME NEW r \in Rank, NEW a \in Body, NEW b \in Body, OverlapCreate(r, a, b)
      PROVE  IdInv'
  BY <1>3, InsertIds DEF OverlapCreate
<1>4. ASSUME NEW m \in Body, NEW s \in Body, PutRigidLink(m, s)
      PROVE  IdInv'
  BY <1>4, SameIds DEF PutRigidLink
<1>5. ASSUME NEW r \in Rank, NEW p \in pending, InsertPending(r, p)
      PROVE  IdInv'
  BY <1>5, InsertIds DEF InsertPending
<1>6. ASSUME NEW r \in Rank, NEW c \in con[r], DeleteConstraint(r, c)
      PROVE  IdInv'
  <2> DEFINE D == [q \in Rank |-> IF q = r THEN {c} ELSE {}]
  <2>1. RemoveRegular(D) /\ cid' = cid
    BY <1>6 DEF DeleteConstraint
  <2>2. \A q \in Rank : D[q] \subseteq con[q]
    OBVIOUS
  <2> HIDE DEF D
  <2> QED
    BY <2>1, <2>2, RemoveIds
<1> QED
  BY <1>1, <1>2, <1>3, <1>4, <1>5, <1>6 DEF Local

LEMMA ExchangeIds ==
  ASSUME TypeInv, IdInv, Exchange
  PROVE  IdInv'
<1>1. ASSUME UpdateConstraints
      PROVE  IdInv'
  <2>1. PICK ids : RemoveRegular([r \in Rank |-> {c \in con[r] : c.id \in ids}])
    BY <1>1 DEF UpdateConstraints
  <2> DEFINE D == [r \in Rank |-> {c \in con[r] : c.id \in ids}]
  <2>2. RemoveRegular(D) /\ cid' = cid
    BY <1>1, <2>1 DEF UpdateConstraints
  <2>3. \A r \in Rank : D[r] \subseteq con[r]
    OBVIOUS
  <2> HIDE DEF D
  <2> QED
    BY <2>2, <2>3, RemoveIds
<1>2. ASSUME DomainBalancing
      PROVE  IdInv'
  <2>1. /\ \E part \in [Body -> Placement], dest \in [Live -> Rank] :
             Migrate(part, dest)
        /\ cid' = cid
    BY <1>2 DEF DomainBalancing
  <2> QED
    BY <2>1, MigrateIds
<1>3. ASSUME UpdateEnd
      PROVE  IdInv'
  <2>1. PICK fallen \in SUBSET {b \in Body : \E r \in Rank : IsParent(r, b)},
             ids \in SUBSET Ids({c \in All : MayBreak(c)}) :
          LET spare == fallen \cup UNION {sparebid[r] : r \in Rank}
              X     == [r \in Rank |-> {b \in spare : IsStored(r, b)}]
              G     == [r \in Rank |-> RegularOn(r, X[r])]
              D     == [r \in Rank |-> {c \in con[r] \ G[r] : c.id \in ids}]
          IN  RemoveRegular([r \in Rank |-> G[r] \cup D[r]])
    BY <1>3 DEF UpdateEnd
  <2> DEFINE spare == fallen \cup UNION {sparebid[r] : r \in Rank}
             X     == [r \in Rank |-> {b \in spare : IsStored(r, b)}]
             G     == [r \in Rank |-> RegularOn(r, X[r])]
             D     == [r \in Rank |-> {c \in con[r] \ G[r] : c.id \in ids}]
             E     == [r \in Rank |-> G[r] \cup D[r]]
  <2>2. RemoveRegular(E)
    BY <2>1
  <2>3. \A r \in Rank : G[r] \subseteq con[r]
    BY DEF RegularOn
  <2> HIDE DEF G
  <2>4. \A r \in Rank : E[r] \subseteq con[r]
    BY <2>3
  <2>5. cid' = cid
    BY <1>3 DEF UpdateEnd
  <2> HIDE DEF E
  <2> QED
    BY <2>2, <2>4, <2>5, RemoveIds
<1> QED
  BY <1>1, <1>2, <1>3, OldBoundaryIds, GluingBeginIds, SparsifyIds DEF Exchange

LEMMA InitIds ==
  ASSUME Init
  PROVE  IdInv
<1>1. Dealt
  <2>1. ASSUME NEW r \in Rank
        PROVE  \E k \in Nat : cid[r] = r + 1 + k * ncpu
    <3>1. r \in Nat /\ ncpu \in Nat
      BY RankFacts, DomainAssumption
    <3>2. 0 * ncpu = 0
      BY <3>1
    <3>3. cid[r] = r + 1 + 0 * ncpu
      BY <3>1, <3>2 DEF Init
    <3> QED
      BY <3>3, Zenon
  <2> QED
    BY <2>1 DEF Dealt
<1> QED
  BY <1>1 DEF Init, IdInv, OneEach, NotSpare, SpareApart, NotFresh

(* IdsUnique: although ids are dealt out by each rank on its own, freed on *)
(* whichever rank a constraint dies, and dealt out again there, no two     *)
(* constraints of the domain ever have one id at a time, and no id that is *)
(* about to be dealt out is still in use anywhere.                         *)
THEOREM IdsNeverShared == Spec => []IdsUnique
<1>1. Init => TypeInv /\ IdInv
  BY InitType, InitIds
<1>2. TypeInv /\ IdInv /\ [Next]_vars => IdInv'
  <2>1. ASSUME TypeInv, IdInv, UNCHANGED vars
        PROVE  IdInv'
    BY <2>1, SameIds DEF vars
  <2> QED
    BY <2>1, LocalIds, ExchangeIds DEF Next
<1>3. TypeInv /\ IdInv => IdsUnique
  BY IdInvImplies DEF TypeInv
<1> QED
  BY <1>1, <1>2, <1>3, TypeInvariant, PTL DEF Spec
=============================================================================
