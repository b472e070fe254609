------------------------- MODULE DomainCopiesProofs -------------------------
(***************************************************************************)
(* Theorems about Domain: the ranks agree on who holds which body and      *)
(* which constraint, so that every message finds what it names and the     *)
(* local dynamics are complete, and together they implement SerialDomain.  *)
(* They hold where the script does not delete after the first step and     *)
(* where no id is dealt out again while copies of a broken constraint that *)
(* had it are still there (SafeCalls).                                     *)
(***************************************************************************)
EXTENDS DomainProofs

(* Script calls after the first step that the domain is made for.          *)
SafeCalls ==
  \/ LateCalls = {}
  \/ ~ Breaking /\ LateCalls \subseteq {"FIX_POINT", "PUT_RIGID_LINK"}

-----------------------------------------------------------------------------
(* What a constraint and its copies have in common                         *)

Core(c)  == [id |-> c.id, kind |-> c.kind, master |-> c.master,
             slave |-> c.slave]
Cores(S) == {Core(c) : c \in S}

CoreType == [id : Nat \ {0}, kind : {"CONTACT", "FIXPNT", "RIGLNK"},
             master : Body, slave : Body \cup {0}]

LEMMA CoreFacts ==
  ASSUME NEW c, NEW d, NEW e
  PROVE  /\ Core(c).id = c.id
         /\ Bodies(Core(c)) = Bodies(c)
         /\ IsContact(Core(c)) <=> IsContact(c)
         /\ Core(Core(c)) = Core(c)
         /\ Entry(Core(c), e) = Entry(c, e)
         /\ Entry(c, e).id = c.id
         /\ Entry(c, e).external = e
         /\ Bodies(Entry(c, e)) = Bodies(c)
         /\ SameKey(c, c)
         /\ SameKey(c, d) <=> SameKey(d, c)
         /\ SameKey(Core(c), d) <=> SameKey(c, d)
         /\ SameKey(Entry(c, e), d) <=> SameKey(c, d)
BY DEF Core, Bodies, IsContact, Entry, SameKey

LEMMA SameCore ==
  ASSUME NEW c, NEW d, Core(c) = Core(d)
  PROVE  /\ c.id = d.id
         /\ c.kind = d.kind
         /\ c.master = d.master
         /\ c.slave = d.slave
         /\ Bodies(c) = Bodies(d)
         /\ IsContact(c) <=> IsContact(d)
         /\ SameKey(c, d)
         /\ \A e : SameKey(c, e) <=> SameKey(d, e)
         /\ \A e : SameKey(e, c) <=> SameKey(e, d)
         /\ \A e : Entry(c, e) = Entry(d, e)
<1>1. /\ c.id = d.id
      /\ c.kind = d.kind
      /\ c.master = d.master
      /\ c.slave = d.slave
  BY DEF Core
<1> QED
  BY <1>1 DEF Bodies, IsContact, Entry, SameKey

LEMMA CoreTyped ==
  ASSUME NEW c, c \in Constraint \/ c \in CopyType
  PROVE  Core(c) \in CoreType
BY DEF Core, CoreType, Constraint, CopyType

(* Entries made from constraints differ if these differ.                   *)
LEMMA EntryCore ==
  ASSUME NEW j \in CoreType, NEW k \in CoreType, NEW e, NEW f,
         Entry(j, e) = Entry(k, f)
  PROVE  j = k /\ e = f
<1>1. /\ j.id = k.id
      /\ j.kind = k.kind
      /\ j.master = k.master
      /\ j.slave = k.slave
      /\ e = f
  BY DEF Entry
<1> QED
  BY <1>1 DEF CoreType

LEMMA CopyCore ==
  ASSUME NEW c, NEW r
  PROVE  Core(Copy(c, r)) = Core(c) /\ Copy(c, r).rank = r
                                    /\ Copy(c, r).id = c.id
BY DEF Core, Copy

LEMMA CopyIsCore ==
  ASSUME NEW x \in CopyType, NEW c, NEW r, Core(x) = Core(c), x.rank = r
  PROVE  x = Copy(c, r)
<1>1. /\ x.id = c.id
      /\ x.kind = c.kind
      /\ x.master = c.master
      /\ x.slave = c.slave
  BY SameCore
<1>2. x = [id |-> x.id, kind |-> x.kind, master |-> x.master,
           slave |-> x.slave, rank |-> x.rank]
  BY DEF CopyType
<1> QED
  BY <1>1, <1>2 DEF Copy

LEMMA CoresUnion ==
  ASSUME NEW S, NEW T
  PROVE  Cores(S \cup T) = Cores(S) \cup Cores(T)
BY DEF Cores

LEMMA CoresMinus ==
  ASSUME NEW S, NEW D \in SUBSET S, \A c, d \in S : c.id = d.id => c = d
  PROVE  Cores(S \ D) = Cores(S) \ Cores(D)
<1>1. ASSUME NEW c \in S, NEW d \in S, Core(c) = Core(d)
      PROVE  c = d
  BY <1>1, SameCore
<1> QED
  BY <1>1 DEF Cores

-----------------------------------------------------------------------------
(* The sets bod->con                                                       *)

(* The entries on body b of the constraints K and of the copies X.         *)
Entries(K, X, b) ==
  {Entry(k, FALSE) : k \in {j \in K : b \in Bodies(j)}}
    \cup {Entry(k, TRUE) : k \in {j \in X : b \in Bodies(j)}}

LEMMA WithoutEntries ==
  ASSUME NEW K, NEW X, NEW S, NEW b,
         Cores(S) \subseteq K \cup X,
         \A j, k \in K \cup X : SameKey(j, k) => j = k,
         NEW L, L = K \ Cores(S), NEW Y, Y = X \ Cores(S)
  PROVE  Without(Entries(K, X, b), S, b) = Entries(L, Y, b)
<1>1. ASSUME NEW k \in K \cup X, NEW f \in BOOLEAN, b \in Bodies(k)
      PROVE  (\A c \in S : b \in Bodies(c) => ~ SameKey(Entry(k, f), c))
               <=> k \notin Cores(S)
  <2>1. ASSUME NEW c \in S, b \in Bodies(c), SameKey(Entry(k, f), c)
        PROVE  k \in Cores(S)
    <3>1. SameKey(k, Core(c))
      BY <2>1, CoreFacts
    <3>2. Core(c) \in K \cup X
      BY DEF Cores
    <3>3. k = Core(c)
      BY <3>1, <3>2
    <3> QED
      BY <3>3 DEF Cores
  <2>2. ASSUME NEW c \in S, k = Core(c)
        PROVE  b \in Bodies(c) /\ SameKey(Entry(k, f), c)
    BY <1>1, <2>2, CoreFacts
  <2> QED
    BY <2>1, <2>2 DEF Cores
<1> HIDE DEF Cores
<1>2. ASSUME NEW e
      PROVE  e \in Without(Entries(K, X, b), S, b)
               <=> e \in Entries(L, Y, b)
  <2>1. e \in Without(Entries(K, X, b), S, b) <=>
          /\ \/ \E k \in K : b \in Bodies(k) /\ e = Entry(k, FALSE)
             \/ \E k \in X : b \in Bodies(k) /\ e = Entry(k, TRUE)
          /\ \A c \in S : b \in Bodies(c) => ~ SameKey(e, c)
    BY DEF Without, Entries
  <2>2. e \in Entries(L, Y, b) <=>
          \/ \E k \in K : k \notin Cores(S) /\ b \in Bodies(k) /\ e = Entry(k, FALSE)
          \/ \E k \in X : k \notin Cores(S) /\ b \in Bodies(k) /\ e = Entry(k, TRUE)
    BY DEF Entries
  <2> QED
    BY <2>1, <2>2, <1>1
<1> QED
  BY <1>2

(* The constraints S join the set of a body, as regular or external ones.  *)
AddRegular(list, S, b) == With(list, S, b, FALSE)
AddCopies(list, S, b)  == With(list, S, b, TRUE)

LEMMA AddEntries ==
  ASSUME NEW K, NEW X, NEW S, NEW b,
         \A c \in S : \A k \in K \cup X : ~ SameKey(k, c),
         NEW L
  PROVE  /\ L = K \cup Cores(S) =>
              AddRegular(Entries(K, X, b), S, b) = Entries(L, X, b)
         /\ L = X \cup Cores(S) =>
              AddCopies(Entries(K, X, b), S, b) = Entries(K, L, b)
<1>1. ASSUME NEW c \in S, NEW e \in Entries(K, X, b)
      PROVE  ~ SameKey(e, c)
  <2>1. PICK k \in K \cup X, f \in BOOLEAN : e = Entry(k, f)
    BY DEF Entries
  <2> QED
    BY <2>1, CoreFacts
<1>2. \A f : With(Entries(K, X, b), S, b, f)
               = Entries(K, X, b)
                   \cup {Entry(c, f) : c \in {d \in S : b \in Bodies(d)}}
  <2>1. {d \in S : b \in Bodies(d) /\ \A e \in Entries(K, X, b) : ~ SameKey(e, d)}
          = {d \in S : b \in Bodies(d)}
    BY <1>1
  <2> QED
    BY <2>1 DEF With
<1>3. \A f : {Entry(c, f) : c \in {d \in S : b \in Bodies(d)}}
               = {Entry(k, f) : k \in {j \in Cores(S) : b \in Bodies(j)}}
  <2>1. \A c : Bodies(Core(c)) = Bodies(c)
    BY CoreFacts
  <2>2. \A c, f : Entry(Core(c), f) = Entry(c, f)
    BY CoreFacts
  <2> QED
    BY <2>1, <2>2 DEF Cores
<1>4. \A A : {Entry(k, FALSE) : k \in {j \in K \cup A : b \in Bodies(j)}}
             = {Entry(k, FALSE) : k \in {j \in K : b \in Bodies(j)}}
                 \cup {Entry(k, FALSE) : k \in {j \in A : b \in Bodies(j)}}
  OBVIOUS
<1>5. \A A : {Entry(k, TRUE) : k \in {j \in X \cup A : b \in Bodies(j)}}
             = {Entry(k, TRUE) : k \in {j \in X : b \in Bodies(j)}}
                 \cup {Entry(k, TRUE) : k \in {j \in A : b \in Bodies(j)}}
  OBVIOUS
<1>6. AddRegular(Entries(K, X, b), S, b)
        = Entries(K, X, b)
            \cup {Entry(k, FALSE) : k \in {j \in Cores(S) : b \in Bodies(j)}}
  BY <1>2, <1>3 DEF AddRegular, AddCopies
<1>7. AddCopies(Entries(K, X, b), S, b)
        = Entries(K, X, b)
            \cup {Entry(k, TRUE) : k \in {j \in Cores(S) : b \in Bodies(j)}}
  BY <1>2, <1>3 DEF AddRegular, AddCopies
<1> HIDE DEF Cores
<1>8. Entries(K \cup Cores(S), X, b)
        = Entries(K, X, b)
            \cup {Entry(k, FALSE) : k \in {j \in Cores(S) : b \in Bodies(j)}}
  BY <1>4, Zenon DEF Entries
<1>9. Entries(K, X \cup Cores(S), b)
        = Entries(K, X, b)
            \cup {Entry(k, TRUE) : k \in {j \in Cores(S) : b \in Bodies(j)}}
  BY <1>5, Zenon DEF Entries
<1> QED
  BY <1>6, <1>7, <1>8, <1>9

(* Only the constraints on the body matter.                                *)
LEMMA EntriesOnBody ==
  ASSUME NEW K, NEW X, NEW L, NEW Y, NEW b,
         \A k : b \in Bodies(k) => ((k \in K <=> k \in L) /\ (k \in X <=> k \in Y))
  PROVE  Entries(K, X, b) = Entries(L, Y, b)
BY DEF Entries

-----------------------------------------------------------------------------
(* The inductive invariant                                                 *)

(* x is a copy at p whose constraint is gone; its removal is on the way.   *)
Stale(p, x) == x.id \in Arriving(remove, p)

StoredNowhere(b) == \A r \in Rank : ~ IsStored(r, b)

HeldFrom(p, b) ==
  /\ \A r \in Rank : IsStored(r, b)
  /\ \A r \in Rank : IsParent(r, b) <=> r = p
  /\ \A r \in Holders(b) : /\ body[r][b].rank = p
                           /\ body[r][b].children = Holders(b) \ {r, p}

(* A body is gone on all ranks, or the ranks that hold it agree on it.     *)
StoreInv == \A b \in Body : StoredNowhere(b) \/ \E p \in Rank : HeldFrom(p, b)

BodiesStored ==
  /\ \A r, q \in Rank : \A c \in con[r] : \A b \in Bodies(c) : IsStored(q, b)
  /\ \A l \in pending : \A q \in Rank :
       IsStored(q, l.master) /\ IsStored(q, l.slave)

PendingInv ==
  /\ pending # {} => phase \in {"callback", "balance"}
  /\ started /\ LateCalls = {} => pending = {}

NoSpareBodies == \A r \in Rank : sparebid[r] = {}

BodyInv == StoreInv /\ BodiesStored /\ PendingInv /\ NoSpareBodies

(* New constraints are contacts; they have no copies until they are glued. *)
NewInv ==
  \A r \in Rank : \A c \in con[r] : c.new =>
    /\ IsContact(c) /\ c.slave # 0
    /\ phase \in {"detect", "sparsify"}
    /\ phase = "detect" => /\ c.ext = {}
                           /\ r \in shape[c.master] \cap shape[c.slave]
                           /\ Filters(r, c.master, c.slave)

(* Copies are where they are needed,                                       *)
ExtInv ==
  phase \in {"detect", "sparsify", "solve"} =>
    \A r \in Rank : \A c \in con[r] :
      \/ phase = "detect" /\ c.new
      \/ c.ext = Needed(r, c)

(* and until the next balancing the parent of a body knows all that is     *)
(* attached to it.                                                         *)
ParentKnows ==
  phase \in {"callback", "balance"} =>
    \A r, p \in Rank : \A c \in con[r] : \A b \in Bodies(c) :
      IsParent(p, b) => p \in c.ext \cup {r} \/ c.id \in linked

ReachInv == NewInv /\ ExtInv /\ ParentKnows /\ NoDummy

(* A constraint has its copies where it says; while constraints migrate,   *)
(* copies that stay still name the old owner.                              *)
Copied ==
  \A r, p \in Rank : \A c \in con[r] : p \in c.ext =>
    \E x \in conext[p] : Core(x) = Core(c) /\ (phase # "glue" => x.rank = r)

Owned ==
  \A p \in Rank : \A x \in conext[p] :
    \/ Stale(p, x)
    \/ \E r \in Rank : \E c \in con[r] :
         p \in c.ext /\ Core(x) = Core(c) /\ (phase # "glue" => x.rank = r)

RemovalsKnown ==
  \A p \in Rank : \A i \in Arriving(remove, p) : \E x \in conext[p] : x.id = i

StaleApart ==
  \A p, r \in Rank : \A x \in conext[p] : Stale(p, x) =>
    \A c \in con[r] : ~ SameKey(c, x)

CopiesApart ==
  \A p \in Rank : \A x, y \in conext[p] : SameKey(x, y) \/ x.id = y.id => x = y

(* What is left of broken constraints is never there when ids are dealt    *)
(* out to constraints other than contacts.                                 *)
BrokenOnly ==
  \A p \in Rank : \A x \in conext[p] :
    Stale(p, x) /\ ~ IsContact(x) => started /\ LateCalls = {}

CopyInv == /\ Copied /\ Owned /\ RemovalsKnown /\ StaleApart /\ CopiesApart
           /\ BrokenOnly

(* The sets of the bodies hold all constraints and copies of the rank.     *)
Listed ==
  \A r \in Rank, b \in Body :
    bodcon[r][b] = Entries(Cores(con[r]), Cores(conext[r]), b)

(* What holds whatever the constraints go through.                         *)
BaseInv == TypeInv /\ IdInv

DomainInv ==
  BodyInv /\ ReachInv /\ CopyInv /\ Listed /\ OneContactPerPair /\ missed = {}

-----------------------------------------------------------------------------
(* Consequences                                                            *)

LEMMA LiveApart ==
  ASSUME BaseInv, OneContactPerPair, NEW r \in Rank, NEW q \in Rank,
         NEW c \in con[r], NEW d \in con[q],
         SameKey(c, d) \/ Core(c) = Core(d) \/ c.id = d.id
  PROVE  r = q /\ c = d
<1>1. c \in All /\ d \in All
  BY DEF All
<1>2. SameKey(c, d) \/ c.id = d.id
  BY SameCore
<1>3. c.id = d.id
  BY <1>1, <1>2 DEF OneContactPerPair, SameKey
<1> QED
  BY <1>3 DEF BaseInv, IdInv, OneEach

(* The copy at p of a constraint is the only one with its id.              *)
LEMMA CopyOf ==
  ASSUME BaseInv, CopyInv, NEW r \in Rank, NEW p \in Rank, NEW c \in con[r],
         p \in c.ext
  PROVE  /\ \E x \in conext[p] : Core(x) = Core(c) /\ (phase # "glue" => x.rank = r)
         /\ \A x \in conext[p] : x.id = c.id \/ SameKey(x, c) =>
              /\ Core(x) = Core(c)
              /\ phase # "glue" => x.rank = r
              /\ ~ Stale(p, x)
<1>1. PICK y \in conext[p] : Core(y) = Core(c) /\ (phase # "glue" => y.rank = r)
  BY DEF CopyInv, Copied
<1>2. ASSUME NEW x \in conext[p], x.id = c.id \/ SameKey(x, c)
      PROVE  x = y
  <2>1. y.id = c.id /\ (SameKey(x, c) => SameKey(x, y))
    BY <1>1, SameCore
  <2>2. SameKey(x, y) \/ x.id = y.id
    BY <1>2, <2>1
  <2> QED
    BY <2>2 DEF CopyInv, CopiesApart
<1>3. SameKey(c, y)
  BY <1>1, SameCore, CoreFacts
<1>4. ~ Stale(p, y)
  BY <1>3 DEF CopyInv, StaleApart
<1> QED
  BY <1>1, <1>2, <1>4

LEMMA NotStale ==
  ASSUME BaseInv, CopyInv, NEW r \in Rank, NEW p \in Rank, NEW c \in con[r],
         p \in c.ext
  PROVE  c.id \notin Arriving(remove, p)
<1>1. PICK x \in conext[p] : Core(x) = Core(c)
  BY CopyOf
<1>2. x.id = c.id
  BY <1>1, SameCore
<1> QED
  BY <1>2, CopyOf DEF Stale

LEMMA RegularApart ==
  ASSUME BaseInv, CopyInv, OneContactPerPair, NEW p \in Rank, NEW c \in con[p],
         NEW x \in conext[p]
  PROVE  ~ SameKey(c, x) /\ ~ SameKey(x, c) /\ Core(c) # Core(x)
<1>1. CASE Stale(p, x)
  BY <1>1, CoreFacts, SameCore DEF CopyInv, StaleApart
<1>2. CASE ~ Stale(p, x)
  <2>1. PICK r \in Rank : \E d \in con[r] : p \in d.ext /\ Core(x) = Core(d)
    BY <1>2 DEF CopyInv, Owned
  <2>2. PICK d \in con[r] : p \in d.ext /\ Core(x) = Core(d)
    BY <2>1
  <2>3. p \notin c.ext
    BY DEF BaseInv, TypeInv, NotOwn
  <2>4. ~ SameKey(c, d)
    BY <2>2, <2>3, LiveApart
  <2> QED
    BY <2>2, <2>4, SameCore, CoreFacts
<1> QED
  BY <1>1, <1>2

LEMMA CoresTyped ==
  ASSUME BaseInv, NEW p \in Rank
  PROVE  /\ Cores(con[p]) \subseteq CoreType
         /\ Cores(conext[p]) \subseteq CoreType
BY CoreTyped DEF BaseInv, TypeInv, ConType, ConextType, Cores

(* All that is at a rank has keys of its own.                              *)
LEMMA KeysApart ==
  ASSUME BaseInv, CopyInv, OneContactPerPair, NEW p \in Rank
  PROVE  /\ \A j, k \in Cores(con[p]) \cup Cores(conext[p]) :
              SameKey(j, k) => j = k
         /\ Cores(con[p]) \cap Cores(conext[p]) = {}
         /\ \A c, d \in con[p] : c.id = d.id => c = d
         /\ \A x, y \in conext[p] : x.id = y.id => x = y
<1>1. ASSUME NEW c \in con[p], NEW d \in con[p], SameKey(c, d) \/ c.id = d.id
      PROVE  c = d
  BY <1>1, LiveApart
<1>2. ASSUME NEW c \in conext[p], NEW d \in conext[p], SameKey(c, d) \/ c.id = d.id
      PROVE  c = d
  BY <1>2 DEF CopyInv, CopiesApart
<1>3. ASSUME NEW c \in con[p], NEW x \in conext[p]
      PROVE  ~ SameKey(c, x) /\ ~ SameKey(x, c) /\ Core(c) # Core(x)
  BY RegularApart
<1>4. \A c, d : SameKey(Core(c), Core(d)) <=> SameKey(c, d)
  BY CoreFacts
<1>5. ASSUME NEW j \in Cores(con[p]) \cup Cores(conext[p]),
             NEW k \in Cores(con[p]) \cup Cores(conext[p]), SameKey(j, k)
      PROVE  j = k
  <2>1. PICK c \in con[p] \cup conext[p] : j = Core(c)
    BY DEF Cores
  <2>2. PICK d \in con[p] \cup conext[p] : k = Core(d)
    BY DEF Cores
  <2>3. SameKey(c, d)
    BY <1>4, <1>5, <2>1, <2>2
  <2> QED
    BY <1>1, <1>2, <1>3, <2>1, <2>2, <2>3
<1>6. Cores(con[p]) \cap Cores(conext[p]) = {}
  BY <1>3 DEF Cores
<1> QED
  BY <1>1, <1>2, <1>5, <1>6

(* What bod->con tells of the bodies X.                                    *)
LEMMA OnBodiesMeans ==
  ASSUME BaseInv, CopyInv, OneContactPerPair, Listed, NEW p \in Rank,
         NEW X \in SUBSET Body
  PROVE  /\ RegularOn(p, X) = {c \in con[p] : Bodies(c) \cap X # {}}
         /\ ExternalOn(p, X) = {x \in conext[p] : Bodies(x) \cap X # {}}
<1>1. ASSUME NEW b \in X
      PROVE  bodcon[p][b] = Entries(Cores(con[p]), Cores(conext[p]), b)
  BY DEF Listed
<1>2. ASSUME NEW c \in con[p], NEW b \in X, NEW e \in bodcon[p][b], e.id = c.id,
             e.external = FALSE
      PROVE  b \in Bodies(c)
  <2>1. PICK k \in Cores(con[p]) \cup Cores(conext[p]), f \in BOOLEAN :
          e = Entry(k, f) /\ b \in Bodies(k) /\ (f = FALSE => k \in Cores(con[p]))
    BY <1>1, <1>2, ZenonT(40) DEF Entries
  <2>2. f = FALSE /\ k.id = c.id
    BY <1>2, <2>1, CoreFacts
  <2>3. PICK d \in con[p] : k = Core(d)
    BY <2>1, <2>2 DEF Cores
  <2>4. d.id = c.id
    BY <2>2, <2>3, CoreFacts
  <2>5. d = c
    BY <2>4, KeysApart
  <2> QED
    BY <2>1, <2>3, <2>5, CoreFacts
<1>3. ASSUME NEW c \in conext[p], NEW b \in X, NEW e \in bodcon[p][b], e.id = c.id,
             e.external = TRUE
      PROVE  b \in Bodies(c)
  <2>1. PICK k \in Cores(con[p]) \cup Cores(conext[p]), f \in BOOLEAN :
          e = Entry(k, f) /\ b \in Bodies(k) /\ (f = TRUE => k \in Cores(conext[p]))
    BY <1>1, <1>3 DEF Entries
  <2>2. f = TRUE /\ k.id = c.id
    BY <1>3, <2>1, CoreFacts
  <2>3. PICK d \in conext[p] : k = Core(d)
    BY <2>1, <2>2 DEF Cores
  <2>4. d.id = c.id
    BY <2>2, <2>3, CoreFacts
  <2>5. d = c
    BY <2>4, KeysApart
  <2> QED
    BY <2>1, <2>3, <2>5, CoreFacts
<1>4. ASSUME NEW c \in con[p], NEW b \in X, b \in Bodies(c)
      PROVE  /\ Entry(c, FALSE) \in bodcon[p][b]
             /\ Entry(c, FALSE).id = c.id /\ Entry(c, FALSE).external = FALSE
  <2>1. /\ Core(c) \in Cores(con[p])
        /\ b \in Bodies(Core(c))
        /\ Entry(Core(c), FALSE) = Entry(c, FALSE)
    BY <1>4, CoreFacts DEF Cores
  <2>2. Entry(Core(c), FALSE) \in bodcon[p][b]
    BY <1>1, <2>1, Zenon DEF Entries
  <2> QED
    BY <2>1, <2>2, CoreFacts
<1>5. ASSUME NEW c \in conext[p], NEW b \in X, b \in Bodies(c)
      PROVE  /\ Entry(c, TRUE) \in bodcon[p][b]
             /\ Entry(c, TRUE).id = c.id /\ Entry(c, TRUE).external = TRUE
  <2>1. /\ Core(c) \in Cores(conext[p])
        /\ b \in Bodies(Core(c))
        /\ Entry(Core(c), TRUE) = Entry(c, TRUE)
    BY <1>5, CoreFacts DEF Cores
  <2>2. Entry(Core(c), TRUE) \in bodcon[p][b]
    BY <1>1, <2>1, Zenon DEF Entries
  <2> QED
    BY <2>1, <2>2, CoreFacts
<1>6. ASSUME NEW c \in con[p]
      PROVE  OnBodies(p, X, c, FALSE) <=> Bodies(c) \cap X # {}
  BY <1>2, <1>4 DEF OnBodies
<1>7. ASSUME NEW c \in conext[p]
      PROVE  OnBodies(p, X, c, TRUE) <=> Bodies(c) \cap X # {}
  BY <1>3, <1>5 DEF OnBodies
<1> QED
  BY <1>6, <1>7 DEF RegularOn, ExternalOn

-----------------------------------------------------------------------------
(* The script and detection insert constraints                             *)

LEMMA InitDomain ==
  ASSUME Init
  PROVE  DomainInv
<1>1. ASSUME NEW b \in Body
      PROVE  \E h \in Rank : HeldFrom(h, b)
  <2> DEFINE h == b % ncpu
  <2>1. h \in Rank
    <3>1. ncpu \in Nat /\ ncpu # 0 /\ nbody \in Nat
      BY DomainAssumption
    <3>2. b \in Nat
      BY <3>1 DEF Body
    <3> QED
      BY <3>1, <3>2 DEF Rank
  <2>2. \A r \in Rank : body[r][b] = IF h = r THEN Parent(r, {}) ELSE Dummy
    BY DEF Init
  <2> HIDE DEF h
  <2>3. ASSUME NEW r \in Rank
        PROVE  /\ IsParent(r, b) <=> r = h
               /\ IsHeld(r, b) <=> r = h
               /\ IsStored(r, b)
               /\ r = h => body[r][b].rank = h /\ body[r][b].children = {}
    <3>1. CASE h = r
      <4>1. body[r][b] = Parent(r, {})
        BY <2>2, <3>1
      <4> QED
        BY <3>1, <4>1 DEF IsParent, IsHeld, IsStored, Parent
    <3>2. CASE h # r
      <4>1. body[r][b] = Dummy
        BY <2>2, <3>2
      <4> QED
        BY <3>2, <4>1 DEF IsParent, IsHeld, IsStored, Dummy
    <3> QED
      BY <3>1, <3>2
  <2>4. Holders(b) = {h}
    BY <2>1, <2>3 DEF Holders
  <2>5. HeldFrom(h, b)
    BY <2>1, <2>3, <2>4 DEF HeldFrom
  <2> QED
    BY <2>1, <2>5
<1>2. BodyInv
  BY <1>1 DEF Init, BodyInv, StoreInv, BodiesStored, PendingInv, NoSpareBodies
<1>3. ReachInv
  BY DEF Init, ReachInv, NewInv, ExtInv, ParentKnows, NoDummy
<1>4. CopyInv
  <2>1. \A p \in Rank : Arriving(remove, p) = {}
    BY DEF Init, NothingToRemove, Arriving
  <2> QED
    BY <2>1 DEF Init, CopyInv, Copied, Owned, RemovalsKnown, StaleApart,
                CopiesApart, BrokenOnly
<1>5. Listed
  BY DEF Init, Listed, Entries, Cores
<1>6. OneContactPerPair
  BY DEF Init, OneContactPerPair, All
<1> QED
  BY <1>2, <1>3, <1>4, <1>5, <1>6 DEF DomainInv, Init

LEMMA SameStore ==
  ASSUME StoreInv, body' = body
  PROVE  StoreInv'
BY DEF StoreInv, StoredNowhere, HeldFrom, Holders, IsHeld, IsParent, IsStored

(* A constraint that has no key in common with any other joins its rank.   *)
LEMMA InsertCopies ==
  ASSUME BaseInv, DomainInv, NEW r \in Rank, NEW c, Insert(r, c),
         c.ext = {},
         UNCHANGED <<phase, started, conext, remove>>,
         \A q \in Rank : \A d \in con[q] : ~ SameKey(d, c),
         \A q \in Rank : \A x \in conext[q] : ~ SameKey(x, c)
  PROVE  /\ \A q \in Rank : con'[q] = IF q = r THEN con[r] \cup {c} ELSE con[q]
         /\ CopyInv' /\ Listed' /\ OneContactPerPair'
<1>1. \A q \in Rank : con'[q] = IF q = r THEN con[r] \cup {c} ELSE con[q]
  BY DEF Insert, BaseInv, TypeInv, ConType
<1>2. \A p \in Rank : Arriving(remove, p)' = Arriving(remove, p)
  BY DEF Arriving
<1>3. Copied'
  <2>1. ASSUME NEW q \in Rank, NEW p \in Rank, NEW d \in con'[q], p \in d.ext
        PROVE  d \in con[q]
    BY <1>1, <2>1
  <2> QED
    BY <2>1 DEF DomainInv, CopyInv, Copied
<1>4. Owned'
  <2>1. \A q \in Rank : con[q] \subseteq con'[q]
    BY <1>1
  <2> QED
    BY <1>2, <2>1 DEF DomainInv, CopyInv, Owned, Stale
<1>5. StaleApart'
  <2>1. ASSUME NEW q \in Rank, NEW p \in Rank, NEW x \in conext[p], Stale(p, x),
               NEW d \in con'[q]
        PROVE  ~ SameKey(d, x)
    <3>1. CASE d \in con[q]
      BY <2>1, <3>1 DEF DomainInv, CopyInv, StaleApart
    <3>2. CASE d = c
      BY <3>2, CoreFacts
    <3> QED
      BY <1>1, <3>1, <3>2
  <2> QED
    BY <1>2, <2>1 DEF StaleApart, Stale
<1>6. RemovalsKnown' /\ CopiesApart' /\ BrokenOnly'
  BY <1>2 DEF DomainInv, CopyInv, RemovalsKnown, CopiesApart, BrokenOnly, Stale
<1>7. Listed'
  <2>1. ASSUME NEW q \in Rank, NEW b \in Body
        PROVE  bodcon'[q][b] = Entries(Cores(con'[q]), Cores(conext'[q]), b)
    <3>1. bodcon[q][b] = Entries(Cores(con[q]), Cores(conext[q]), b)
      BY DEF DomainInv, Listed
    <3>2. CASE q # r
      BY <1>1, <3>1, <3>2 DEF Insert, BaseInv, TypeInv, BodconType
    <3>3. CASE q = r
      <4>1. bodcon'[r][b] = AddRegular(bodcon[r][b], {c}, b)
        BY DEF AddRegular, Insert, BaseInv, TypeInv, BodconType
      <4>2. ASSUME NEW k \in Cores(con[r]) \cup Cores(conext[r])
            PROVE  ~ SameKey(k, c)
        <5>1. PICK d \in con[r] \cup conext[r] : k = Core(d)
          BY DEF Cores
        <5> QED
          BY <5>1, CoreFacts
      <4>3. AddRegular(Entries(Cores(con[r]), Cores(conext[r]), b), {c}, b)
              = Entries(Cores(con[r]) \cup Cores({c}), Cores(conext[r]), b)
        <5> DEFINE K == Cores(con[r])
                   X == Cores(conext[r])
                   S == {c}
        <5>1. \A d \in S : \A k \in K \cup X : ~ SameKey(k, d)
          BY <4>2
        <5> HIDE DEF K, X, S
        <5>2. \A L : L = K \cup Cores(S) =>
                AddRegular(Entries(K, X, b), S, b) = Entries(L, X, b)
          BY <5>1, AddEntries
        <5> QED
          BY <5>2 DEF K, X, S
      <4>4. Cores(con[r]) \cup Cores({c}) = Cores(con'[r])
        BY <1>1, CoresUnion
      <4> QED
        BY <3>1, <3>3, <4>1, <4>3, <4>4
    <3> QED
      BY <3>2, <3>3
  <2> QED
    BY <2>1 DEF Listed
<1>8. OneContactPerPair'
  <2>1. \A d : d \in All' => d \in All \/ d = c
    BY <1>1 DEF All
  <2>2. \A d \in All : ~ SameKey(d, c) /\ ~ SameKey(c, d)
    BY CoreFacts DEF All
  <2> QED
    BY <2>1, <2>2 DEF DomainInv, OneContactPerPair, SameKey
<1> QED
  BY <1>1, <1>3, <1>4, <1>5, <1>6, <1>7, <1>8 DEF CopyInv

LEMMA NewIdFree ==
  ASSUME BaseInv, NEW r \in Rank
  PROVE  \A q \in Rank : \A d \in con[q] : d.id # NewId(r)
<1>1. ASSUME NEW q \in Rank, NEW d \in con[q]
      PROVE  d.id # NewId(r)
  <2>1. CASE sparecid[r] = {}
    <3>1. NewId(r) \in Fresh(r)
      BY <2>1, NextIsFresh DEF BaseInv, TypeInv, NewId
    <3> QED
      BY <3>1 DEF BaseInv, IdInv, NotFresh
  <2>2. CASE sparecid[r] # {}
    <3>1. sparecid[r] \in SUBSET Nat
      BY DEF BaseInv, TypeInv, IdType
    <3>2. \E j \in sparecid[r] : \A k \in sparecid[r] : j <= k
      BY <2>2, <3>1, SmallestExists
    <3>3. NewId(r) = CHOOSE j \in sparecid[r] : \A k \in sparecid[r] : j <= k
      BY <2>2 DEF NewId
    <3>4. NewId(r) \in sparecid[r]
      BY <3>2, <3>3, Zenon
    <3> QED
      BY <3>4 DEF BaseInv, IdInv, NotSpare
  <2> QED
    BY <2>1, <2>2
<1> QED
  BY <1>1

(* A new id belongs to no constraint, and to no copy that a constraint of  *)
(* the same kind could be mistaken for.                                    *)
LEMMA NewKeyFree ==
  ASSUME BaseInv, DomainInv, NEW r \in Rank, NEW c, c.id = NewId(r),
         ~ IsContact(c), ~ (started /\ LateCalls = {})
  PROVE  /\ \A q \in Rank : \A d \in con[q] : ~ SameKey(d, c)
         /\ \A q \in Rank : \A x \in conext[q] : ~ SameKey(x, c)
<1>1. \A q \in Rank : \A d \in con[q] : d.id # NewId(r)
  BY NewIdFree
<1>2. ASSUME NEW q \in Rank, NEW d \in con[q]
      PROVE  ~ SameKey(d, c)
  BY <1>1 DEF SameKey
<1>3. ASSUME NEW q \in Rank, NEW x \in conext[q], SameKey(x, c)
      PROVE  FALSE
  <2>1. ~ IsContact(x)
    BY <1>3 DEF SameKey
  <2>2. ~ Stale(q, x)
    BY <2>1 DEF DomainInv, CopyInv, BrokenOnly
  <2>3. PICK s \in Rank : \E d \in con[s] : Core(x) = Core(d)
    BY <2>2 DEF DomainInv, CopyInv, Owned
  <2> QED
    BY <1>2, <1>3, <2>3, SameCore
<1> QED
  BY <1>2, <1>3

LEMMA NoBodyZero == 0 \notin Body
<1>1. nbody \in Nat
  BY DomainAssumption
<1> QED
  BY <1>1 DEF Body

LEMMA ParentHolds ==
  ASSUME BaseInv, StoreInv, NEW r \in Rank, NEW b \in Body, IsParent(r, b)
  PROVE  HeldFrom(r, b)
<1>1. ~ StoredNowhere(b)
  BY DEF StoredNowhere, IsParent, IsStored
<1>2. PICK p \in Rank : HeldFrom(p, b)
  BY <1>1 DEF StoreInv
<1>3. p = r
  BY <1>2 DEF HeldFrom
<1> QED
  BY <1>2, <1>3

LEMMA FixPointDomain ==
  ASSUME BaseInv, DomainInv, NEW r \in Rank, NEW b \in Body, FixPoint(r, b)
  PROVE  DomainInv'
<1>1. PICK strength \in Strengths :
        Insert(r, NewConstraint(r, "FIXPNT", b, 0, strength))
  BY DEF FixPoint
<1> DEFINE c == NewConstraint(r, "FIXPNT", b, 0, strength)
<1>2. /\ c.id = NewId(r) /\ c.ext = {} /\ c.new = FALSE
      /\ ~ IsContact(c) /\ Bodies(c) = {b}
  <2>1. 0 # b
    BY NoBodyZero
  <2> QED
    BY <2>1 DEF NewConstraint, IsContact, Bodies
<1> HIDE DEF c
<1>3. /\ phase = "callback" /\ IsParent(r, b)
      /\ ~ (started /\ LateCalls = {})
      /\ UNCHANGED <<phase, started, body, conext, remove, sparebid, pending,
                     linked, shape, missed>>
  BY DEF FixPoint, Allowed
<1>4. /\ \A q \in Rank : \A d \in con[q] : ~ SameKey(d, c)
      /\ \A q \in Rank : \A x \in conext[q] : ~ SameKey(x, c)
  BY <1>2, <1>3, NewKeyFree
<1>5. /\ \A q \in Rank : con'[q] = IF q = r THEN con[r] \cup {c} ELSE con[q]
      /\ CopyInv' /\ Listed' /\ OneContactPerPair'
  BY <1>1, <1>2, <1>3, <1>4, InsertCopies DEF c
<1>6. HeldFrom(r, b)
  BY <1>3, ParentHolds DEF DomainInv, BodyInv
<1>7. BodyInv'
  <2>1. StoreInv'
    BY <1>3, SameStore DEF DomainInv, BodyInv
  <2>2. BodiesStored'
    <3>1. \A q \in Rank : \A a \in Bodies(c) : IsStored(q, a)
      BY <1>2, <1>6 DEF HeldFrom
    <3> QED
      BY <1>3, <1>5, <3>1 DEF DomainInv, BodyInv, BodiesStored, IsStored
  <2> QED
    BY <1>3, <2>1, <2>2 DEF DomainInv, BodyInv, PendingInv, NoSpareBodies
<1>8. ReachInv'
  <2>1. NewInv'
    BY <1>2, <1>3, <1>5 DEF DomainInv, ReachInv, NewInv, Filters
  <2>2. ParentKnows'
    <3>1. \A p \in Rank : \A a \in Bodies(c) : IsParent(p, a) => p = r
      BY <1>2, <1>6 DEF HeldFrom
    <3> QED
      BY <1>3, <1>5, <3>1 DEF DomainInv, ReachInv, ParentKnows, IsParent
  <2> QED
    BY <1>3, <2>1, <2>2 DEF ReachInv, ExtInv, NoDummy
<1> QED
  BY <1>3, <1>5, <1>7, <1>8 DEF DomainInv

LEMMA InsertPendingDomain ==
  ASSUME BaseInv, DomainInv, NEW r \in Rank, NEW l \in pending,
         InsertPending(r, l)
  PROVE  DomainInv'
<1> DEFINE c == NewConstraint(r, "RIGLNK", l.master, l.slave, l.strength)
<1>1. Insert(r, c)
  BY DEF InsertPending
<1>2. /\ c.id = NewId(r) /\ c.ext = {} /\ c.new = FALSE
      /\ ~ IsContact(c) /\ Bodies(c) \subseteq {l.master, l.slave}
  BY DEF NewConstraint, IsContact, Bodies
<1> HIDE DEF c
<1>3. /\ phase = "balance"
      /\ linked' = linked \cup {c.id}
      /\ pending' = pending \ {l}
      /\ UNCHANGED <<phase, started, body, conext, remove, sparebid, shape,
                     missed>>
  BY <1>2 DEF InsertPending
<1>4. ~ (started /\ LateCalls = {})
  BY DEF DomainInv, BodyInv, PendingInv
<1>5. /\ \A q \in Rank : \A d \in con[q] : ~ SameKey(d, c)
      /\ \A q \in Rank : \A x \in conext[q] : ~ SameKey(x, c)
  BY <1>2, <1>4, NewKeyFree
<1>6. /\ \A q \in Rank : con'[q] = IF q = r THEN con[r] \cup {c} ELSE con[q]
      /\ CopyInv' /\ Listed' /\ OneContactPerPair'
  BY <1>1, <1>2, <1>3, <1>5, InsertCopies
<1>7. BodyInv'
  <2>1. StoreInv'
    BY <1>3, SameStore DEF DomainInv, BodyInv
  <2>2. BodiesStored'
    <3>1. \A q \in Rank : \A a \in Bodies(c) : IsStored(q, a)
      BY <1>2 DEF DomainInv, BodyInv, BodiesStored
    <3> QED
      BY <1>3, <1>6, <3>1 DEF DomainInv, BodyInv, BodiesStored, IsStored
  <2>3. PendingInv'
    BY <1>3 DEF DomainInv, BodyInv, PendingInv
  <2> QED
    BY <1>3, <2>1, <2>2, <2>3 DEF DomainInv, BodyInv, NoSpareBodies
<1>8. ReachInv'
  <2>1. NewInv'
    BY <1>2, <1>3, <1>6 DEF DomainInv, ReachInv, NewInv, Filters
  <2>2. ParentKnows'
    BY <1>3, <1>6 DEF DomainInv, ReachInv, ParentKnows, IsParent
  <2> QED
    BY <1>3, <2>1, <2>2 DEF ReachInv, ExtInv, NoDummy
<1> QED
  BY <1>3, <1>6, <1>7, <1>8 DEF DomainInv

LEMMA PutRigidLinkDomain ==
  ASSUME BaseInv, DomainInv, NEW m \in Body, NEW s \in Body, PutRigidLink(m, s)
  PROVE  DomainInv'
<1>1. PICK strength \in Strengths :
        pending' = pending \cup {[master |-> m, slave |-> s,
                                  strength |-> strength]}
  BY DEF PutRigidLink
<1>2. /\ phase = "callback"
      /\ ~ (started /\ LateCalls = {})
      /\ \A r \in Rank : IsStored(r, m) /\ IsStored(r, s)
      /\ UNCHANGED <<phase, started, body, con, conext, bodcon, remove, cid,
                     sparecid, sparebid, linked, shape, missed>>
  BY DEF PutRigidLink, Allowed
<1>3. BodyInv'
  <2>1. StoreInv'
    BY <1>2, SameStore DEF DomainInv, BodyInv
  <2>2. BodiesStored'
    BY <1>1, <1>2 DEF DomainInv, BodyInv, BodiesStored, IsStored
  <2> QED
    BY <1>2, <2>1, <2>2 DEF DomainInv, BodyInv, PendingInv, NoSpareBodies
<1>4. ReachInv'
  BY <1>2 DEF DomainInv, ReachInv, NewInv, ExtInv, ParentKnows, NoDummy, Filters,
              IsParent
<1>5. CopyInv'
  BY <1>2 DEF DomainInv, CopyInv, Copied, Owned, RemovalsKnown, StaleApart,
              CopiesApart, BrokenOnly, Stale, Arriving
<1>6. Listed' /\ OneContactPerPair'
  BY <1>2 DEF DomainInv, Listed, OneContactPerPair, All
<1> QED
  BY <1>2, <1>3, <1>4, <1>5, <1>6 DEF DomainInv

(* Of several ranks that find a pair one reports it, once.                 *)
LEMMA OverlapCreateDomain ==
  ASSUME BaseInv, DomainInv, NEW r \in Rank, NEW a \in Body, NEW b \in Body,
         OverlapCreate(r, a, b)
  PROVE  DomainInv'
<1> DEFINE c == NewConstraint(r, "CONTACT", a, b, "DBL_MAX")
<1>1. Insert(r, c) /\ \A e \in bodcon[r][a] : ~ SameKey(e, c)
  BY DEF OverlapCreate
<1>2. /\ c.ext = {} /\ c.master = a /\ c.slave = b
      /\ IsContact(c) /\ Bodies(c) = {a, b}
  <2>1. 0 # a /\ 0 # b
    BY NoBodyZero
  <2> QED
    BY <2>1 DEF NewConstraint, IsContact, Bodies
<1> HIDE DEF c
<1>3. /\ phase = "detect"
      /\ a # b /\ IsHeld(r, a) /\ IsHeld(r, b)
      /\ r \in shape[a] \cap shape[b]
      /\ Filters(r, a, b)
      /\ UNCHANGED <<phase, started, body, conext, remove, sparebid, pending,
                     linked, shape, missed>>
  BY DEF OverlapCreate
<1>4. ASSUME NEW d \in con[r], SameKey(d, c)
      PROVE  FALSE
  <2>1. IsContact(d) /\ Bodies(d) = {a, b}
    BY <1>2, <1>4 DEF SameKey
  <2>2. Core(d) \in Cores(con[r]) /\ a \in Bodies(Core(d))
    BY <2>1, CoreFacts DEF Cores
  <2>3. \E f \in BOOLEAN : Entry(Core(d), f) \in bodcon[r][a]
    <3>1. bodcon[r][a] = Entries(Cores(con[r]), Cores(conext[r]), a)
      BY DEF DomainInv, Listed
    <3>2. Entry(Core(d), FALSE) \in bodcon[r][a]
      BY <2>2, <3>1, Zenon DEF Entries
    <3> QED
      BY <3>2
  <2>4. \A f : SameKey(Entry(Core(d), f), c)
    BY <1>4, CoreFacts
  <2> QED
    BY <1>1, <2>3, <2>4
<1>5. ASSUME NEW x \in conext[r], SameKey(x, c)
      PROVE  FALSE
  <2>1. IsContact(x) /\ Bodies(x) = {a, b}
    BY <1>2, <1>5 DEF SameKey
  <2>2. Core(x) \in Cores(conext[r]) /\ a \in Bodies(Core(x))
    BY <2>1, CoreFacts DEF Cores
  <2>3. \E f \in BOOLEAN : Entry(Core(x), f) \in bodcon[r][a]
    <3>1. bodcon[r][a] = Entries(Cores(con[r]), Cores(conext[r]), a)
      BY DEF DomainInv, Listed
    <3>2. Entry(Core(x), TRUE) \in bodcon[r][a]
      BY <2>2, <3>1, Zenon DEF Entries
    <3> QED
      BY <3>2
  <2>4. \A f : SameKey(Entry(Core(x), f), c)
    BY <1>5, CoreFacts
  <2> QED
    BY <1>1, <2>3, <2>4
<1>6. ASSUME NEW q \in Rank, NEW d \in con[q], SameKey(d, c)
      PROVE  FALSE
  <2>1. IsContact(d) /\ Bodies(d) = {a, b}
    BY <1>2, <1>6 DEF SameKey
  <2>2. q # r
    BY <1>4, <1>6
  <2>3. CASE d.new
    <3>1. /\ d.slave # 0
          /\ q \in shape[d.master] \cap shape[d.slave]
          /\ Filters(q, d.master, d.slave)
      BY <1>3, <2>3 DEF DomainInv, ReachInv, NewInv
    <3>2. d \in Constraint
      BY DEF BaseInv, TypeInv, ConType
    <3>3. d.master # 0
      BY <3>2, NoBodyZero DEF Constraint
    <3>4. {d.master, d.slave} = {a, b}
      BY <2>1, <3>1, <3>3 DEF Bodies
    <3>5. shape[d.master] \cap shape[d.slave] = shape[a] \cap shape[b]
      BY <3>4
    <3>6. q <= r /\ r <= q
      BY <1>3, <3>1, <3>5 DEF Filters
    <3>7. q \in Nat /\ r \in Nat
      BY RankFacts
    <3> QED
      BY <2>2, <3>6, <3>7
  <2>4. CASE ~ d.new
    <3>1. d.ext = Needed(q, d)
      BY <1>3, <2>4 DEF DomainInv, ReachInv, ExtInv
    <3>2. IsHeld(q, a)
      BY <1>3, <2>1 DEF DomainInv, ReachInv, NoDummy
    <3>3. PICK p \in Rank : HeldFrom(p, a)
      <4>1. ~ StoredNowhere(a)
        BY <3>2 DEF StoredNowhere, IsHeld, IsStored
      <4> QED
        BY <4>1 DEF DomainInv, BodyInv, StoreInv
    <3>4. q \in Holders(a) /\ r \in Holders(a)
      BY <1>3, <3>2 DEF Holders
    <3>5. body[q][a].rank = p /\ body[q][a].children = Holders(a) \ {q, p}
      BY <3>3, <3>4 DEF HeldFrom
    <3>6. q # p => body[q][a].flag = "CHILD"
      BY <3>2, <3>3 DEF HeldFrom, IsHeld, IsParent
    <3>7. r \in Needed(q, d)
      <4>1. CASE r = p
        BY <2>1, <2>2, <3>5, <3>6, <4>1 DEF Needed
      <4>2. CASE r # p
        <5>1. r \in body[q][a].children
          BY <2>2, <3>4, <3>5, <4>2
        <5> QED
          BY <2>1, <5>1 DEF Needed
      <4> QED
        BY <4>1, <4>2
    <3>8. PICK x \in conext[r] : Core(x) = Core(d)
      BY <3>1, <3>7 DEF DomainInv, CopyInv, Copied
    <3>9. SameKey(x, c)
      BY <1>6, <3>8, SameCore
    <3> QED
      BY <1>5, <3>9
  <2> QED
    BY <2>3, <2>4
<1>7. ASSUME NEW q \in Rank, NEW x \in conext[q], SameKey(x, c)
      PROVE  FALSE
  <2>1. ~ Stale(q, x)
    BY <1>3 DEF Stale, Arriving, BaseInv, TypeInv, RemoveType, NothingToRemove
  <2>2. PICK s \in Rank : \E d \in con[s] : Core(x) = Core(d)
    BY <2>1 DEF DomainInv, CopyInv, Owned
  <2> QED
    BY <1>6, <1>7, <2>2, SameCore
<1>8. /\ \A q \in Rank : con'[q] = IF q = r THEN con[r] \cup {c} ELSE con[q]
      /\ CopyInv' /\ Listed' /\ OneContactPerPair'
  BY <1>1, <1>2, <1>3, <1>6, <1>7, InsertCopies
<1>9. BodyInv'
  <2>1. StoreInv'
    BY <1>3, SameStore DEF DomainInv, BodyInv
  <2>2. BodiesStored'
    <3>1. ~ StoredNowhere(a) /\ ~ StoredNowhere(b)
      BY <1>3 DEF StoredNowhere, IsHeld, IsStored
    <3>2. \A q \in Rank : IsStored(q, a) /\ IsStored(q, b)
      BY <3>1 DEF DomainInv, BodyInv, StoreInv, HeldFrom
    <3>3. \A q \in Rank : \A e \in Bodies(c) : IsStored(q, e)
      BY <1>2, <3>2
    <3> QED
      BY <1>3, <1>8, <3>3 DEF DomainInv, BodyInv, BodiesStored, IsStored
  <2> QED
    BY <1>3, <2>1, <2>2 DEF DomainInv, BodyInv, PendingInv, NoSpareBodies
<1>10. ReachInv'
  <2>1. NewInv'
    <3>1. c.slave # 0
      BY <1>2, NoBodyZero
    <3> QED
      BY <1>2, <1>3, <1>8, <3>1 DEF DomainInv, ReachInv, NewInv, Filters
  <2>2. ExtInv'
    <3>1. c.new
      BY DEF c, NewConstraint
    <3> QED
      BY <1>3, <1>8, <3>1 DEF DomainInv, ReachInv, ExtInv, Needed
  <2>3. NoDummy'
    BY <1>2, <1>3, <1>8 DEF DomainInv, ReachInv, NoDummy, IsHeld
  <2> QED
    BY <1>3, <2>1, <2>2, <2>3 DEF ReachInv, ParentKnows
<1> QED
  BY <1>3, <1>8, <1>9, <1>10 DEF DomainInv

-----------------------------------------------------------------------------
(* Constraints are removed                                                 *)

LEMMA WithoutTwice ==
  ASSUME NEW list, NEW S, NEW T, NEW b
  PROVE  Without(Without(list, S, b), T, b) = Without(list, S \cup T, b)
BY DEF Without

(* The sets of the bodies when D and the copies X go.                      *)
LEMMA ListedWithout ==
  ASSUME BaseInv, DomainInv, NEW p \in Rank, NEW b \in Body,
         NEW D \in SUBSET con[p], NEW X \in SUBSET conext[p]
  PROVE  Without(bodcon[p][b], D \cup X, b)
           = Entries(Cores(con[p] \ D), Cores(conext[p] \ X), b)
<1> DEFINE K == Cores(con[p])
           E == Cores(conext[p])
           S == D \cup X
           L == Cores(con[p] \ D)
           Y == Cores(conext[p] \ X)
<1>1. /\ \A j, k \in K \cup E : SameKey(j, k) => j = k
      /\ K \cap E = {}
      /\ \A c, d \in con[p] : c.id = d.id => c = d
      /\ \A x, y \in conext[p] : x.id = y.id => x = y
  BY KeysApart DEF DomainInv
<1>2. L = K \ Cores(D) /\ Y = E \ Cores(X)
  BY <1>1, CoresMinus
<1>3. Cores(S) = Cores(D) \cup Cores(X)
  BY CoresUnion
<1>4. Cores(D) \subseteq K /\ Cores(X) \subseteq E
  BY DEF Cores
<1>5. bodcon[p][b] = Entries(K, E, b)
  BY DEF DomainInv, Listed
<1> HIDE DEF K, E, S, L, Y
<1>6. Cores(S) \subseteq K \cup E /\ L = K \ Cores(S) /\ Y = E \ Cores(S)
  BY <1>1, <1>2, <1>3, <1>4
<1>7. Without(Entries(K, E, b), S, b) = Entries(L, Y, b)
  BY <1>1, <1>6, WithoutEntries
<1> QED
  BY <1>5, <1>7 DEF S, L, Y

(* The removals that are scheduled for D name the copies of D.             *)
LEMMA ExtStale ==
  ASSUME BaseInv, CopyInv, NEW D, \A r \in Rank : D[r] \subseteq con[r],
         NEW p \in Rank
  PROVE  /\ \A x \in conext[p] :
              x.id \in Arriving(ExtToRemove(D), p)
                <=> \/ Stale(p, x)
                    \/ \E r \in Rank : \E c \in D[r] :
                         p \in c.ext /\ Core(x) = Core(c)
         /\ \A i \in Arriving(ExtToRemove(D), p) : \E x \in conext[p] : x.id = i
<1>1. \A i : i \in Arriving(ExtToRemove(D), p)
               <=> \/ i \in Arriving(remove, p)
                   \/ \E r \in Rank : \E c \in D[r] : p \in c.ext /\ c.id = i
  <2>1. \A r \in Rank : ExtToRemove(D)[r][p]
                          = remove[r][p] \cup Ids({c \in D[r] : p \in c.ext})
    BY DEF ExtToRemove
  <2> QED
    BY <2>1 DEF Arriving, Ids
<1>2. ASSUME NEW r \in Rank, NEW c \in D[r], p \in c.ext
      PROVE  /\ \E x \in conext[p] : x.id = c.id
             /\ \A x \in conext[p] : x.id = c.id <=> Core(x) = Core(c)
  <2>1. c \in con[r]
    OBVIOUS
  <2>2. PICK x \in conext[p] : Core(x) = Core(c)
    BY <1>2, <2>1, CopyOf
  <2>3. \A y \in conext[p] : Core(y) = Core(c) => y.id = c.id
    BY SameCore
  <2> QED
    BY <1>2, <2>1, <2>2, <2>3, CopyOf
<1>3. \A i \in Arriving(remove, p) : \E x \in conext[p] : x.id = i
  BY DEF CopyInv, RemovalsKnown
<1>4. \A x \in conext[p] :
        x.id \in Arriving(ExtToRemove(D), p)
          <=> \/ Stale(p, x)
              \/ \E r \in Rank : \E c \in D[r] :
                   p \in c.ext /\ Core(x) = Core(c)
  BY <1>1, <1>2 DEF Stale
<1>5. \A i \in Arriving(ExtToRemove(D), p) : \E x \in conext[p] : x.id = i
  BY <1>1, <1>2, <1>3
<1> QED
  BY <1>4, <1>5

(* Constraints D and copies X are removed; the copies of D that stay are   *)
(* scheduled to be removed.                                                *)
Removal(D, X) ==
  /\ \A r \in Rank : D[r] \subseteq con[r]
  /\ \A r \in Rank : \A e \in con'[r] :
       \E c \in con[r] \ D[r] : Core(e) = Core(c) /\ e.ext = c.ext
  /\ \A r \in Rank : \A c \in con[r] \ D[r] :
       \E e \in con'[r] : Core(e) = Core(c) /\ e.ext = c.ext
  /\ \A p \in Rank : conext'[p] = conext[p] \ X[p]
  /\ \A p, r \in Rank : \A c \in con[r] \ D[r] : \A x \in X[p] :
       p \in c.ext => Core(x) # Core(c)
  /\ \A p \in Rank : \A x \in conext'[p] :
       x.id \in Arriving(remove', p)
         <=> \/ Stale(p, x)
             \/ \E r \in Rank : \E c \in D[r] : p \in c.ext /\ Core(x) = Core(c)

LEMMA RemoveCopies ==
  ASSUME BaseInv, DomainInv, phase # "glue", phase' # "glue", NEW D, NEW X,
         Removal(D, X)
  PROVE  /\ Copied' /\ Owned' /\ StaleApart' /\ CopiesApart'
         /\ OneContactPerPair'
<1> USE DEF Removal
<1>1. \A p \in Rank : Arriving(remove, p)' = Arriving(remove', p)
  BY DEF Arriving
<1>2. Copied'
  <2>1. ASSUME NEW r \in Rank, NEW p \in Rank, NEW e \in con'[r], p \in e.ext
        PROVE  \E x \in conext'[p] : Core(x) = Core(e) /\ x.rank = r
    <3>1. PICK c \in con[r] \ D[r] : Core(e) = Core(c) /\ e.ext = c.ext
      OBVIOUS
    <3>2. PICK x \in conext[p] : Core(x) = Core(c) /\ x.rank = r
      BY <2>1, <3>1 DEF DomainInv, CopyInv, Copied
    <3>3. x \in conext'[p]
      BY <2>1, <3>1, <3>2
    <3> QED
      BY <3>1, <3>2, <3>3
  <2> QED
    BY <2>1 DEF Copied
<1>3. Owned'
  <2>1. ASSUME NEW p \in Rank, NEW x \in conext'[p], x.id \notin Arriving(remove', p)
        PROVE  \E r \in Rank : \E e \in con'[r] :
                 p \in e.ext /\ Core(x) = Core(e) /\ x.rank = r
    <3>1. x \in conext[p] /\ ~ Stale(p, x)
      BY <2>1
    <3>2. PICK r \in Rank : \E c \in con[r] :
            p \in c.ext /\ Core(x) = Core(c) /\ x.rank = r
      BY <3>1 DEF DomainInv, CopyInv, Owned
    <3>3. PICK c \in con[r] : p \in c.ext /\ Core(x) = Core(c) /\ x.rank = r
      BY <3>2
    <3>4. c \notin D[r]
      BY <2>1, <3>3
    <3>5. PICK e \in con'[r] : Core(e) = Core(c) /\ e.ext = c.ext
      BY <3>4
    <3> QED
      BY <3>3, <3>5
  <2> QED
    BY <1>1, <2>1 DEF Owned, Stale
<1>4. StaleApart'
  <2>1. ASSUME NEW p \in Rank, NEW r \in Rank, NEW x \in conext'[p],
               x.id \in Arriving(remove', p), NEW e \in con'[r], SameKey(e, x)
        PROVE  FALSE
    <3>1. PICK c \in con[r] \ D[r] : Core(e) = Core(c)
      OBVIOUS
    <3>2. SameKey(c, x)
      BY <2>1, <3>1, SameCore
    <3>3. ~ Stale(p, x)
      BY <3>2 DEF DomainInv, CopyInv, StaleApart
    <3>4. PICK q \in Rank : \E d \in D[q] : Core(x) = Core(d)
      BY <2>1, <3>3
    <3>5. PICK d \in D[q] : Core(x) = Core(d)
      BY <3>4
    <3>6. SameKey(c, d) /\ d \in con[q]
      BY <3>2, <3>5, SameCore
    <3>7. q = r /\ c = d
      BY <3>6, LiveApart DEF DomainInv
    <3> QED
      BY <3>5, <3>7
  <2> QED
    BY <1>1, <2>1 DEF StaleApart, Stale
<1>5. CopiesApart'
  BY DEF DomainInv, CopyInv, CopiesApart
<1>6. OneContactPerPair'
  <2>1. ASSUME NEW e \in All'
        PROVE  \E c \in All : Core(e) = Core(c)
    <3>1. PICK r \in Rank : e \in con'[r]
      BY DEF All
    <3>2. PICK c \in con[r] : Core(e) = Core(c)
      BY <3>1
    <3> QED
      BY <3>2 DEF All
  <2>2. ASSUME NEW e \in All', NEW f \in All', IsContact(e), IsContact(f),
               Bodies(e) = Bodies(f)
        PROVE  e.id = f.id
    <3>1. PICK c \in All : Core(e) = Core(c)
      BY <2>1
    <3>2. PICK d \in All : Core(f) = Core(d)
      BY <2>1
    <3>3. /\ c.id = e.id /\ Bodies(c) = Bodies(e) /\ IsContact(c)
          /\ d.id = f.id /\ Bodies(d) = Bodies(f) /\ IsContact(d)
      BY <2>2, <3>1, <3>2, SameCore
    <3> QED
      BY <2>2, <3>3 DEF DomainInv, OneContactPerPair
  <2> QED
    BY <2>2 DEF OneContactPerPair
<1> QED
  BY <1>2, <1>3, <1>4, <1>5, <1>6

(* The owners' updates find all the copies they name.                      *)
LEMMA NothingMissed ==
  ASSUME BaseInv, CopyInv
  PROVE  LookedUp = {}
<1>1. ASSUME NEW p \in Rank
      PROVE  Unknown(p, Addressed(p), conext[p]) = {}
  <2>1. ASSUME NEW i \in Addressed(p)
        PROVE  i \in Ids(conext[p])
    <3>1. PICK c \in All : p \in c.ext /\ i = c.id
      BY <2>1 DEF Addressed, Ids
    <3>2. PICK r \in Rank : c \in con[r]
      BY DEF All
    <3>3. PICK x \in conext[p] : Core(x) = Core(c)
      BY <3>1, <3>2, CopyOf
    <3> QED
      BY <3>1, <3>3, SameCore DEF Ids
  <2>2. Addressed(p) \ Ids(conext[p]) = {}
    BY <2>1
  <2> QED
    BY <2>2 DEF Unknown
<1> QED
  BY <1>1 DEF LookedUp

LEMMA UpdateConstraintsDomain ==
  ASSUME BaseInv, DomainInv, UpdateConstraints
  PROVE  DomainInv'
<1>1. PICK ids \in SUBSET Ids({c \in All : IsContact(c)}) :
        LET D == [r \in Rank |-> {c \in con[r] : c.id \in ids}]
        IN  /\ RemoveRegular(D)
            /\ remove' = ExtToRemove(D)
            /\ bodcon' = [r \in Rank |-> [b \in Body |->
                            Without(bodcon[r][b], D[r], b)]]
            /\ missed' = {m \in LookedUp : m[2] \notin ids}
  BY DEF UpdateConstraints
<1> DEFINE D == [r \in Rank |-> {c \in con[r] : c.id \in ids}]
           X == [r \in Rank |-> {}]
<1>2. /\ \A r \in Rank : con'[r] = con[r] \ D[r]
      /\ remove' = ExtToRemove(D)
      /\ \A r \in Rank : \A b \in Body :
           bodcon'[r][b] = Without(bodcon[r][b], D[r], b)
      /\ missed' = {m \in LookedUp : m[2] \notin ids}
  BY <1>1 DEF RemoveRegular
<1>3. /\ phase = "callback" /\ phase' = "balance"
      /\ UNCHANGED <<started, body, conext, cid, sparebid, pending, linked, shape>>
  BY DEF UpdateConstraints
<1>4. ASSUME NEW r \in Rank, NEW c \in D[r]
      PROVE  IsContact(c)
  <2>1. c \in con[r] /\ c.id \in ids
    OBVIOUS
  <2>2. PICK d \in All : IsContact(d) /\ d.id = c.id
    BY <2>1 DEF Ids
  <2>3. PICK q \in Rank : d \in con[q]
    BY DEF All
  <2>4. c = d
    BY <2>1, <2>2, <2>3, LiveApart DEF DomainInv
  <2> QED
    BY <2>2, <2>4
<1>5. \A r \in Rank : D[r] \subseteq con[r] /\ X[r] = {}
  OBVIOUS
<1> HIDE DEF D, X
<1>6. \A p \in Rank :
        /\ \A x \in conext[p] :
             x.id \in Arriving(remove', p)
               <=> \/ Stale(p, x)
                   \/ \E r \in Rank : \E c \in D[r] :
                        p \in c.ext /\ Core(x) = Core(c)
        /\ \A i \in Arriving(remove', p) : \E x \in conext[p] : x.id = i
  BY <1>2, <1>5, ExtStale DEF DomainInv
<1>7. Copied' /\ Owned' /\ StaleApart' /\ CopiesApart' /\ OneContactPerPair'
  <2>1. \A p \in Rank : conext'[p] = conext[p] \ X[p]
    BY <1>3, <1>5
  <2>2. \A p, r \in Rank : \A c \in con[r] \ D[r] : \A x \in X[p] :
          p \in c.ext => Core(x) # Core(c)
    BY <1>5
  <2>3. \A r \in Rank : \A e \in con'[r] :
          \E c \in con[r] \ D[r] : Core(e) = Core(c) /\ e.ext = c.ext
    BY <1>2
  <2>4. \A r \in Rank : \A c \in con[r] \ D[r] :
          \E e \in con'[r] : Core(e) = Core(c) /\ e.ext = c.ext
    BY <1>2
  <2>5. \A p \in Rank : \A x \in conext'[p] :
          x.id \in Arriving(remove', p)
             <=> \/ Stale(p, x)
                 \/ \E r \in Rank : \E c \in D[r] : p \in c.ext /\ Core(x) = Core(c)
    BY <1>3, <1>6
  <2>6. phase # "glue" /\ phase' # "glue"
    BY <1>3
  <2>7. Removal(D, X)
    BY <1>5, <2>1, <2>2, <2>3, <2>4, <2>5 DEF Removal
  <2> QED
    BY <2>6, <2>7, RemoveCopies
<1>8. RemovalsKnown'
  BY <1>3, <1>6 DEF RemovalsKnown, Arriving
<1>9. BrokenOnly'
  <2>1. ASSUME NEW p \in Rank, NEW x \in conext[p], x.id \in Arriving(remove', p),
               ~ IsContact(x)
        PROVE  Stale(p, x)
    <3>1. ASSUME NEW r \in Rank, NEW c \in D[r], Core(x) = Core(c)
          PROVE  FALSE
      BY <1>4, <2>1, <3>1, SameCore
    <3> QED
      BY <1>6, <2>1, <3>1
  <2> QED
    BY <1>3, <2>1 DEF DomainInv, CopyInv, BrokenOnly, Stale, Arriving
<1>10. Listed'
  <2>1. ASSUME NEW p \in Rank, NEW b \in Body
        PROVE  bodcon'[p][b] = Entries(Cores(con'[p]), Cores(conext'[p]), b)
    <3>1. /\ D[p] \cup {} = D[p] /\ conext[p] \ {} = conext'[p]
          /\ D[p] \in SUBSET con[p] /\ {} \in SUBSET conext[p]
      BY <1>3, <1>5
    <3>2. Without(bodcon[p][b], D[p] \cup {}, b)
            = Entries(Cores(con[p] \ D[p]), Cores(conext[p] \ {}), b)
      BY <3>1, ListedWithout
    <3> QED
      BY <1>2, <3>1, <3>2
  <2> QED
    BY <2>1 DEF Listed
<1>11. BodyInv'
  <2>1. StoreInv'
    BY <1>3, SameStore DEF DomainInv, BodyInv
  <2>2. BodiesStored'
    BY <1>2, <1>3 DEF DomainInv, BodyInv, BodiesStored, IsStored
  <2> QED
    BY <1>3, <2>1, <2>2 DEF DomainInv, BodyInv, PendingInv, NoSpareBodies
<1>12. ReachInv'
  <2>1. NewInv'
    BY <1>2, <1>3 DEF DomainInv, ReachInv, NewInv
  <2>2. ParentKnows'
    BY <1>2, <1>3 DEF DomainInv, ReachInv, ParentKnows, IsParent
  <2> QED
    BY <1>3, <2>1, <2>2 DEF ReachInv, ExtInv, NoDummy
<1>13. missed' = {}
  BY <1>2, NothingMissed DEF DomainInv
<1> QED
  BY <1>7, <1>8, <1>9, <1>10, <1>11, <1>12, <1>13 DEF DomainInv, CopyInv

LEMMA RelabelCore ==
  ASSUME NEW c \in Constraint, NEW f
  PROVE  /\ Core([c EXCEPT !.new = f]) = Core(c)
         /\ [c EXCEPT !.new = f].ext = c.ext
         /\ [c EXCEPT !.new = f].new = f
         /\ Core([c EXCEPT !.ext = f]) = Core(c)
         /\ [c EXCEPT !.ext = f].ext = f
         /\ [c EXCEPT !.ext = f].new = c.new
BY DEF Core, Constraint

LEMMA NeededSame ==
  ASSUME body' = body, NEW r, NEW c, NEW e, Bodies(e) = Bodies(c)
  PROVE  Needed(r, e)' = Needed(r, c)
BY DEF Needed

(* Relabelled constraints make the same entries.                           *)
LEMMA SameCores ==
  ASSUME NEW S, NEW T,
         \A e \in T : \E c \in S : Core(e) = Core(c),
         \A c \in S : \E e \in T : Core(e) = Core(c)
  PROVE  Cores(T) = Cores(S)
BY DEF Cores

LEMMA SparsifyDomain ==
  ASSUME BaseInv, DomainInv, Sparsify
  PROVE  DomainInv'
<1>1. PICK ids \in SUBSET Ids({c \in All : c.new}) :
        LET D    == [r \in Rank |-> {c \in con[r] : c.id \in ids}]
            rem  == ExtToRemove(D)
            Gone == [p \in Rank |-> {x \in conext[p] :
                                       x.id \in Arriving(rem, p)}]
        IN  /\ con' = [r \in Rank |->
                         {[c EXCEPT !.new = FALSE] : c \in con[r] \ D[r]}]
            /\ conext' = [p \in Rank |-> conext[p] \ Gone[p]]
            /\ bodcon' = [p \in Rank |-> [b \in Body |->
                            Without(bodcon[p][b], D[p] \cup Gone[p], b)]]
            /\ missed' = UNION {Unknown(p, Arriving(rem, p), conext[p]) :
                                  p \in Rank}
  BY DEF Sparsify
<1> DEFINE D == [r \in Rank |-> {c \in con[r] : c.id \in ids}]
           rem == ExtToRemove(D)
           Gone == [p \in Rank |-> {x \in conext[p] :
                                      x.id \in Arriving(rem, p)}]
<1>2. /\ \A r \in Rank :
           con'[r] = {[c EXCEPT !.new = FALSE] : c \in con[r] \ D[r]}
      /\ \A p \in Rank : conext'[p] = conext[p] \ Gone[p]
      /\ \A p \in Rank, b \in Body :
           bodcon'[p][b] = Without(bodcon[p][b], D[p] \cup Gone[p], b)
      /\ missed' = UNION {Unknown(p, Arriving(rem, p), conext[p]) : p \in Rank}
  BY <1>1
<1>3. /\ phase = "sparsify" /\ phase' = "solve"
      /\ remove' = NothingToRemove
      /\ UNCHANGED <<started, body, cid, sparebid, pending, linked, shape>>
  BY DEF Sparsify
<1>4. /\ \A r \in Rank : D[r] \subseteq con[r]
      /\ \A p \in Rank : \A x : x \in Gone[p]
                                  <=> x \in conext[p] /\ x.id \in Arriving(rem, p)
  OBVIOUS
<1> HIDE DEF D, Gone
<1>5. \A p \in Rank : Arriving(remove, p) = {} /\ Arriving(remove', p) = {}
  BY <1>3 DEF BaseInv, TypeInv, RemoveType, NothingToRemove, Arriving
<1>6. \A p \in Rank :
        /\ \A x \in conext[p] :
             x \in Gone[p] <=> \E r \in Rank : \E c \in D[r] :
                                 p \in c.ext /\ Core(x) = Core(c)
        /\ \A i \in Arriving(rem, p) : \E x \in conext[p] : x.id = i
  BY <1>4, <1>5, ExtStale DEF DomainInv, Stale
<1>7. ASSUME NEW r \in Rank
      PROVE  /\ \A e \in con'[r] : \E c \in con[r] \ D[r] :
                  Core(e) = Core(c) /\ e.ext = c.ext /\ e.new = FALSE
             /\ \A c \in con[r] \ D[r] : \E e \in con'[r] :
                  Core(e) = Core(c) /\ e.ext = c.ext
  <2> DEFINE Old(c) == [c EXCEPT !.new = FALSE]
  <2>1. \A c \in con[r] : /\ Core(Old(c)) = Core(c)
                          /\ Old(c).ext = c.ext /\ Old(c).new = FALSE
    BY RelabelCore DEF BaseInv, TypeInv, ConType
  <2>2. con'[r] = {Old(c) : c \in con[r] \ D[r]}
    BY <1>2
  <2> HIDE DEF Old
  <2> QED
    BY <2>1, <2>2
<1>8. Copied' /\ Owned' /\ StaleApart' /\ CopiesApart' /\ OneContactPerPair'
  <2>1. ASSUME NEW p \in Rank, NEW r \in Rank, NEW c \in con[r] \ D[r],
               NEW x \in Gone[p], Core(x) = Core(c)
        PROVE  FALSE
    <3>1. x \in conext[p]
      BY <1>4
    <3>2. PICK q \in Rank : \E d \in D[q] : Core(x) = Core(d)
      BY <1>6, <3>1
    <3>3. PICK d \in D[q] : Core(x) = Core(d)
      BY <3>2
    <3>4. d \in con[q] /\ c \in con[r] /\ Core(c) = Core(d)
      BY <1>4, <2>1, <3>3
    <3>5. q = r /\ c = d
      BY <3>4, LiveApart DEF DomainInv
    <3> QED
      BY <3>5
  <2>2. \A p \in Rank : \A x \in conext'[p] :
          x.id \in Arriving(remove', p)
             <=> \/ Stale(p, x)
                 \/ \E r \in Rank : \E c \in D[r] : p \in c.ext /\ Core(x) = Core(c)
    BY <1>2, <1>5, <1>6 DEF Stale
  <2>3. Removal(D, Gone)
    <3>1. \A r \in Rank : \A e \in con'[r] :
            \E c \in con[r] \ D[r] : Core(e) = Core(c) /\ e.ext = c.ext
      BY <1>7, ZenonT(30)
    <3>2. \A r \in Rank : \A c \in con[r] \ D[r] :
            \E e \in con'[r] : Core(e) = Core(c) /\ e.ext = c.ext
      BY <1>7
    <3> QED
      BY <1>2, <1>4, <2>1, <2>2, <3>1, <3>2 DEF Removal
  <2> QED
    BY <1>3, <2>3, RemoveCopies
<1>9. RemovalsKnown' /\ BrokenOnly'
  BY <1>5 DEF RemovalsKnown, BrokenOnly, Stale, Arriving
<1>10. Listed'
  <2>1. ASSUME NEW p \in Rank, NEW b \in Body
        PROVE  bodcon'[p][b] = Entries(Cores(con'[p]), Cores(conext'[p]), b)
    <3>1. D[p] \in SUBSET con[p] /\ Gone[p] \in SUBSET conext[p]
      BY <1>4
    <3>2. Without(bodcon[p][b], D[p] \cup Gone[p], b)
            = Entries(Cores(con[p] \ D[p]), Cores(conext[p] \ Gone[p]), b)
      BY <3>1, ListedWithout
    <3>3. Cores(con'[p]) = Cores(con[p] \ D[p])
      <4>1. ASSUME NEW e \in con'[p]
            PROVE  \E c \in con[p] \ D[p] : Core(e) = Core(c)
        <5>1. PICK c \in con[p] \ D[p] :
                Core(e) = Core(c) /\ e.ext = c.ext /\ e.new = FALSE
          BY <1>7
        <5> QED
          BY <5>1
      <4>2. ASSUME NEW c \in con[p] \ D[p]
            PROVE  \E e \in con'[p] : Core(e) = Core(c)
        <5>1. PICK e \in con'[p] : Core(e) = Core(c) /\ e.ext = c.ext
          BY <1>7
        <5> QED
          BY <5>1
      <4> QED
        BY <4>1, <4>2, SameCores
    <3> QED
      BY <1>2, <3>2, <3>3
  <2> QED
    BY <2>1 DEF Listed
<1>11. ASSUME NEW r \in Rank, NEW e \in con'[r]
       PROVE  \E c \in con[r] : Bodies(e) = Bodies(c) /\ e.ext = c.ext /\ e.new = FALSE
  <2>1. PICK c \in con[r] \ D[r] : Core(e) = Core(c) /\ e.ext = c.ext /\ e.new = FALSE
    BY <1>7
  <2> QED
    BY <2>1, SameCore
<1>12. BodyInv'
  <2>1. StoreInv'
    BY <1>3, SameStore DEF DomainInv, BodyInv
  <2>2. BodiesStored'
    BY <1>3, <1>11 DEF DomainInv, BodyInv, BodiesStored, IsStored
  <2> QED
    BY <1>3, <2>1, <2>2 DEF DomainInv, BodyInv, PendingInv, NoSpareBodies
<1>13. ReachInv'
  <2>1. NewInv'
    BY <1>11 DEF NewInv
  <2>2. ExtInv'
    <3>1. ASSUME NEW r \in Rank, NEW e \in con'[r]
          PROVE  e.ext = Needed(r, e)'
      <4>1. PICK c \in con[r] : Bodies(e) = Bodies(c) /\ e.ext = c.ext
        BY <1>11
      <4>2. c.ext = Needed(r, c)
        BY <1>3 DEF DomainInv, ReachInv, ExtInv
      <4> QED
        BY <1>3, <4>1, <4>2, NeededSame
    <3> QED
      BY <3>1 DEF ExtInv
  <2>3. NoDummy'
    BY <1>3, <1>11 DEF DomainInv, ReachInv, NoDummy, IsHeld
  <2> QED
    BY <1>3, <2>1, <2>2, <2>3 DEF ReachInv, ParentKnows
<1>14. missed' = {}
  <2>1. \A p \in Rank : Unknown(p, Arriving(rem, p), conext[p]) = {}
    BY <1>6 DEF Unknown, Ids
  <2> QED
    BY <1>2, <2>1
<1> QED
  BY <1>8, <1>9, <1>10, <1>12, <1>13, <1>14 DEF DomainInv, CopyInv

(* The ranks that need copies are the others that hold one of the bodies.  *)
LEMMA NeededHolders ==
  ASSUME StoreInv, NEW r \in Rank, NEW c, Bodies(c) \subseteq Body,
         \A b \in Bodies(c) : IsHeld(r, b)
  PROVE  /\ \A p \in Rank : p \in Needed(r, c)
              <=> p # r /\ \E b \in Bodies(c) : IsHeld(p, b)
         /\ Needed(r, c) \subseteq Rank
<1> DEFINE Seen(b) == body[r][b].children
                        \cup {q \in {body[r][b].rank} : body[r][b].flag = "CHILD"}
<1>1. ASSUME NEW b \in Bodies(c)
      PROVE  Seen(b) = Holders(b) \ {r}
  <2>1. IsHeld(r, b)
    OBVIOUS
  <2>2. ~ StoredNowhere(b)
    BY <2>1 DEF StoredNowhere, IsHeld, IsStored
  <2>3. PICK h \in Rank : HeldFrom(h, b)
    BY <2>2 DEF StoreInv
  <2>4. r \in Holders(b) /\ h \in Holders(b)
    BY <2>1, <2>3 DEF Holders, HeldFrom, IsHeld, IsParent
  <2>5. body[r][b].rank = h /\ body[r][b].children = Holders(b) \ {r, h}
    BY <2>3, <2>4 DEF HeldFrom
  <2>6. body[r][b].flag = "CHILD" <=> r # h
    BY <2>1, <2>3 DEF HeldFrom, IsHeld, IsParent
  <2> QED
    BY <2>4, <2>5, <2>6
<1>2. \A p : p \in Needed(r, c) <=> \E b \in Bodies(c) : p \in Seen(b)
  BY DEF Needed
<1> HIDE DEF Seen
<1>3. ASSUME NEW p, p \in Needed(r, c)
      PROVE  p \in Rank
  BY <1>1, <1>2, <1>3 DEF Holders
<1> QED
  BY <1>1, <1>2, <1>3 DEF Holders

LEMMA UpdateEndDomain ==
  ASSUME SafeCalls, BaseInv, DomainInv, UpdateEnd
  PROVE  DomainInv'
<1>1. PICK fallen \in SUBSET {b \in Body : \E r \in Rank : IsParent(r, b)},
           ids \in SUBSET Ids({c \in All : MayBreak(c)}) :
        LET spare   == fallen \cup UNION {sparebid[r] : r \in Rank}
            X       == [r \in Rank |-> {b \in spare : IsStored(r, b)}]
            G       == [r \in Rank |-> RegularOn(r, X[r])]
            D       == [r \in Rank |-> {c \in con[r] \ G[r] : c.id \in ids}]
        IN  /\ RemoveRegular([r \in Rank |-> G[r] \cup D[r]])
            /\ remove' = ExtToRemove(D)
            /\ conext' = [r \in Rank |-> conext[r] \ ExternalOn(r, X[r])]
            /\ bodcon' = [r \in Rank |-> [b \in Body |->
                            Without(Cleared(r, X[r], b), D[r], b)]]
            /\ body' = [r \in Rank |-> [b \in Body |->
                          IF b \in spare THEN Removed ELSE body[r][b]]]
  BY DEF UpdateEnd
<1> DEFINE spare == fallen \cup UNION {sparebid[r] : r \in Rank}
           X     == [r \in Rank |-> {b \in spare : IsStored(r, b)}]
           G     == [r \in Rank |-> RegularOn(r, X[r])]
           D     == [r \in Rank |-> {c \in con[r] \ G[r] : c.id \in ids}]
           GD    == [r \in Rank |-> G[r] \cup D[r]]
           E     == [r \in Rank |-> ExternalOn(r, X[r])]
<1>2. /\ \A r \in Rank : con'[r] = con[r] \ (G[r] \cup D[r])
      /\ remove' = ExtToRemove(D)
      /\ \A r \in Rank : conext'[r] = conext[r] \ E[r]
      /\ \A r \in Rank, b \in Body :
           /\ bodcon'[r][b] = Without(Cleared(r, X[r], b), D[r], b)
           /\ body'[r][b] = IF b \in spare THEN Removed ELSE body[r][b]
  BY <1>1 DEF RemoveRegular
<1>3. /\ phase = "solve" /\ phase' = "callback"
      /\ missed' = LookedUp
      /\ sparebid' = [r \in Rank |-> {}]
      /\ started' = TRUE
      /\ UNCHANGED <<cid, pending, linked, shape>>
  BY DEF UpdateEnd
<1>4. /\ spare = fallen
      /\ \A r \in Rank : X[r] = fallen
      /\ fallen \in SUBSET Body
  <2>1. \A r \in Rank : sparebid[r] = {}
    BY DEF DomainInv, BodyInv, NoSpareBodies
  <2>2. ASSUME NEW b \in fallen, NEW r \in Rank
        PROVE  IsStored(r, b)
    <3>1. PICK p \in Rank : IsParent(p, b)
      OBVIOUS
    <3>2. HeldFrom(p, b)
      BY <3>1, ParentHolds DEF DomainInv, BodyInv
    <3> QED
      BY <3>2 DEF HeldFrom
  <2> QED
    BY <2>1, <2>2
<1>5. \A r \in Rank :
        /\ G[r] = {c \in con[r] : Bodies(c) \cap fallen # {}}
        /\ E[r] = {x \in conext[r] : Bodies(x) \cap fallen # {}}
  <2>1. ASSUME NEW r \in Rank
        PROVE  /\ RegularOn(r, fallen) = {c \in con[r] : Bodies(c) \cap fallen # {}}
               /\ ExternalOn(r, fallen) = {x \in conext[r] : Bodies(x) \cap fallen # {}}
    BY <1>4, OnBodiesMeans DEF DomainInv
  <2> HIDE DEF X
  <2> QED
    BY <1>4, <2>1
<1>6. /\ \A r \in Rank : GD[r] = G[r] \cup D[r]
      /\ \A r \in Rank : D[r] \subseteq con[r]
      /\ \A r \in Rank : \A c \in D[r] : c \notin G[r] /\ c.id \in ids
      /\ \A r \in Rank, b \in Body :
           Cleared(r, X[r], b)
             = IF b \in X[r] THEN {} ELSE Without(bodcon[r][b], G[r] \cup E[r], b)
  BY DEF Cleared
<1> HIDE DEF spare, X, G, D, GD, E
<1>7. \A p \in Rank :
        /\ \A x \in conext[p] :
             x.id \in Arriving(remove', p)
               <=> \E r \in Rank : \E c \in D[r] : p \in c.ext /\ Core(x) = Core(c)
        /\ \A i \in Arriving(remove', p) : \E x \in conext[p] : x.id = i
  <2>1. \A p \in Rank : Arriving(remove, p) = {}
    BY <1>3 DEF BaseInv, TypeInv, RemoveType, NothingToRemove, Arriving
  <2> QED
    BY <1>2, <1>6, <2>1, ExtStale DEF DomainInv, Stale
<1>8. ASSUME NEW p \in Rank, NEW x \in conext[p], NEW r \in Rank, NEW c \in con[r],
             Core(x) = Core(c)
      PROVE  x \in E[p] <=> c \in G[r]
  <2>1. Bodies(x) = Bodies(c)
    BY <1>8, SameCore
  <2> QED
    BY <1>5, <2>1
<1>9. Copied' /\ Owned' /\ StaleApart' /\ CopiesApart' /\ OneContactPerPair'
  <2>1. \A r \in Rank : GD[r] \subseteq con[r]
    BY <1>5, <1>6
  <2>2. \A p \in Rank : conext'[p] = conext[p] \ E[p]
    BY <1>2
  <2>3. \A r \in Rank : con'[r] = con[r] \ GD[r]
    BY <1>2, <1>6
  <2>4. ASSUME NEW p \in Rank, NEW r \in Rank, NEW c \in con[r] \ GD[r],
               NEW x \in E[p], Core(x) = Core(c)
        PROVE  FALSE
    BY <1>5, <1>6, <1>8, <2>4
  <2>5. ASSUME NEW p \in Rank, NEW x \in conext'[p]
        PROVE  x.id \in Arriving(remove', p)
                 <=> \/ Stale(p, x)
                     \/ \E r \in Rank : \E c \in GD[r] :
                          p \in c.ext /\ Core(x) = Core(c)
    <3>1. x \in conext[p] /\ x \notin E[p]
      BY <2>2
    <3>2. ~ Stale(p, x)
      BY <1>3 DEF Stale, BaseInv, TypeInv, RemoveType, NothingToRemove, Arriving
    <3>3. \A r \in Rank : \A c \in GD[r] : Core(x) = Core(c) => c \in D[r]
      BY <1>6, <1>8, <2>1, <3>1
    <3> QED
      BY <1>6, <1>7, <3>1, <3>2, <3>3
  <2>6. Removal(GD, E)
    BY <2>1, <2>2, <2>3, <2>4, <2>5 DEF Removal
  <2> QED
    BY <1>3, <2>6, RemoveCopies
<1>10. RemovalsKnown'
  <2>1. ASSUME NEW p \in Rank, NEW i \in Arriving(remove', p)
        PROVE  \E x \in conext'[p] : x.id = i
    <3>1. PICK x \in conext[p] : x.id = i
      BY <1>7
    <3>2. PICK r \in Rank : \E c \in D[r] : Core(x) = Core(c)
      BY <1>7, <3>1
    <3>3. x \notin E[p]
      BY <1>6, <1>8, <3>2
    <3> QED
      BY <1>2, <3>1, <3>3
  <2> QED
    BY <2>1 DEF RemovalsKnown, Arriving
<1>11. BrokenOnly'
  <2>1. ASSUME NEW r \in Rank, NEW c \in D[r]
        PROVE  LateCalls = {}
    <3>1. PICK d \in All : MayBreak(d)
      BY <1>6 DEF Ids
    <3> QED
      BY <3>1 DEF MayBreak, SafeCalls
  <2>2. \A p \in Rank : \A x \in conext'[p] :
          x.id \in Arriving(remove', p) => LateCalls = {}
    BY <1>2, <1>7, <2>1
  <2> QED
    BY <1>3, <2>2 DEF BrokenOnly, Stale, Arriving
<1>12. Listed'
  <2>1. ASSUME NEW p \in Rank, NEW b \in Body
        PROVE  bodcon'[p][b] = Entries(Cores(con'[p]), Cores(conext'[p]), b)
    <3> DEFINE rest == Cleared(p, X[p], b)
    <3>0. /\ bodcon'[p][b] = Without(rest, D[p], b)
          /\ rest = IF b \in X[p] THEN {} ELSE Without(bodcon[p][b], G[p] \cup E[p], b)
          /\ X[p] = fallen
      BY <1>2, <1>4, <1>6
    <3> HIDE DEF rest
    <3>1. CASE b \in fallen
      <4>1. bodcon'[p][b] = {}
        BY <3>0, <3>1 DEF Without
      <4>2. \A c \in con'[p] \cup conext'[p] : b \notin Bodies(c)
        BY <1>2, <1>5, <3>1
      <4>3. \A k \in Cores(con'[p]) \cup Cores(conext'[p]) : b \notin Bodies(k)
        <5>1. \A c : Bodies(Core(c)) = Bodies(c)
          BY CoreFacts
        <5> QED
          BY <4>2, <5>1 DEF Cores
      <4> QED
        BY <4>1, <4>3 DEF Entries
    <3>2. CASE b \notin fallen
      <4>1. bodcon'[p][b] = Without(Without(bodcon[p][b], G[p] \cup E[p], b), D[p], b)
        BY <3>0, <3>2
      <4>2. /\ (G[p] \cup E[p]) \cup D[p] = (G[p] \cup D[p]) \cup E[p]
            /\ G[p] \cup D[p] \in SUBSET con[p] /\ E[p] \in SUBSET conext[p]
        BY <1>5, <1>6
      <4>3. Without(bodcon[p][b], (G[p] \cup D[p]) \cup E[p], b)
              = Entries(Cores(con[p] \ (G[p] \cup D[p])), Cores(conext[p] \ E[p]), b)
        BY <4>2, ListedWithout
      <4>4. bodcon'[p][b] = Without(bodcon[p][b], (G[p] \cup E[p]) \cup D[p], b)
        BY <4>1, WithoutTwice
      <4> QED
        BY <1>2, <4>2, <4>3, <4>4
    <3> QED
      BY <3>1, <3>2
  <2> QED
    BY <2>1 DEF Listed
<1>13. \A r \in Rank : \A c \in con'[r] :
         c \in con[r] /\ Bodies(c) \cap fallen = {}
  BY <1>2, <1>5
<1>14. BodyInv'
  <2>1. StoreInv'
    <3>1. ASSUME NEW b \in fallen
          PROVE  StoredNowhere(b)'
      BY <1>2, <1>4 DEF StoredNowhere, IsStored, Removed
    <3>2. ASSUME NEW b \in Body, b \notin fallen
          PROVE  StoredNowhere(b)' \/ \E p \in Rank : HeldFrom(p, b)'
      <4>1. \A r \in Rank : body'[r][b] = body[r][b]
        BY <1>2, <1>4, <3>2
      <4>2. StoredNowhere(b) \/ \E p \in Rank : HeldFrom(p, b)
        BY DEF DomainInv, BodyInv, StoreInv
      <4>3. Holders(b)' = Holders(b)
        BY <4>1 DEF Holders, IsHeld
      <4> QED
        BY <4>1, <4>2, <4>3 DEF StoredNowhere, HeldFrom, IsStored, IsParent, Holders
    <3> QED
      BY <3>1, <3>2 DEF StoreInv
  <2>2. BodiesStored'
    <3>1. pending = {}
      BY <1>3 DEF DomainInv, BodyInv, PendingInv
    <3>2. ASSUME NEW r \in Rank, NEW c \in con'[r], NEW b \in Bodies(c), NEW q \in Rank
          PROVE  IsStored(q, b)'
      <4>1. b \in Body /\ b \notin fallen
        BY <1>13, BodiesType DEF BaseInv, TypeInv, ConType
      <4> QED
        BY <1>2, <1>4, <1>13, <4>1 DEF DomainInv, BodyInv, BodiesStored, IsStored
    <3> QED
      BY <1>3, <3>1, <3>2 DEF BodiesStored
  <2> QED
    BY <1>3, <2>1, <2>2 DEF DomainInv, BodyInv, PendingInv, NoSpareBodies
<1>15. ReachInv'
  <2>1. NewInv'
    BY <1>3, <1>13 DEF DomainInv, ReachInv, NewInv
  <2>2. ASSUME NEW r \in Rank, NEW p \in Rank, NEW c \in con'[r], NEW b \in Bodies(c),
               IsParent(p, b)'
        PROVE  p \in c.ext \cup {r}
    <3>1. c \in con[r] /\ Bodies(c) \subseteq Body /\ b \notin fallen
      BY <1>13, BodiesType DEF BaseInv, TypeInv, ConType
    <3>2. IsParent(p, b)
      BY <1>2, <1>4, <2>2, <3>1 DEF IsParent
    <3>3. c.ext = Needed(r, c) /\ \A a \in Bodies(c) : IsHeld(r, a)
      BY <1>3, <3>1 DEF DomainInv, ReachInv, ExtInv, NoDummy
    <3>4. IsHeld(p, b)
      BY <3>2 DEF IsHeld, IsParent
    <3> QED
      BY <3>1, <3>3, <3>4, NeededHolders DEF DomainInv, BodyInv
  <2> QED
    BY <1>3, <2>1, <2>2 DEF ReachInv, ExtInv, NoDummy, ParentKnows
<1>16. missed' = {}
  BY <1>3, NothingMissed DEF DomainInv
<1> QED
  BY <1>9, <1>10, <1>11, <1>12, <1>14, <1>15, <1>16 DEF DomainInv, CopyInv

-----------------------------------------------------------------------------
(* Copies are sent to the ranks that need them                             *)

(* What is at p while no removal is on the way belongs to a constraint.    *)
LEMMA CopiesLive ==
  ASSUME BaseInv, DomainInv, NEW p \in Rank, Arriving(remove, p) = {}
  PROVE  /\ \A x \in conext[p] : \E q \in Rank : \E c \in con[q] :
              /\ p \in c.ext /\ p # q
              /\ Core(x) = Core(c)
              /\ phase # "glue" => x = Copy(c, q)
<1>1. ASSUME NEW x \in conext[p]
      PROVE  \E q \in Rank : \E c \in con[q] :
               /\ p \in c.ext /\ p # q
               /\ Core(x) = Core(c)
               /\ phase # "glue" => x = Copy(c, q)
  <2>1. ~ Stale(p, x)
    BY DEF Stale
  <2>2. PICK q \in Rank : \E c \in con[q] :
          p \in c.ext /\ Core(x) = Core(c) /\ (phase # "glue" => x.rank = q)
    BY <2>1 DEF DomainInv, CopyInv, Owned
  <2>3. PICK c \in con[q] :
          p \in c.ext /\ Core(x) = Core(c) /\ (phase # "glue" => x.rank = q)
    BY <2>2
  <2>4. p # q
    BY <2>3 DEF BaseInv, TypeInv, NotOwn
  <2>5. x \in CopyType
    BY DEF BaseInv, TypeInv, ConextType
  <2>6. phase # "glue" => x = Copy(c, q)
    BY <2>3, <2>5, CopyIsCore
  <2> QED
    BY <2>3, <2>4, <2>6
<1> QED
  BY <1>1

(* Constraints of other ranks that have no copy at p yet join the sets.    *)
LEMMA GluedApart ==
  ASSUME BaseInv, DomainInv, NEW p \in Rank, Arriving(remove, p) = {}, NEW S,
         \A x \in S : \E q \in Rank : \E c \in con[q] :
           q # p /\ p \notin c.ext /\ Core(x) = Core(c),
         NEW Y, Y = Cores(conext[p]) \cup Cores(S)
  PROVE  /\ \A x \in S : x.id \notin Ids(conext[p])
         /\ \A b \in Body :
              AddCopies(bodcon[p][b], S, b) = Entries(Cores(con[p]), Y, b)
         /\ \A j, k \in Cores(con[p]) \cup Y : SameKey(j, k) => j = k
<1>1. ASSUME NEW x \in S, NEW y \in conext[p], SameKey(y, x) \/ y.id = x.id
      PROVE  FALSE
  <2>1. PICK q \in Rank : \E c \in con[q] : p \notin c.ext /\ Core(x) = Core(c)
    OBVIOUS
  <2>2. PICK c \in con[q] : p \notin c.ext /\ Core(x) = Core(c)
    BY <2>1
  <2>3. PICK s \in Rank : \E d \in con[s] : p \in d.ext /\ Core(y) = Core(d)
    BY CopiesLive
  <2>4. PICK d \in con[s] : p \in d.ext /\ Core(y) = Core(d)
    BY <2>3
  <2>5. SameKey(d, c) \/ d.id = c.id
    BY <1>1, <2>2, <2>4, SameCore
  <2>6. d = c
    BY <2>5, LiveApart DEF DomainInv
  <2> QED
    BY <2>2, <2>4, <2>6
<1>2. ASSUME NEW x \in S, NEW d \in con[p], SameKey(d, x)
      PROVE  FALSE
  <2>1. PICK q \in Rank : \E c \in con[q] : q # p /\ Core(x) = Core(c)
    OBVIOUS
  <2>2. PICK c \in con[q] : Core(x) = Core(c)
    BY <2>1
  <2>3. SameKey(d, c)
    BY <1>2, <2>2, SameCore
  <2> QED
    BY <2>1, <2>3, LiveApart DEF DomainInv
<1> DEFINE K == Cores(con[p])
           X == Cores(conext[p])
<1>3. ASSUME NEW x \in S, NEW k \in K \cup X
      PROVE  ~ SameKey(k, x)
  <2>1. PICK d \in con[p] \cup conext[p] : k = Core(d)
    BY DEF Cores
  <2>2. ~ SameKey(d, x)
    BY <1>1, <1>2
  <2> QED
    BY <2>1, <2>2, CoreFacts
<1>4. \A b \in Body : bodcon[p][b] = Entries(K, X, b)
  BY DEF DomainInv, Listed
<1>5. \A j, k \in K \cup X : SameKey(j, k) => j = k
  BY KeysApart DEF DomainInv
<1> HIDE DEF K, X
<1>6. \A b \in Body : AddCopies(Entries(K, X, b), S, b) = Entries(K, Y, b)
  BY <1>3, AddEntries DEF X
<1>7. ASSUME NEW x \in S, NEW y \in S, SameKey(x, y)
      PROVE  Core(x) = Core(y)
  <2>1. PICK q \in Rank : \E c \in con[q] : Core(x) = Core(c)
    OBVIOUS
  <2>2. PICK c \in con[q] : Core(x) = Core(c)
    BY <2>1
  <2>3. PICK s \in Rank : \E d \in con[s] : Core(y) = Core(d)
    OBVIOUS
  <2>4. PICK d \in con[s] : Core(y) = Core(d)
    BY <2>3
  <2>5. SameKey(c, d)
    BY <1>7, <2>2, <2>4, SameCore
  <2>6. c = d
    BY <2>5, LiveApart DEF DomainInv
  <2> QED
    BY <2>2, <2>4, <2>6
<1>8. ASSUME NEW j \in K \cup Y, NEW k \in K \cup Y, SameKey(j, k)
      PROVE  j = k
  <2>1. /\ j \in K \cup X \/ \E x \in S : j = Core(x)
        /\ k \in K \cup X \/ \E x \in S : k = Core(x)
    BY DEF Cores, X
  <2>2. CASE j \in K \cup X /\ k \in K \cup X
    BY <1>5, <1>8, <2>2
  <2>3. CASE \E x \in S : j = Core(x)
    <3>1. PICK x \in S : j = Core(x)
      BY <2>3
    <3>2. SameKey(k, x)
      BY <1>8, <3>1, CoreFacts
    <3>3. PICK y \in S : k = Core(y)
      BY <1>3, <2>1, <3>2
    <3>4. SameKey(x, y)
      BY <3>2, <3>3, CoreFacts
    <3> QED
      BY <1>7, <3>1, <3>3, <3>4
  <2>4. CASE j \in K \cup X /\ \E y \in S : k = Core(y)
    <3>1. PICK y \in S : k = Core(y)
      BY <2>4
    <3>2. SameKey(j, y)
      BY <1>8, <3>1, CoreFacts
    <3> QED
      BY <1>3, <2>4, <3>2
  <2> QED
    BY <2>1, <2>2, <2>3, <2>4
<1> QED
  BY <1>1, <1>4, <1>6, <1>8 DEF K, Ids

(* The copies that p needs.                                                *)
Wanted(p) == UNION {{Copy(c, q) : c \in {d \in con[q] : p \in Needed(q, d)}} :
                      q \in Rank}

LEMMA WantedMeans ==
  ASSUME NEW p, NEW x
  PROVE  x \in Wanted(p) <=>
           \E q \in Rank : \E c \in con[q] : p \in Needed(q, c) /\ x = Copy(c, q)
BY DEF Wanted

Gluing ==
  /\ \A r \in Rank : \A e \in con'[r] : \E c \in con[r] :
       Core(e) = Core(c) /\ e.ext = Needed(r, c) /\ e.new = c.new
  /\ \A r \in Rank : \A c \in con[r] : \E e \in con'[r] :
       Core(e) = Core(c) /\ e.ext = Needed(r, c) /\ e.new = c.new
  /\ \A p \in Rank : conext'[p] = Wanted(p)

LEMMA CopiesPlaced ==
  ASSUME BaseInv, DomainInv, Gluing,
         \/ phase = "glue" /\ phase' = "detect"
         \/ phase = "detect" /\ phase' = "sparsify",
         UNCHANGED <<started, body, remove, sparebid, pending, linked>>
  PROVE  /\ BodyInv' /\ ReachInv' /\ CopyInv' /\ OneContactPerPair'
         /\ \A p \in Rank : Cores(con'[p]) = Cores(con[p])
<1>1. \A p \in Rank : Arriving(remove, p)' = {}
  BY DEF BaseInv, TypeInv, RemoveType, NothingToRemove, Arriving
<1>2. ASSUME NEW r \in Rank, NEW e \in con'[r]
      PROVE  \E c \in con[r] : /\ Core(e) = Core(c) /\ Bodies(e) = Bodies(c)
                               /\ e.slave = c.slave /\ (IsContact(e) <=> IsContact(c))
                               /\ e.ext = Needed(r, c) /\ e.new = c.new
  <2>1. PICK c \in con[r] : Core(e) = Core(c) /\ e.ext = Needed(r, c) /\ e.new = c.new
    BY DEF Gluing
  <2> QED
    BY <2>1, SameCore
<1>3. Copied'
  <2>1. ASSUME NEW r \in Rank, NEW p \in Rank, NEW e \in con'[r], p \in e.ext
        PROVE  \E x \in conext'[p] : Core(x) = Core(e) /\ x.rank = r
    <3>1. PICK c \in con[r] : Core(e) = Core(c) /\ e.ext = Needed(r, c)
      BY DEF Gluing
    <3>2. Copy(c, r) \in conext'[p]
      BY <2>1, <3>1, WantedMeans DEF Gluing
    <3> QED
      BY <3>1, <3>2, CopyCore
  <2> QED
    BY <2>1 DEF Copied
<1>4. Owned'
  <2>1. ASSUME NEW p \in Rank, NEW x \in conext'[p]
        PROVE  \E r \in Rank : \E e \in con'[r] :
                 p \in e.ext /\ Core(x) = Core(e) /\ x.rank = r
    <3>1. PICK r \in Rank : \E c \in con[r] : p \in Needed(r, c) /\ x = Copy(c, r)
      BY WantedMeans DEF Gluing
    <3>2. PICK c \in con[r] : p \in Needed(r, c) /\ x = Copy(c, r)
      BY <3>1
    <3>3. PICK e \in con'[r] : Core(e) = Core(c) /\ e.ext = Needed(r, c)
      BY DEF Gluing
    <3> QED
      BY <3>2, <3>3, CopyCore
  <2> QED
    BY <2>1 DEF Owned
<1>5. CopiesApart'
  <2>1. ASSUME NEW p \in Rank, NEW x \in conext'[p], NEW y \in conext'[p],
               SameKey(x, y) \/ x.id = y.id
        PROVE  x = y
    <3>1. PICK q \in Rank : \E c \in con[q] : x = Copy(c, q)
      BY WantedMeans DEF Gluing
    <3>2. PICK c \in con[q] : x = Copy(c, q)
      BY <3>1
    <3>3. PICK s \in Rank : \E d \in con[s] : y = Copy(d, s)
      BY WantedMeans DEF Gluing
    <3>4. PICK d \in con[s] : y = Copy(d, s)
      BY <3>3
    <3>5. Core(x) = Core(c) /\ Core(y) = Core(d)
      BY <3>2, <3>4, CopyCore
    <3>6. SameKey(c, d) \/ c.id = d.id
      BY <2>1, <3>5, SameCore
    <3>7. q = s /\ c = d
      BY <3>6, LiveApart DEF DomainInv
    <3> QED
      BY <3>2, <3>4, <3>7
  <2> QED
    BY <2>1 DEF CopiesApart
<1>6. RemovalsKnown' /\ StaleApart' /\ BrokenOnly'
  BY <1>1 DEF RemovalsKnown, StaleApart, BrokenOnly, Stale
<1>7. OneContactPerPair'
  <2>1. ASSUME NEW e \in All'
        PROVE  \E c \in All : Core(e) = Core(c)
    <3>1. PICK r \in Rank : e \in con'[r]
      BY DEF All
    <3>2. PICK c \in con[r] : Core(e) = Core(c)
      BY <3>1 DEF Gluing
    <3> QED
      BY <3>2 DEF All
  <2>2. ASSUME NEW e \in All', NEW f \in All', IsContact(e), IsContact(f),
               Bodies(e) = Bodies(f)
        PROVE  e.id = f.id
    <3>1. PICK c \in All : Core(e) = Core(c)
      BY <2>1
    <3>2. PICK d \in All : Core(f) = Core(d)
      BY <2>1
    <3>3. /\ c.id = e.id /\ Bodies(c) = Bodies(e) /\ IsContact(c)
          /\ d.id = f.id /\ Bodies(d) = Bodies(f) /\ IsContact(d)
      BY <2>2, <3>1, <3>2, SameCore
    <3> QED
      BY <2>2, <3>3 DEF DomainInv, OneContactPerPair
  <2> QED
    BY <2>2 DEF OneContactPerPair
<1>8. BodyInv'
  <2>1. StoreInv'
    BY SameStore DEF DomainInv, BodyInv
  <2>2. BodiesStored'
    BY <1>2 DEF DomainInv, BodyInv, BodiesStored, IsStored
  <2> QED
    BY <2>1, <2>2 DEF DomainInv, BodyInv, PendingInv, NoSpareBodies
<1>9. ReachInv'
  <2>1. NewInv'
    BY <1>2 DEF DomainInv, ReachInv, NewInv
  <2>2. ExtInv'
    <3>1. ASSUME NEW r \in Rank, NEW e \in con'[r]
          PROVE  e.ext = Needed(r, e)'
      BY <1>2, NeededSame
    <3> QED
      BY <3>1 DEF ExtInv
  <2>3. NoDummy'
    BY <1>2 DEF DomainInv, ReachInv, NoDummy, IsHeld
  <2> QED
    BY <2>1, <2>2, <2>3 DEF ReachInv, ParentKnows
<1>10. ASSUME NEW p \in Rank
       PROVE  Cores(con'[p]) = Cores(con[p])
  <2>1. /\ \A e \in con'[p] : \E c \in con[p] : Core(e) = Core(c)
        /\ \A c \in con[p] : \E e \in con'[p] : Core(e) = Core(c)
    BY DEF Gluing
  <2> QED
    BY <2>1, SameCores
<1> QED
  BY <1>3, <1>4, <1>5, <1>6, <1>7, <1>8, <1>9, <1>10 DEF CopyInv

(* The owner is not among the ranks that need a copy.                      *)
LEMMA OthersNeed ==
  ASSUME BaseInv, DomainInv, phase \in {"glue", "detect"}, NEW q \in Rank,
         NEW c \in con[q]
  PROVE  q \notin Needed(q, c) /\ Needed(q, c) \subseteq Rank
<1>1. Bodies(c) \subseteq Body /\ \A b \in Bodies(c) : IsHeld(q, b)
  BY BodiesType DEF BaseInv, TypeInv, ConType, DomainInv, ReachInv, NoDummy
<1> QED
  BY <1>1, NeededHolders DEF DomainInv, BodyInv

LEMMA GluingBeginDomain ==
  ASSUME BaseInv, DomainInv, GluingBegin
  PROVE  DomainInv'
<1> DEFINE Glued == [p \in Rank |-> UNION {{Copy(c, q) :
                       c \in {d \in con[q] : d.new /\ p \in Needed(q, d)}} :
                         q \in Rank}]
           New(r, c) == [c EXCEPT !.ext = IF c.new THEN @ \cup Needed(r, c) ELSE @]
<1>1. /\ \A r \in Rank : con'[r] = {New(r, c) : c \in con[r]}
      /\ \A p \in Rank : conext'[p] = conext[p] \cup
           {x \in Glued[p] : x.id \notin Ids(conext[p])}
      /\ \A p \in Rank, b \in Body :
           bodcon'[p][b] = AddCopies(bodcon[p][b], Glued[p], b)
  BY DEF GluingBegin, AddCopies
<1>2. /\ phase = "detect" /\ phase' = "sparsify"
      /\ UNCHANGED <<started, body, remove, cid, sparecid, sparebid, pending,
                     linked, missed>>
  BY DEF GluingBegin
<1>3. \A p \in Rank : \A x :
        x \in Glued[p] <=> \E q \in Rank : \E c \in con[q] :
                             c.new /\ p \in Needed(q, c) /\ x = Copy(c, q)
  OBVIOUS
<1>4. ASSUME NEW r \in Rank, NEW c \in con[r]
      PROVE  /\ Core(New(r, c)) = Core(c)
             /\ New(r, c).ext = Needed(r, c)
             /\ New(r, c).new = c.new
  <2> DEFINE f == IF c.new THEN c.ext \cup Needed(r, c) ELSE c.ext
  <2>1. New(r, c) = [c EXCEPT !.ext = f]
    BY DEF BaseInv, TypeInv, ConType, Constraint
  <2>2. f = Needed(r, c)
    BY <1>2 DEF DomainInv, ReachInv, NewInv, ExtInv
  <2>3. c \in Constraint
    BY DEF BaseInv, TypeInv, ConType
  <2> HIDE DEF f, New
  <2>4. \A g : /\ Core([c EXCEPT !.ext = g]) = Core(c)
               /\ [c EXCEPT !.ext = g].ext = g
               /\ [c EXCEPT !.ext = g].new = c.new
    BY <2>3, RelabelCore
  <2> QED
    BY <2>1, <2>2, <2>4
<1> HIDE DEF Glued, New
<1>5. \A p \in Rank : Arriving(remove, p) = {}
  BY <1>2 DEF BaseInv, TypeInv, RemoveType, NothingToRemove, Arriving
<1>6. ASSUME NEW p \in Rank, NEW x \in Glued[p]
      PROVE  \E q \in Rank : \E c \in con[q] :
               q # p /\ p \notin c.ext /\ Core(x) = Core(c)
  <2>1. PICK q \in Rank : \E c \in con[q] :
          c.new /\ p \in Needed(q, c) /\ x = Copy(c, q)
    BY <1>3
  <2>2. PICK c \in con[q] : c.new /\ p \in Needed(q, c) /\ x = Copy(c, q)
    BY <2>1
  <2>3. c.ext = {}
    BY <1>2, <2>2 DEF DomainInv, ReachInv, NewInv
  <2>4. q # p
    BY <1>2, <2>2, OthersNeed
  <2> QED
    BY <2>2, <2>3, <2>4, CopyCore
<1>7. ASSUME NEW p \in Rank
      PROVE  /\ \A x \in Glued[p] : x.id \notin Ids(conext[p])
             /\ \A b \in Body : \A Y :
                  Y = Cores(conext[p]) \cup Cores(Glued[p]) =>
                    AddCopies(bodcon[p][b], Glued[p], b) = Entries(Cores(con[p]), Y, b)
  <2> DEFINE S == Glued[p]
  <2>1. \A x \in S : \E q \in Rank : \E c \in con[q] :
          q # p /\ p \notin c.ext /\ Core(x) = Core(c)
    BY <1>6
  <2> HIDE DEF S
  <2>2. \A Y : Y = Cores(conext[p]) \cup Cores(S) =>
          /\ \A x \in S : x.id \notin Ids(conext[p])
          /\ \A b \in Body : AddCopies(bodcon[p][b], S, b) = Entries(Cores(con[p]), Y, b)
    BY <1>5, <2>1, GluedApart
  <2> QED
    BY <2>2 DEF S
<1>8. ASSUME NEW p \in Rank
      PROVE  conext'[p] = conext[p] \cup Glued[p]
  BY <1>1, <1>7
<1>9. ASSUME NEW p \in Rank
      PROVE  conext'[p] = Wanted(p)
  <2>1. ASSUME NEW x \in conext[p]
        PROVE  x \in Wanted(p)
    <3>1. PICK q \in Rank : \E c \in con[q] : p \in c.ext /\ x = Copy(c, q)
      BY <1>2, <1>5, CopiesLive
    <3>2. PICK c \in con[q] : p \in c.ext /\ x = Copy(c, q)
      BY <3>1
    <3>3. p \in Needed(q, c)
      BY <1>2, <3>2 DEF DomainInv, ReachInv, NewInv, ExtInv
    <3> QED
      BY <3>2, <3>3, WantedMeans
  <2>2. ASSUME NEW x \in Glued[p]
        PROVE  x \in Wanted(p)
    BY <1>3, WantedMeans
  <2>3. ASSUME NEW x \in Wanted(p)
        PROVE  x \in conext[p] \cup Glued[p]
    <3>1. PICK q \in Rank : \E c \in con[q] : p \in Needed(q, c) /\ x = Copy(c, q)
      BY WantedMeans
    <3>2. PICK c \in con[q] : p \in Needed(q, c) /\ x = Copy(c, q)
      BY <3>1
    <3>3. CASE c.new
      BY <1>3, <3>2, <3>3
    <3>4. CASE ~ c.new
      <4>1. p \in c.ext
        BY <1>2, <3>2, <3>4 DEF DomainInv, ReachInv, ExtInv
      <4>2. PICK y \in conext[p] : Core(y) = Core(c) /\ y.rank = q
        BY <1>2, <4>1 DEF DomainInv, CopyInv, Copied
      <4>3. y \in CopyType
        BY DEF BaseInv, TypeInv, ConextType
      <4> QED
        BY <3>2, <4>2, <4>3, CopyIsCore
    <3> QED
      BY <3>3, <3>4
  <2> QED
    BY <1>8, <2>1, <2>2, <2>3
<1>10. Gluing
  <2>1. \A r \in Rank : \A e \in con'[r] : \E c \in con[r] : e = New(r, c)
    BY <1>1
  <2>2. \A r \in Rank : \A c \in con[r] : New(r, c) \in con'[r]
    BY <1>1
  <2> QED
    BY <1>4, <1>9, <2>1, <2>2 DEF Gluing
<1>11. /\ BodyInv' /\ ReachInv' /\ CopyInv' /\ OneContactPerPair'
       /\ \A p \in Rank : Cores(con'[p]) = Cores(con[p])
  BY <1>2, <1>10, CopiesPlaced
<1>12. Listed'
  <2>1. ASSUME NEW p \in Rank, NEW b \in Body
        PROVE  bodcon'[p][b] = Entries(Cores(con'[p]), Cores(conext'[p]), b)
    <3>1. Cores(conext'[p]) = Cores(conext[p]) \cup Cores(Glued[p])
      BY <1>8, CoresUnion
    <3>2. AddCopies(bodcon[p][b], Glued[p], b)
            = Entries(Cores(con[p]), Cores(conext'[p]), b)
      BY <1>7, <3>1
    <3> QED
      BY <1>1, <1>11, <3>2
  <2> QED
    BY <2>1 DEF Listed
<1> QED
  BY <1>2, <1>11, <1>12 DEF DomainInv

LEMMA OldBoundaryDomain ==
  ASSUME BaseInv, DomainInv, OldBoundary
  PROVE  DomainInv'
<1> DEFINE Glued   == [p \in Rank |-> UNION {{Copy(c, q) :
                         c \in {d \in con[q] : p \in Needed(q, d) \ d.ext}} :
                           q \in Rank}]
           Updated == [p \in Rank |-> UNION {{Copy(c, q) :
                         c \in {d \in con[q] : p \in Needed(q, d) \cap d.ext}} :
                           q \in Rank}]
           rem     == [r \in Rank |-> [q \in Rank |->
                         Ids({c \in con[r] : q \in c.ext \ Needed(r, c)})]]
           added   == [p \in Rank |-> {x \in Glued[p] :
                                         x.id \notin Ids(conext[p])}]
           there   == [p \in Rank |->
                         {x \in conext[p] : x.id \notin Ids(Updated[p])}
                           \cup {x \in Updated[p] : x.id \in Ids(conext[p])}
                           \cup added[p]]
           gone    == [p \in Rank |-> {x \in there[p] :
                                         x.id \in Arriving(rem, p)}]
           Renewed(r, c) == [c EXCEPT !.ext = Needed(r, c)]
<1>1. /\ \A r \in Rank : con'[r] = {Renewed(r, c) : c \in con[r]}
      /\ \A p \in Rank : conext'[p] = there[p] \ gone[p]
      /\ \A p \in Rank, b \in Body :
           bodcon'[p][b] = Without(AddCopies(bodcon[p][b], Glued[p], b), gone[p], b)
      /\ missed' = UNION {
              Unknown(p, Ids(Updated[p]) \cup Arriving(rem, p),
                      conext[p] \cup added[p])
                \cup {<<p, x.id>> : x \in {y \in Glued[p] :
                        \E b \in Bodies(y) : ~ IsStored(p, b)}} : p \in Rank}
  BY DEF OldBoundary, AddCopies
<1>2. /\ phase = "glue" /\ phase' = "detect"
      /\ UNCHANGED <<started, body, remove, cid, sparecid, sparebid, pending,
                     linked, shape>>
  BY DEF OldBoundary
<1>3. ASSUME NEW p \in Rank
      PROVE  /\ \A x : x \in Glued[p] <=> \E q \in Rank : \E c \in con[q] :
                  p \in Needed(q, c) /\ p \notin c.ext /\ x = Copy(c, q)
             /\ \A x : x \in Updated[p] <=> \E q \in Rank : \E c \in con[q] :
                  p \in Needed(q, c) /\ p \in c.ext /\ x = Copy(c, q)
             /\ \A i : i \in Arriving(rem, p) <=> \E q \in Rank : \E c \in con[q] :
                  p \notin Needed(q, c) /\ p \in c.ext /\ c.id = i
             /\ \A x : x \in added[p] <=> x \in Glued[p] /\ x.id \notin Ids(conext[p])
             /\ \A x : x \in there[p] <=>
                  \/ x \in conext[p] /\ x.id \notin Ids(Updated[p])
                  \/ x \in Updated[p] /\ x.id \in Ids(conext[p])
                  \/ x \in added[p]
             /\ \A x : x \in gone[p] <=> x \in there[p] /\ x.id \in Arriving(rem, p)
  <2>1. \A x : x \in Glued[p] <=> \E q \in Rank : \E c \in con[q] :
                  p \in Needed(q, c) /\ p \notin c.ext /\ x = Copy(c, q)
    OBVIOUS
  <2>2. \A x : x \in Updated[p] <=> \E q \in Rank : \E c \in con[q] :
                  p \in Needed(q, c) /\ p \in c.ext /\ x = Copy(c, q)
    OBVIOUS
  <2>3. \A i : i \in Arriving(rem, p) <=> \E q \in Rank : \E c \in con[q] :
                  p \notin Needed(q, c) /\ p \in c.ext /\ c.id = i
    BY DEF Arriving, Ids
  <2> HIDE DEF Glued, Updated, rem
  <2>4. /\ \A x : x \in added[p] <=> x \in Glued[p] /\ x.id \notin Ids(conext[p])
        /\ \A x : x \in there[p] <=>
             \/ x \in conext[p] /\ x.id \notin Ids(Updated[p])
             \/ x \in Updated[p] /\ x.id \in Ids(conext[p])
             \/ x \in added[p]
        /\ \A x : x \in gone[p] <=> x \in there[p] /\ x.id \in Arriving(rem, p)
    OBVIOUS
  <2> QED
    BY <2>1, <2>2, <2>3, <2>4
<1>4. ASSUME NEW r \in Rank, NEW c \in con[r]
      PROVE  /\ Core(Renewed(r, c)) = Core(c)
             /\ Renewed(r, c).ext = Needed(r, c)
             /\ Renewed(r, c).new = c.new
  <2>1. \A g : /\ Core([c EXCEPT !.ext = g]) = Core(c)
               /\ [c EXCEPT !.ext = g].ext = g
               /\ [c EXCEPT !.ext = g].new = c.new
    BY RelabelCore DEF BaseInv, TypeInv, ConType
  <2> QED
    BY <2>1
<1> HIDE DEF Glued, Updated, rem, added, there, gone, Renewed
<1>5. \A p \in Rank : Arriving(remove, p) = {}
  BY <1>2 DEF BaseInv, TypeInv, RemoveType, NothingToRemove, Arriving
<1>6. ASSUME NEW p \in Rank, NEW x \in Glued[p]
      PROVE  \E q \in Rank : \E c \in con[q] :
               q # p /\ p \notin c.ext /\ Core(x) = Core(c)
  <2>1. PICK q \in Rank : \E c \in con[q] :
          p \in Needed(q, c) /\ p \notin c.ext /\ x = Copy(c, q)
    BY <1>3
  <2>2. PICK c \in con[q] : p \in Needed(q, c) /\ p \notin c.ext /\ x = Copy(c, q)
    BY <2>1
  <2>3. q # p
    BY <1>2, <2>2, OthersNeed
  <2> QED
    BY <2>2, <2>3, CopyCore
<1>7. ASSUME NEW p \in Rank
      PROVE  /\ added[p] = Glued[p]
             /\ \A b \in Body : \A Y :
                  Y = Cores(conext[p]) \cup Cores(Glued[p]) =>
                    AddCopies(bodcon[p][b], Glued[p], b) = Entries(Cores(con[p]), Y, b)
             /\ \A Y : Y = Cores(conext[p]) \cup Cores(Glued[p]) =>
                  \A j, k \in Cores(con[p]) \cup Y : SameKey(j, k) => j = k
  <2> DEFINE S == Glued[p]
  <2>1. \A x \in S : \E q \in Rank : \E c \in con[q] :
          q # p /\ p \notin c.ext /\ Core(x) = Core(c)
    BY <1>6
  <2> HIDE DEF S
  <2>2. \A Y : Y = Cores(conext[p]) \cup Cores(S) =>
          /\ \A x \in S : x.id \notin Ids(conext[p])
          /\ \A b \in Body : AddCopies(bodcon[p][b], S, b) = Entries(Cores(con[p]), Y, b)
          /\ \A j, k \in Cores(con[p]) \cup Y : SameKey(j, k) => j = k
    BY <1>5, <2>1, GluedApart
  <2>3. added[p] = Glued[p]
    <3>1. \A x \in S : x.id \notin Ids(conext[p])
      BY <2>2
    <3>2. \A x : x \in added[p] <=> x \in Glued[p] /\ x.id \notin Ids(conext[p])
      BY <1>3
    <3>3. \A x : x \in added[p] <=> x \in Glued[p]
      BY <3>1, <3>2 DEF S
    <3> QED
      BY <3>3
  <2> QED
    BY <2>2, <2>3 DEF S
\* the copies that are there already: one for each rank in ext
<1>8. ASSUME NEW p \in Rank, NEW q \in Rank, NEW c \in con[q], p \in c.ext
      PROVE  /\ c.id \in Ids(conext[p])
             /\ \E x \in conext[p] : Core(x) = Core(c)
             /\ \A x \in conext[p] : x.id = c.id => Core(x) = Core(c)
  <2>1. PICK x \in conext[p] : Core(x) = Core(c)
    BY <1>8, CopyOf DEF DomainInv
  <2>2. x.id = c.id
    BY <2>1, SameCore
  <2> QED
    BY <1>8, <2>1, <2>2, CopyOf DEF DomainInv, Ids
<1>9. ASSUME NEW p \in Rank, NEW x \in there[p]
      PROVE  \E q \in Rank : \E c \in con[q] :
               /\ Core(x) = Core(c)
               /\ p \in c.ext \cup Needed(q, c)
               /\ p \in Needed(q, c) => x = Copy(c, q)
  <2>1. CASE x \in conext[p] /\ x.id \notin Ids(Updated[p])
    <3>1. PICK q \in Rank : \E c \in con[q] : p \in c.ext /\ Core(x) = Core(c)
      BY <1>5, <2>1, CopiesLive
    <3>2. PICK c \in con[q] : p \in c.ext /\ Core(x) = Core(c)
      BY <3>1
    <3>3. x.id = c.id
      BY <3>2, SameCore
    <3>4. p \notin Needed(q, c)
      <4>1. SUFFICES ASSUME p \in Needed(q, c)
                     PROVE  FALSE
        OBVIOUS
      <4>2. Copy(c, q) \in Updated[p]
        BY <1>3, <3>2, <4>1
      <4> QED
        BY <2>1, <3>3, <4>2, CopyCore DEF Ids
    <3> QED
      BY <3>2, <3>4
  <2>2. CASE x \in Updated[p] \/ x \in Glued[p]
    <3>1. PICK q \in Rank : \E c \in con[q] : p \in Needed(q, c) /\ x = Copy(c, q)
      BY <1>3, <2>2
    <3>2. PICK c \in con[q] : p \in Needed(q, c) /\ x = Copy(c, q)
      BY <3>1
    <3> QED
      BY <3>2, CopyCore
  <2> QED
    BY <1>3, <2>1, <2>2
<1>10. ASSUME NEW p \in Rank, NEW q \in Rank, NEW c \in con[q], p \in Needed(q, c)
       PROVE  Copy(c, q) \in there[p]
  <2>1. CASE p \in c.ext
    <3>1. Copy(c, q) \in Updated[p]
      BY <1>3, <1>10, <2>1
    <3>2. Copy(c, q).id \in Ids(conext[p])
      BY <1>8, <2>1, CopyCore
    <3> QED
      BY <1>3, <3>1, <3>2
  <2>2. CASE p \notin c.ext
    <3>1. Copy(c, q) \in Glued[p]
      BY <1>3, <1>10, <2>2
    <3> QED
      BY <1>3, <1>7, <3>1
  <2> QED
    BY <2>1, <2>2
<1>11. ASSUME NEW p \in Rank, NEW x \in there[p], NEW q \in Rank, NEW c \in con[q],
              Core(x) = Core(c)
       PROVE  x \in gone[p] <=> p \notin Needed(q, c)
  <2>1. x.id = c.id
    BY <1>11, SameCore
  <2>2. ASSUME x.id \in Arriving(rem, p)
        PROVE  p \notin Needed(q, c)
    <3>1. PICK s \in Rank : \E d \in con[s] : p \notin Needed(s, d) /\ d.id = x.id
      BY <1>3, <2>2
    <3>2. PICK d \in con[s] : p \notin Needed(s, d) /\ d.id = x.id
      BY <3>1
    <3>3. q = s /\ c = d
      BY <2>1, <3>2, LiveApart DEF DomainInv
    <3> QED
      BY <3>2, <3>3
  <2>3. ASSUME p \notin Needed(q, c)
        PROVE  x.id \in Arriving(rem, p)
    <3>1. PICK s \in Rank : \E d \in con[s] :
            Core(x) = Core(d) /\ p \in d.ext \cup Needed(s, d)
      BY <1>9
    <3>2. PICK d \in con[s] : Core(x) = Core(d) /\ p \in d.ext \cup Needed(s, d)
      BY <3>1
    <3>3. Core(c) = Core(d)
      BY <1>11, <3>2
    <3>4. q = s /\ c = d
      BY <3>3, LiveApart DEF DomainInv
    <3> QED
      BY <1>3, <2>1, <2>3, <3>2, <3>4
  <2> QED
    BY <1>3, <2>2, <2>3
<1>12. ASSUME NEW p \in Rank
       PROVE  conext'[p] = Wanted(p)
  <2>1. ASSUME NEW x \in there[p], x \notin gone[p]
        PROVE  x \in Wanted(p)
    <3>1. PICK q \in Rank : \E c \in con[q] :
            Core(x) = Core(c) /\ (p \in Needed(q, c) => x = Copy(c, q))
      BY <1>9
    <3>2. PICK c \in con[q] :
            Core(x) = Core(c) /\ (p \in Needed(q, c) => x = Copy(c, q))
      BY <3>1
    <3>3. p \in Needed(q, c)
      BY <1>11, <2>1, <3>2
    <3> QED
      BY <3>2, <3>3, WantedMeans
  <2>2. ASSUME NEW x \in Wanted(p)
        PROVE  x \in there[p] /\ x \notin gone[p]
    <3>1. PICK q \in Rank : \E c \in con[q] : p \in Needed(q, c) /\ x = Copy(c, q)
      BY WantedMeans
    <3>2. PICK c \in con[q] : p \in Needed(q, c) /\ x = Copy(c, q)
      BY <3>1
    <3>3. x \in there[p]
      BY <1>10, <3>2
    <3> QED
      BY <1>11, <3>2, <3>3, CopyCore
  <2> QED
    BY <1>1, <2>1, <2>2
<1>13. Gluing
  <2>1. \A r \in Rank : \A e \in con'[r] : \E c \in con[r] : e = Renewed(r, c)
    BY <1>1
  <2>2. \A r \in Rank : \A c \in con[r] : Renewed(r, c) \in con'[r]
    BY <1>1
  <2> QED
    BY <1>4, <1>12, <2>1, <2>2 DEF Gluing
<1>14. /\ BodyInv' /\ ReachInv' /\ CopyInv' /\ OneContactPerPair'
       /\ \A p \in Rank : Cores(con'[p]) = Cores(con[p])
  BY <1>2, <1>13, CopiesPlaced
<1>15. ASSUME NEW p \in Rank
       PROVE  /\ Cores(there[p]) = Cores(conext[p]) \cup Cores(Glued[p])
              /\ Cores(conext'[p]) = Cores(there[p]) \ Cores(gone[p])
  <2>1. ASSUME NEW x \in there[p]
        PROVE  \/ \E y \in conext[p] : Core(x) = Core(y)
               \/ x \in Glued[p]
    <3>1. CASE x \in Updated[p]
      <4>1. PICK q \in Rank : \E c \in con[q] : p \in c.ext /\ x = Copy(c, q)
        BY <1>3, <3>1
      <4>2. PICK c \in con[q] : p \in c.ext /\ x = Copy(c, q)
        BY <4>1
      <4>3. PICK y \in conext[p] : Core(y) = Core(c)
        BY <1>8, <4>2
      <4> QED
        BY <4>2, <4>3, CopyCore
    <3> QED
      BY <1>3, <3>1
  <2>2. ASSUME NEW x \in conext[p]
        PROVE  \E y \in there[p] : Core(x) = Core(y)
    <3>1. CASE x.id \in Ids(Updated[p])
      <4>1. PICK y \in Updated[p] : y.id = x.id
        BY <3>1 DEF Ids
      <4>2. PICK q \in Rank : \E c \in con[q] : p \in c.ext /\ y = Copy(c, q)
        BY <1>3
      <4>3. PICK c \in con[q] : p \in c.ext /\ y = Copy(c, q)
        BY <4>2
      <4>4. Core(y) = Core(c) /\ y.id = c.id
        BY <4>3, CopyCore
      <4>5. Core(x) = Core(c)
        BY <1>8, <4>1, <4>3, <4>4
      <4>6. y \in there[p]
        BY <1>3, <4>1 DEF Ids
      <4> QED
        BY <4>4, <4>5, <4>6
    <3>2. CASE x.id \notin Ids(Updated[p])
      BY <1>3, <3>2
    <3> QED
      BY <3>1, <3>2
  <2>3. \A x \in Glued[p] : x \in there[p]
    BY <1>3, <1>7
  <2>4. Cores(there[p]) = Cores(conext[p]) \cup Cores(Glued[p])
    BY <2>1, <2>2, <2>3 DEF Cores
  <2>5. ASSUME NEW x \in there[p], NEW y \in there[p], x.id = y.id
        PROVE  Core(x) = Core(y) /\ (x \in gone[p] <=> y \in gone[p])
    <3>1. PICK q \in Rank : \E c \in con[q] : Core(x) = Core(c)
      BY <1>9
    <3>2. PICK c \in con[q] : Core(x) = Core(c)
      BY <3>1
    <3>3. PICK s \in Rank : \E d \in con[s] : Core(y) = Core(d)
      BY <1>9
    <3>4. PICK d \in con[s] : Core(y) = Core(d)
      BY <3>3
    <3>5. c.id = d.id
      BY <2>5, <3>2, <3>4, SameCore
    <3>6. q = s /\ c = d
      BY <3>5, LiveApart DEF DomainInv
    <3> QED
      BY <1>3, <2>5, <3>2, <3>4, <3>6
  <2>6. gone[p] \subseteq there[p] /\ conext'[p] = there[p] \ gone[p]
    BY <1>1, <1>3
  <2>7. ASSUME NEW x \in there[p], NEW y \in there[p], Core(x) = Core(y)
        PROVE  x \in gone[p] <=> y \in gone[p]
    BY <2>5, <2>7, SameCore
  <2>8. Cores(conext'[p]) = Cores(there[p]) \ Cores(gone[p])
    BY <2>6, <2>7 DEF Cores
  <2> QED
    BY <2>4, <2>8
<1>16. Listed'
  <2>1. ASSUME NEW p \in Rank, NEW b \in Body
        PROVE  bodcon'[p][b] = Entries(Cores(con'[p]), Cores(conext'[p]), b)
    <3> DEFINE K == Cores(con[p])
               X == Cores(there[p])
               S == gone[p]
               Y == Cores(conext'[p])
    <3>1. AddCopies(bodcon[p][b], Glued[p], b) = Entries(K, X, b)
      BY <1>7, <1>15
    <3>2. \A j, k \in K \cup X : SameKey(j, k) => j = k
      BY <1>7, <1>15
    <3>3. Cores(S) \subseteq X
      BY <1>3 DEF Cores
    <3>4. K \cap Cores(S) = {}
      <4>1. ASSUME NEW d \in con[p], NEW x \in there[p], Core(d) = Core(x)
            PROVE  FALSE
        <5>1. PICK q \in Rank : \E c \in con[q] :
                Core(x) = Core(c) /\ p \in c.ext \cup Needed(q, c)
          BY <1>9
        <5>2. PICK c \in con[q] : Core(x) = Core(c) /\ p \in c.ext \cup Needed(q, c)
          BY <5>1
        <5>3. p = q /\ c = d
          BY <4>1, <5>2, LiveApart DEF DomainInv
        <5>4. q \notin c.ext
          BY DEF BaseInv, TypeInv, NotOwn
        <5> QED
          BY <1>2, <5>2, <5>3, <5>4, OthersNeed
      <4> QED
        BY <1>3, <4>1 DEF Cores
    <3>5. bodcon'[p][b] = Without(AddCopies(bodcon[p][b], Glued[p], b), S, b)
      BY <1>1
    <3>6. Y = X \ Cores(S)
      BY <1>15
    <3>7. Cores(con'[p]) = K
      BY <1>14
    <3> HIDE DEF K, X, S, Y
    <3>8. Cores(S) \subseteq K \cup X /\ K = K \ Cores(S)
      BY <3>3, <3>4
    <3>9. Without(Entries(K, X, b), S, b) = Entries(K, Y, b)
      BY <3>2, <3>6, <3>8, WithoutEntries
    <3> QED
      BY <3>1, <3>5, <3>7, <3>9 DEF Y
  <2> QED
    BY <2>1 DEF Listed
<1>17. missed' = {}
  <2>1. ASSUME NEW p \in Rank
        PROVE  Unknown(p, Ids(Updated[p]) \cup Arriving(rem, p),
                       conext[p] \cup added[p]) = {}
    <3>1. ASSUME NEW i \in Ids(Updated[p]) \cup Arriving(rem, p)
          PROVE  i \in Ids(conext[p])
      <4>1. PICK q \in Rank : \E c \in con[q] : p \in c.ext /\ c.id = i
        BY <1>3, CopyCore DEF Ids
      <4> QED
        BY <1>8, <4>1
    <3>2. Ids(conext[p]) \subseteq Ids(conext[p] \cup added[p])
      BY DEF Ids
    <3>3. (Ids(Updated[p]) \cup Arriving(rem, p)) \ Ids(conext[p] \cup added[p]) = {}
      BY <3>1, <3>2
    <3> QED
      BY <3>3 DEF Unknown
  <2>2. ASSUME NEW p \in Rank, NEW x \in Glued[p], NEW b \in Bodies(x)
        PROVE  IsStored(p, b)
    <3>1. PICK q \in Rank : \E c \in con[q] : Core(x) = Core(c)
      BY <1>6
    <3>2. PICK c \in con[q] : Core(x) = Core(c)
      BY <3>1
    <3>3. Bodies(x) = Bodies(c)
      BY <3>2, SameCore
    <3> QED
      BY <3>3 DEF DomainInv, BodyInv, BodiesStored
  <2> QED
    BY <1>1, <2>1, <2>2
<1> QED
  BY <1>14, <1>16, <1>17 DEF DomainInv

-----------------------------------------------------------------------------
(* Bodies and constraints migrate                                          *)

LEMMA PlacedStore ==
  ASSUME StoreInv, NEW part \in [Body -> Placement], body' = Placed(part)
  PROVE  /\ StoreInv'
         /\ \A r \in Rank, b \in Body :
              IsStored(r, b) => /\ IsStored(r, b)'
                                /\ IsHeld(r, b)' <=> r \in part[b].box
<1>1. ASSUME NEW b \in Body, StoredNowhere(b)
      PROVE  StoredNowhere(b)'
  <2>1. \A r \in Rank : body'[r][b] = Removed
    BY <1>1 DEF StoredNowhere, Placed
  <2> QED
    BY <2>1 DEF StoredNowhere, IsStored, Removed
<1>2. ASSUME NEW b \in Body, NEW h \in Rank, HeldFrom(h, b)
      PROVE  /\ \A r \in Rank : IsStored(r, b)'
             /\ \A r \in Rank : IsHeld(r, b)' <=> r \in part[b].box
             /\ HeldFrom(part[b].rank, b)' /\ part[b].rank \in Rank
  <2> DEFINE k == part[b].rank
             B == part[b].box
  <2>1. k \in B /\ B \subseteq Rank /\ k \in Rank
    BY DEF Placement
  <2>2. \A r \in Rank : IsStored(r, b)
    BY <1>2 DEF HeldFrom
  <2>3. ~ \A q \in Rank : ~ IsParent(q, b)
    BY <1>2 DEF HeldFrom
  <2>4. \A r \in Rank : body'[r][b] =
          IF r = k THEN Parent(r, B \ {k})
          ELSE IF r \in B \ {k} THEN Child(k, (B \ {k}) \ {r})
          ELSE Dummy
    BY <2>2, <2>3 DEF Placed, ChildRanks
  <2> HIDE DEF k, B
  <2>5. ASSUME NEW r \in Rank
        PROVE  /\ IsStored(r, b)'
               /\ IsHeld(r, b)' <=> r \in B
               /\ IsParent(r, b)' <=> r = k
               /\ r \in B => /\ body'[r][b].rank = k
                             /\ body'[r][b].children = B \ {r, k}
    <3>1. CASE r = k
      <4>1. body'[r][b] = Parent(r, B \ {k})
        BY <2>4, <3>1
      <4> QED
        BY <2>1, <3>1, <4>1 DEF Parent, IsStored, IsHeld, IsParent
    <3>2. CASE r \in B \ {k}
      <4>1. body'[r][b] = Child(k, (B \ {k}) \ {r})
        BY <2>4, <3>2
      <4> QED
        BY <3>2, <4>1 DEF Child, IsStored, IsHeld, IsParent
    <3>3. CASE r # k /\ r \notin B
      <4>1. body'[r][b] = Dummy
        BY <2>4, <3>3
      <4> QED
        BY <3>3, <4>1 DEF Dummy, IsStored, IsHeld, IsParent
    <3> QED
      BY <3>1, <3>2, <3>3
  <2>6. Holders(b)' = B
    BY <2>1, <2>5 DEF Holders
  <2>7. HeldFrom(k, b)'
    BY <2>1, <2>5, <2>6 DEF HeldFrom
  <2> QED
    BY <2>1, <2>5, <2>7 DEF k, B
<1>3. StoreInv'
  BY <1>1, <1>2 DEF StoreInv
<1>4. ASSUME NEW r \in Rank, NEW b \in Body, IsStored(r, b)
      PROVE  /\ IsStored(r, b)'
             /\ IsHeld(r, b)' <=> r \in part[b].box
  <2>1. ~ StoredNowhere(b)
    BY <1>4 DEF StoredNowhere
  <2>2. PICK h \in Rank : HeldFrom(h, b)
    BY <2>1 DEF StoreInv
  <2> QED
    BY <1>2, <2>2
<1> QED
  BY <1>3, <1>4

(* What leaves r and comes to p, the copies that regular constraints       *)
(* replace and those whose removal arrives.                                *)
Leaving(dest, r)   == {c \in con[r] : dest[c.id] # r}
Coming(dest, p)    == UNION {{c \in con[q] : dest[c.id] = p} : q \in Rank \ {p}}
TakenOver(dest, p) == {x \in conext[p] :
                         \E c \in Coming(dest, p) : p \in c.ext /\ c.id = x.id}
GoneFrom(p)        == {x \in conext[p] : x.id \in Arriving(remove, p)}

LEMMA MigrateMeans ==
  ASSUME NEW part, NEW dest, Migrate(part, dest)
  PROVE  /\ body' = Placed(part)
         /\ remove' = NothingToRemove
         /\ \A p \in Rank : con'[p] = (con[p] \ Leaving(dest, p))
              \cup {Received(c, p) : c \in Coming(dest, p)}
         /\ \A p \in Rank : conext'[p] = conext[p] \ (TakenOver(dest, p) \cup GoneFrom(p))
         /\ \A p \in Rank : \A c : c \in Coming(dest, p) <=>
              \E q \in Rank : q # p /\ c \in con[q] /\ dest[c.id] = p
BY DEF Migrate, Leaving, Coming, TakenOver, GoneFrom

LEMMA MigrateLists ==
  ASSUME NEW part, NEW dest, Migrate(part, dest), NEW p \in Rank, NEW b \in Body
  PROVE  bodcon'[p][b] =
           Without(AddRegular(Without(bodcon[p][b],
                                      Leaving(dest, p) \cup TakenOver(dest, p), b),
                              Coming(dest, p), b), GoneFrom(p), b)
BY DEF Migrate, Leaving, Coming, TakenOver, GoneFrom, AddRegular

LEMMA MigrateFinds ==
  ASSUME NEW part, NEW dest, Migrate(part, dest),
         \A p \in Rank : \A c \in Coming(dest, p) :
           /\ p \in c.ext => c.id \in Ids(conext[p])
           /\ \A b \in Bodies(c) : IsStored(p, b),
         \A p \in Rank : Arriving(remove, p) \subseteq Ids(conext[p])
  PROVE  missed' = {}
<1>1. ASSUME NEW p \in Rank
      PROVE  /\ Unknown(p, Ids({c \in Coming(dest, p) : p \in c.ext}), conext[p]) = {}
             /\ Unknown(p, Arriving(remove, p), conext[p]) = {}
             /\ {d \in Coming(dest, p) : \E b \in Bodies(d) : ~ IsStored(p, b)} = {}
  <2>1. Ids({c \in Coming(dest, p) : p \in c.ext}) \ Ids(conext[p]) = {}
    BY DEF Ids
  <2>2. Arriving(remove, p) \ Ids(conext[p]) = {}
    OBVIOUS
  <2> QED
    BY <2>1, <2>2 DEF Unknown
<1> DEFINE In == [p \in Rank |-> UNION {{c \in con[q] : dest[c.id] = p} :
                                          q \in Rank \ {p}}]
<1>2. missed' = UNION {
        Unknown(p, Ids({c \in In[p] : p \in c.ext}), conext[p])
          \cup Unknown(p, Arriving(remove, p), conext[p])
          \cup {<<p, c.id>> : c \in {d \in In[p] :
                  \E b \in Bodies(d) : ~ IsStored(p, b)}} : p \in Rank}
  BY DEF Migrate
<1>3. \A p \in Rank : In[p] = Coming(dest, p)
  BY DEF Coming
<1> HIDE DEF In
<1> QED
  BY <1>1, <1>2, <1>3

LEMMA ReceivedCore ==
  ASSUME NEW c \in Constraint, NEW p
  PROVE  /\ Core(Received(c, p)) = Core(c)
         /\ Received(c, p).ext = c.ext \ {p}
         /\ Received(c, p).new = c.new
BY DEF Received, Core, Constraint

(* Every constraint is on the rank it was sent to, with its copies on the  *)
(* others.                                                                 *)
Moved(dest) ==
  /\ \A p \in Rank : \A e \in con'[p] : \E q \in Rank : \E c \in con[q] :
       /\ dest[c.id] = p /\ Core(e) = Core(c)
       /\ e.ext = c.ext \ {p} /\ e.new = c.new
  /\ \A q \in Rank : \A c \in con[q] : \E e \in con'[dest[c.id]] :
       Core(e) = Core(c) /\ e.ext = c.ext \ {dest[c.id]}

LEMMA MigrateMoves ==
  ASSUME BaseInv, NEW part, NEW dest \in [Live -> Rank], Migrate(part, dest)
  PROVE  Moved(dest)
<1>1. ASSUME NEW p \in Rank, NEW e \in con'[p]
      PROVE  \E q \in Rank : \E c \in con[q] :
               /\ dest[c.id] = p /\ Core(e) = Core(c)
               /\ e.ext = c.ext \ {p} /\ e.new = c.new
  <2>1. CASE e \in con[p] \ Leaving(dest, p)
    <3>1. dest[e.id] = p /\ p \notin e.ext
      BY <2>1 DEF Leaving, BaseInv, TypeInv, NotOwn
    <3> QED
      BY <2>1, <3>1
  <2>2. CASE \E c \in Coming(dest, p) : e = Received(c, p)
    <3>1. PICK c \in Coming(dest, p) : e = Received(c, p)
      BY <2>2
    <3>2. PICK q \in Rank : c \in con[q] /\ dest[c.id] = p
      BY MigrateMeans
    <3>3. c \in Constraint
      BY <3>2 DEF BaseInv, TypeInv, ConType
    <3> QED
      BY <3>1, <3>2, <3>3, ReceivedCore
  <2>3. e \in (con[p] \ Leaving(dest, p)) \cup {Received(c, p) : c \in Coming(dest, p)}
    BY MigrateMeans
  <2> QED
    BY <2>1, <2>2, <2>3
<1>2. ASSUME NEW q \in Rank, NEW c \in con[q]
      PROVE  \E e \in con'[dest[c.id]] :
               Core(e) = Core(c) /\ e.ext = c.ext \ {dest[c.id]}
  <2> DEFINE p == dest[c.id]
  <2>1. p \in Rank
    BY DEF Live, All, Ids
  <2> HIDE DEF p
  <2>2. con'[p] = (con[p] \ Leaving(dest, p)) \cup {Received(d, p) : d \in Coming(dest, p)}
    BY <2>1, MigrateMeans
  <2>3. CASE p = q
    <3>1. c \in con'[p] /\ p \notin c.ext
      BY <2>2, <2>3 DEF Leaving, p, BaseInv, TypeInv, NotOwn
    <3> QED
      BY <3>1 DEF p
  <2>4. CASE p # q
    <3>1. c \in Coming(dest, p)
      BY <2>1, <2>4, MigrateMeans DEF p
    <3>2. Received(c, p) \in con'[p]
      BY <2>2, <3>1
    <3>3. c \in Constraint
      BY DEF BaseInv, TypeInv, ConType
    <3> QED
      BY <3>2, <3>3, ReceivedCore DEF p
  <2> QED
    BY <2>3, <2>4
<1> QED
  BY <1>1, <1>2 DEF Moved

(* The copies that a migration removes.                                    *)
LEMMA MigrateTakes ==
  ASSUME BaseInv, DomainInv, phase # "glue", NEW part, NEW dest \in [Live -> Rank],
         Migrate(part, dest), NEW p \in Rank, NEW x \in conext[p]
  PROVE  /\ x \in GoneFrom(p) <=> Stale(p, x)
         /\ x \in TakenOver(dest, p) <=>
              \E q \in Rank : \E c \in con[q] :
                /\ dest[c.id] = p /\ p \in c.ext /\ Core(x) = Core(c)
         /\ x \in TakenOver(dest, p) => ~ Stale(p, x)
<1>1. x \in GoneFrom(p) <=> Stale(p, x)
  BY DEF GoneFrom, Stale
<1>2. ASSUME x \in TakenOver(dest, p)
      PROVE  /\ \E q \in Rank : \E c \in con[q] :
                  /\ dest[c.id] = p /\ p \in c.ext /\ Core(x) = Core(c)
             /\ ~ Stale(p, x)
  <2>1. PICK c \in Coming(dest, p) : p \in c.ext /\ c.id = x.id
    BY <1>2 DEF TakenOver
  <2>2. PICK q \in Rank : c \in con[q] /\ dest[c.id] = p
    BY MigrateMeans
  <2>3. Core(x) = Core(c) /\ ~ Stale(p, x)
    BY <2>1, <2>2, CopyOf DEF DomainInv
  <2> QED
    BY <2>1, <2>2, <2>3
<1>3. ASSUME NEW q \in Rank, NEW c \in con[q],
             dest[c.id] = p, p \in c.ext, Core(x) = Core(c)
      PROVE  x \in TakenOver(dest, p)
  <2>1. q # p
    BY <1>3 DEF BaseInv, TypeInv, NotOwn
  <2>2. c \in Coming(dest, p)
    BY <1>3, <2>1, MigrateMeans
  <2>3. c.id = x.id
    BY <1>3, SameCore
  <2> QED
    BY <1>3, <2>2, <2>3 DEF TakenOver
<1> QED
  BY <1>1, <1>2, <1>3

LEMMA MigrateCopies ==
  ASSUME BaseInv, DomainInv, phase # "glue", phase' = "glue", NEW part,
         NEW dest \in [Live -> Rank], Migrate(part, dest)
  PROVE  CopyInv' /\ OneContactPerPair'
<1>1. \A p \in Rank : Arriving(remove, p)' = {}
  BY MigrateMeans DEF Arriving, NothingToRemove
<1>2. Moved(dest)
  BY MigrateMoves
<1>3. \A p \in Rank : conext'[p] = conext[p] \ (TakenOver(dest, p) \cup GoneFrom(p))
  BY MigrateMeans
<1>4. Copied'
  <2>1. ASSUME NEW r \in Rank, NEW p \in Rank, NEW e \in con'[r], p \in e.ext
        PROVE  \E x \in conext'[p] : Core(x) = Core(e)
    <3>1. PICK q \in Rank : \E c \in con[q] :
            dest[c.id] = r /\ Core(e) = Core(c) /\ e.ext = c.ext \ {r}
      BY <1>2 DEF Moved
    <3>2. PICK c \in con[q] :
            dest[c.id] = r /\ Core(e) = Core(c) /\ e.ext = c.ext \ {r}
      BY <3>1
    <3>3. p \in c.ext /\ p # r
      BY <2>1, <3>2
    <3>4. PICK x \in conext[p] : Core(x) = Core(c)
      BY <3>3, CopyOf DEF DomainInv
    <3>5. SameKey(x, c)
      BY <3>4, SameCore
    <3>6. ~ Stale(p, x)
      BY <3>3, <3>5, CopyOf DEF DomainInv
    <3>7. x \notin TakenOver(dest, p)
      <4>1. SUFFICES ASSUME x \in TakenOver(dest, p)
                     PROVE  FALSE
        OBVIOUS
      <4>2. PICK s \in Rank : \E d \in con[s] : dest[d.id] = p /\ Core(x) = Core(d)
        BY <4>1, MigrateTakes
      <4>3. PICK d \in con[s] : dest[d.id] = p /\ Core(x) = Core(d)
        BY <4>2
      <4>4. Core(c) = Core(d)
        BY <3>4, <4>3
      <4>5. c = d
        BY <4>4, LiveApart DEF DomainInv
      <4> QED
        BY <3>2, <3>3, <4>3, <4>5
    <3>8. x \notin GoneFrom(p)
      BY <3>6, MigrateTakes
    <3> QED
      BY <1>3, <3>2, <3>4, <3>7, <3>8
  <2> QED
    BY <2>1 DEF Copied
<1>5. Owned'
  <2>1. ASSUME NEW p \in Rank, NEW x \in conext'[p]
        PROVE  \E r \in Rank : \E e \in con'[r] : p \in e.ext /\ Core(x) = Core(e)
    <3>1. x \in conext[p] /\ x \notin TakenOver(dest, p) /\ x \notin GoneFrom(p)
      BY <1>3
    <3>2. ~ Stale(p, x)
      BY <3>1, MigrateTakes
    <3>3. PICK q \in Rank : \E c \in con[q] : p \in c.ext /\ Core(x) = Core(c)
      BY <3>1, <3>2 DEF DomainInv, CopyInv, Owned
    <3>4. PICK c \in con[q] : p \in c.ext /\ Core(x) = Core(c)
      BY <3>3
    <3>5. dest[c.id] # p
      BY <3>1, <3>4, MigrateTakes
    <3>6. PICK e \in con'[dest[c.id]] :
            Core(e) = Core(c) /\ e.ext = c.ext \ {dest[c.id]}
      BY <1>2 DEF Moved
    <3>7. dest[c.id] \in Rank
      BY DEF Live, All, Ids
    <3> QED
      BY <3>4, <3>5, <3>6, <3>7
  <2> QED
    BY <2>1 DEF Owned
<1>6. RemovalsKnown' /\ StaleApart' /\ BrokenOnly'
  BY <1>1 DEF RemovalsKnown, StaleApart, BrokenOnly, Stale
<1>7. CopiesApart'
  BY <1>3 DEF DomainInv, CopyInv, CopiesApart
<1>8. OneContactPerPair'
  <2>1. ASSUME NEW e \in All'
        PROVE  \E c \in All : Core(e) = Core(c)
    <3>1. PICK r \in Rank : e \in con'[r]
      BY DEF All
    <3>2. PICK q \in Rank : \E c \in con[q] : Core(e) = Core(c)
      BY <1>2, <3>1 DEF Moved
    <3> QED
      BY <3>2 DEF All
  <2>2. ASSUME NEW e \in All', NEW f \in All', IsContact(e), IsContact(f),
               Bodies(e) = Bodies(f)
        PROVE  e.id = f.id
    <3>1. PICK c \in All : Core(e) = Core(c)
      BY <2>1
    <3>2. PICK d \in All : Core(f) = Core(d)
      BY <2>1
    <3>3. /\ c.id = e.id /\ Bodies(c) = Bodies(e) /\ IsContact(c)
          /\ d.id = f.id /\ Bodies(d) = Bodies(f) /\ IsContact(d)
      BY <2>2, <3>1, <3>2, SameCore
    <3> QED
      BY <2>2, <3>3 DEF DomainInv, OneContactPerPair
  <2> QED
    BY <2>2 DEF OneContactPerPair
<1> QED
  BY <1>4, <1>5, <1>6, <1>7, <1>8 DEF CopyInv

(* The sets of the bodies after what left, what came and what is gone.     *)
LEMMA MigrateListed ==
  ASSUME BaseInv, DomainInv, phase # "glue", NEW part,
         NEW dest \in [Live -> Rank], Migrate(part, dest)
  PROVE  Listed'
<1>0. \A p \in Rank : conext'[p] = conext[p] \ (TakenOver(dest, p) \cup GoneFrom(p))
  BY MigrateMeans
<1>1. ASSUME NEW p \in Rank, NEW b \in Body
      PROVE  bodcon'[p][b] = Entries(Cores(con'[p]), Cores(conext'[p]), b)
  <2> DEFINE Out == Leaving(dest, p)
             In == Coming(dest, p)
             Taken == TakenOver(dest, p)
             Gone == GoneFrom(p)
             K == Cores(con[p] \ Out)
             X == Cores(conext[p] \ Taken)
             L == K \cup Cores(In)
             Y == Cores(conext'[p])
  <2>1. Without(bodcon[p][b], Out \cup Taken, b) = Entries(K, X, b)
    <3>1. Out \in SUBSET con[p] /\ Taken \in SUBSET conext[p]
      BY DEF Leaving, TakenOver
    <3> QED
      BY <3>1, ListedWithout
  <2>2. ASSUME NEW c \in In
        PROVE  \E q \in Rank : q # p /\ c \in con[q] /\ dest[c.id] = p
    BY MigrateMeans
  <2>3. ASSUME NEW c \in In, NEW d \in con[p], SameKey(d, c)
        PROVE  FALSE
    <3>1. PICK q \in Rank : q # p /\ c \in con[q]
      BY <2>2
    <3> QED
      BY <2>3, <3>1, LiveApart DEF DomainInv
  <2>4. ASSUME NEW c \in In, NEW x \in conext[p], x \notin Taken, SameKey(x, c)
        PROVE  FALSE
    <3>1. PICK q \in Rank : q # p /\ c \in con[q] /\ dest[c.id] = p
      BY <2>2
    <3>2. SameKey(c, x)
      BY <2>4, CoreFacts
    <3>3. ~ Stale(p, x)
      BY <3>1, <3>2 DEF DomainInv, CopyInv, StaleApart
    <3>4. PICK s \in Rank : \E d \in con[s] : p \in d.ext /\ Core(x) = Core(d)
      BY <3>3 DEF DomainInv, CopyInv, Owned
    <3>5. PICK d \in con[s] : p \in d.ext /\ Core(x) = Core(d)
      BY <3>4
    <3>6. SameKey(d, c)
      BY <2>4, <3>5, SameCore
    <3>7. d = c
      BY <3>1, <3>6, LiveApart DEF DomainInv
    <3> QED
      BY <2>4, <3>1, <3>5, <3>7, MigrateTakes
  <2>5. ASSUME NEW c \in In, NEW k \in K \cup X
        PROVE  ~ SameKey(k, c)
    <3>1. PICK d : (d \in con[p] \/ d \in conext[p] \ Taken) /\ k = Core(d)
      BY DEF Cores
    <3>2. ~ SameKey(d, c)
      BY <2>3, <2>4, <3>1
    <3> QED
      BY <3>1, <3>2, CoreFacts
  <2>6. Gone \subseteq conext[p] \ Taken
    <3>1. \A x \in conext[p] : x \in Gone => x \notin Taken
      BY MigrateTakes
    <3> QED
      BY <3>1 DEF GoneFrom
  <2>7. \A x, y \in conext[p] : x.id = y.id => x = y
    BY KeysApart DEF DomainInv
  <2>8. \A j, k \in Cores(con[p]) \cup Cores(conext[p]) : SameKey(j, k) => j = k
    BY KeysApart DEF DomainInv
  <2>9. conext'[p] = (conext[p] \ Taken) \ Gone
    <3>1. conext'[p] = conext[p] \ (Taken \cup Gone)
      BY <1>0
    <3> HIDE DEF Taken, Gone
    <3> QED
      BY <3>1
  <2>10. Y = X \ Cores(Gone)
    <3> DEFINE S == conext[p] \ Taken
    <3>1. Gone \in SUBSET S /\ \A c, d \in S : c.id = d.id => c = d
      BY <2>6, <2>7
    <3> HIDE DEF S, Gone
    <3>2. Cores(S \ Gone) = Cores(S) \ Cores(Gone)
      BY <3>1, CoresMinus
    <3> QED
      BY <2>9, <3>2 DEF S
  <2>11. Cores(con'[p]) = L
    <3>1. con'[p] = (con[p] \ Out) \cup {Received(c, p) : c \in In}
      BY MigrateMeans
    <3>2. \A c \in In : c \in Constraint
      BY <2>2 DEF BaseInv, TypeInv, ConType
    <3>3. \A c \in In : Core(Received(c, p)) = Core(c)
      BY <3>2, ReceivedCore
    <3>4. Cores({Received(c, p) : c \in In}) = Cores(In)
      BY <3>3 DEF Cores
    <3> QED
      BY <3>1, <3>4, CoresUnion
  <2>12. bodcon'[p][b] =
           Without(AddRegular(Without(bodcon[p][b], Out \cup Taken, b), In, b), Gone, b)
    BY MigrateLists
  <2>13. ASSUME NEW g \in Cores(Gone)
         PROVE  g \in X /\ g \notin L
    <3>1. PICK x \in Gone : g = Core(x)
      BY DEF Cores
    <3>2. x \in conext[p] /\ x \notin Taken
      BY <2>6
    <3>3. g \in X
      BY <3>1, <3>2 DEF Cores
    <3>4. \A d \in con[p] : Core(d) # g
      BY <3>1, <3>2, RegularApart DEF DomainInv
    <3>5. \A c \in In : Core(c) # g
      <4>1. ASSUME NEW c \in In, Core(c) = Core(x)
            PROVE  FALSE
        <5>1. SameKey(x, c)
          BY <4>1, SameCore, CoreFacts
        <5> QED
          BY <2>4, <3>2, <5>1
      <4> QED
        BY <3>1, <4>1
    <3> QED
      BY <3>3, <3>4, <3>5 DEF Cores
  <2>14. ASSUME NEW c \in In, NEW d \in In, SameKey(c, d)
         PROVE  c = d
    <3>1. PICK q \in Rank : c \in con[q]
      BY <2>2
    <3>2. PICK s \in Rank : d \in con[s]
      BY <2>2
    <3> QED
      BY <2>14, <3>1, <3>2, LiveApart DEF DomainInv
  <2>15. \A j, k \in K \cup X : SameKey(j, k) => j = k
    <3>1. K \cup X \subseteq Cores(con[p]) \cup Cores(conext[p])
      BY DEF Cores
    <3> QED
      BY <2>8, <3>1
  <2> HIDE DEF Out, In, Taken, Gone, K, X, Y
  <2>16. AddRegular(Entries(K, X, b), In, b) = Entries(L, X, b)
    BY <2>5, AddEntries
  <2>17. ASSUME NEW j \in L \cup X, NEW k \in L \cup X, SameKey(j, k)
         PROVE  j = k
    <3>1. /\ j \in K \cup X \/ \E c \in In : j = Core(c)
          /\ k \in K \cup X \/ \E c \in In : k = Core(c)
      BY DEF Cores
    <3>2. CASE j \in K \cup X /\ k \in K \cup X
      BY <2>15, <2>17, <3>2
    <3>3. CASE \E c \in In : j = Core(c)
      <4>1. PICK c \in In : j = Core(c)
        BY <3>3
      <4>2. SameKey(k, c)
        BY <2>17, <4>1, CoreFacts
      <4>3. PICK d \in In : k = Core(d)
        BY <2>5, <3>1, <4>2
      <4>4. SameKey(c, d)
        BY <4>2, <4>3, CoreFacts
      <4> QED
        BY <2>14, <4>1, <4>3, <4>4
    <3>4. CASE j \in K \cup X /\ \E c \in In : k = Core(c)
      <4>1. PICK c \in In : k = Core(c)
        BY <3>4
      <4>2. SameKey(j, c)
        BY <2>17, <4>1, CoreFacts
      <4> QED
        BY <2>5, <3>4, <4>2
    <3> QED
      BY <3>1, <3>2, <3>3, <3>4
  <2> HIDE DEF L
  <2>18. Cores(Gone) \subseteq L \cup X /\ L = L \ Cores(Gone)
    BY <2>13
  <2>19. Without(Entries(L, X, b), Gone, b) = Entries(L, Y, b)
    BY <2>10, <2>17, <2>18, WithoutEntries
  <2> QED
    BY <2>1, <2>11, <2>12, <2>16, <2>19 DEF Y
<1> QED
  BY <1>1 DEF Listed

(* A constraint goes where the extents of its bodies reach, for the parent *)
(* of each of them knew its point.                                         *)
LEMMA DomainBalancingDomain ==
  ASSUME BaseInv, DomainInv, DomainBalancing
  PROVE  DomainInv'
<1>1. PICK part \in [Body -> Placement], dest \in [Live -> Rank] :
        /\ \A r \in Rank, b \in Body : IsParent(r, b) =>
             {dest[id] : id \in PointsInExtents(r, b)} \subseteq part[b].box
        /\ Migrate(part, dest)
  BY DEF DomainBalancing
<1>2. /\ phase = "balance" /\ phase' = "glue"
      /\ pending' = {}
      /\ UNCHANGED <<started, cid, sparebid>>
  BY DEF DomainBalancing
<1>3. CopyInv' /\ OneContactPerPair' /\ Listed'
  BY <1>1, <1>2, MigrateCopies, MigrateListed
<1>4. ASSUME NEW p \in Rank, NEW e \in con'[p]
      PROVE  \E q \in Rank : \E c \in con[q] :
               dest[c.id] = p /\ Bodies(e) = Bodies(c) /\ e.new = c.new
  <2>1. Moved(dest)
    BY <1>1, MigrateMoves
  <2>2. PICK q \in Rank : \E c \in con[q] :
          dest[c.id] = p /\ Core(e) = Core(c) /\ e.new = c.new
    BY <2>1 DEF Moved
  <2> QED
    BY <2>2, SameCore
<1>5. /\ StoreInv'
      /\ \A r \in Rank, b \in Body :
           IsStored(r, b) => /\ IsStored(r, b)'
                             /\ IsHeld(r, b)' <=> r \in part[b].box
  <2>1. body' = Placed(part)
    BY <1>1, MigrateMeans
  <2> QED
    BY <2>1, PlacedStore DEF DomainInv, BodyInv
<1>6. ASSUME NEW q \in Rank, NEW c \in con[q], NEW b \in Bodies(c)
      PROVE  /\ b \in Body
             /\ \A r \in Rank : IsStored(r, b)
             /\ dest[c.id] \in part[b].box
  <2>1. b \in Body
    BY BodiesType DEF BaseInv, TypeInv, ConType
  <2>2. \A r \in Rank : IsStored(r, b)
    BY DEF DomainInv, BodyInv, BodiesStored
  <2>3. ~ StoredNowhere(b)
    BY <2>2 DEF StoredNowhere
  <2>4. PICK h \in Rank : HeldFrom(h, b)
    BY <2>1, <2>3 DEF DomainInv, BodyInv, StoreInv
  <2>5. IsParent(h, b)
    BY <2>4 DEF HeldFrom
  <2>6. bodcon[h][b] = Entries(Cores(con[h]), Cores(conext[h]), b)
    BY <2>1 DEF DomainInv, Listed
  <2>7. CASE h = q
    <3>1. Core(c) \in Cores(con[h]) /\ b \in Bodies(Core(c))
      BY <2>7, CoreFacts DEF Cores
    <3>2. Entry(Core(c), FALSE) \in bodcon[h][b]
      BY <2>6, <3>1, Zenon DEF Entries
    <3>3. \A f : SameKey(Entry(Core(c), f), c)
      BY CoreFacts
    <3>4. \E e \in bodcon[h][b] : SameKey(e, c)
      BY <3>2, <3>3
    <3>5. c.id \in PointsInExtents(h, b)
      BY <3>4 DEF PointsInExtents, Ids, All
    <3> QED
      BY <1>1, <2>1, <2>2, <2>5, <3>5
  <2>8. CASE h \in c.ext
    <3>1. PICK x \in conext[h] : Core(x) = Core(c)
      BY <2>8, CopyOf DEF DomainInv
    <3>2. Bodies(x) = Bodies(c) /\ SameKey(x, c)
      BY <3>1, SameCore
    <3>3. Core(x) \in Cores(conext[h]) /\ b \in Bodies(Core(x))
      BY <3>2, CoreFacts DEF Cores
    <3>4. Entry(Core(x), TRUE) \in bodcon[h][b]
      BY <2>6, <3>3, Zenon DEF Entries
    <3>5. \A f : SameKey(Entry(Core(x), f), c)
      BY <3>2, CoreFacts
    <3>6. \E e \in bodcon[h][b] : SameKey(e, c)
      BY <3>4, <3>5
    <3>7. c.id \in PointsInExtents(h, b)
      BY <3>6 DEF PointsInExtents, Ids, All
    <3> QED
      BY <1>1, <2>1, <2>2, <2>5, <3>7
  <2>9. CASE c.id \in linked
    <3>1. c.id \in PointsInExtents(h, b)
      BY <2>9 DEF PointsInExtents, Ids, All
    <3> QED
      BY <1>1, <2>1, <2>2, <2>5, <3>1
  <2>10. h \in c.ext \cup {q} \/ c.id \in linked
    BY <1>2, <2>5 DEF DomainInv, ReachInv, ParentKnows
  <2> QED
    BY <2>7, <2>8, <2>9, <2>10
<1>7. BodyInv'
  <2>1. BodiesStored'
    <3>1. ASSUME NEW p \in Rank, NEW e \in con'[p], NEW b \in Bodies(e), NEW r \in Rank
          PROVE  IsStored(r, b)'
      BY <1>4, <1>5, <1>6
    <3> QED
      BY <1>2, <3>1 DEF BodiesStored
  <2> QED
    BY <1>2, <1>5, <2>1 DEF DomainInv, BodyInv, PendingInv, NoSpareBodies
<1>8. ReachInv'
  <2>1. NewInv'
    BY <1>2, <1>4 DEF DomainInv, ReachInv, NewInv
  <2>2. NoDummy'
    <3>1. ASSUME NEW p \in Rank, NEW e \in con'[p], NEW b \in Bodies(e)
          PROVE  IsHeld(p, b)'
      <4>1. PICK q \in Rank : \E c \in con[q] :
              dest[c.id] = p /\ Bodies(e) = Bodies(c)
        BY <1>4
      <4>2. PICK c \in con[q] : dest[c.id] = p /\ Bodies(e) = Bodies(c)
        BY <4>1
      <4>3. b \in Body /\ IsStored(p, b) /\ p \in part[b].box
        BY <1>6, <4>2
      <4> QED
        BY <1>5, <4>3
    <3> QED
      BY <3>1 DEF NoDummy
  <2> QED
    BY <1>2, <2>1, <2>2 DEF ReachInv, ExtInv, ParentKnows
<1>9. missed' = {}
  <2>1. ASSUME NEW p \in Rank, NEW c \in Coming(dest, p)
        PROVE  /\ p \in c.ext => c.id \in Ids(conext[p])
               /\ \A b \in Bodies(c) : IsStored(p, b)
    <3>1. PICK q \in Rank : c \in con[q]
      BY <1>1, MigrateMeans
    <3>2. ASSUME p \in c.ext
          PROVE  c.id \in Ids(conext[p])
      <4>1. PICK x \in conext[p] : Core(x) = Core(c)
        BY <3>1, <3>2, CopyOf DEF DomainInv
      <4> QED
        BY <4>1, SameCore DEF Ids
    <3> QED
      BY <1>6, <3>1, <3>2
  <2>2. \A p \in Rank : Arriving(remove, p) \subseteq Ids(conext[p])
    BY DEF DomainInv, CopyInv, RemovalsKnown, Ids
  <2> QED
    BY <1>1, <2>1, <2>2, MigrateFinds
<1> QED
  BY <1>3, <1>7, <1>8, <1>9 DEF DomainInv

-----------------------------------------------------------------------------
(* The invariant holds                                                     *)

LEMMA NextDomain ==
  ASSUME SafeCalls, BaseInv, DomainInv, [Next]_vars
  PROVE  DomainInv'
<1>1. CASE UNCHANGED vars
  <2>1. BodyInv' /\ ReachInv'
    BY <1>1, SameStore
    DEF vars, DomainInv, BodyInv, BodiesStored, PendingInv, NoSpareBodies, ReachInv,
        NewInv, ExtInv, ParentKnows, NoDummy, Filters, Needed, IsStored, IsParent, IsHeld
  <2>2. CopyInv'
    BY <1>1 DEF vars, DomainInv, CopyInv, Copied, Owned, RemovalsKnown, StaleApart,
                CopiesApart, BrokenOnly, Stale, Arriving
  <2>3. Listed' /\ OneContactPerPair' /\ missed' = {}
    BY <1>1 DEF vars, DomainInv, Listed, OneContactPerPair, All
  <2> QED
    BY <2>1, <2>2, <2>3 DEF DomainInv
<1>2. /\ "DELETE body" \notin LateCalls
      /\ "DELETE constraint" \notin LateCalls
  BY DEF SafeCalls
<1>3. ASSUME Local
      PROVE  DomainInv'
  <2>1. ASSUME NEW r \in Rank, NEW b \in Body
        PROVE  ~ DeleteBody(r, b)
    BY <1>2 DEF DeleteBody
  <2>2. ASSUME NEW r \in Rank, NEW c \in con[r]
        PROVE  ~ DeleteConstraint(r, c)
    BY <1>2 DEF DeleteConstraint
  <2> QED
    BY <1>3, <2>1, <2>2, FixPointDomain, OverlapCreateDomain, PutRigidLinkDomain,
       InsertPendingDomain DEF Local
<1>4. ASSUME Exchange
      PROVE  DomainInv'
  BY <1>4, UpdateConstraintsDomain, DomainBalancingDomain, OldBoundaryDomain,
     GluingBeginDomain, SparsifyDomain, UpdateEndDomain DEF Exchange
<1> QED
  BY <1>1, <1>3, <1>4 DEF Next

LEMMA BaseInvariant == Spec => []BaseInv
<1>1. Init => BaseInv
  BY InitType, InitIds DEF BaseInv
<1>2. BaseInv /\ [Next]_vars => BaseInv'
  <2>1. ASSUME BaseInv, UNCHANGED vars
        PROVE  IdInv'
    BY <2>1, SameIds DEF vars, BaseInv
  <2> QED
    BY <2>1, NextType, LocalIds, ExchangeIds DEF Next, BaseInv
<1> QED
  BY <1>1, <1>2, PTL DEF Spec

LEMMA DomainInvariant == ASSUME SafeCalls PROVE Spec => [](BaseInv /\ DomainInv)
<1>1. Init => DomainInv
  BY InitDomain
<1>2. BaseInv /\ DomainInv /\ [Next]_vars => DomainInv'
  BY NextDomain
<1> QED
  BY <1>1, <1>2, BaseInvariant, PTL DEF Spec

(* BodiesAgree: however bodies move between the ranks and are removed, a   *)
(* body has one parent, and the parent and the children name each other.   *)
THEOREM BodiesAgreeHolds == ASSUME SafeCalls PROVE Spec => []BodiesAgree
<1>1. DomainInv => BodiesAgree
  BY DEF DomainInv, BodyInv, StoreInv, StoredNowhere, HeldFrom, BodiesAgree
<1> QED
  BY <1>1, DomainInvariant, PTL

(* LookupsSucceed: no message of any exchange names a constraint, a copy   *)
(* or a body that its receiver does not have.                              *)
THEOREM LookupsSucceedHolds == ASSUME SafeCalls PROVE Spec => []LookupsSucceed
<1>1. DomainInv => LookupsSucceed
  BY DEF DomainInv, LookupsSucceed
<1> QED
  BY <1>1, DomainInvariant, PTL

(* NoDummy: the partitioning never sends a constraint to a rank that its   *)
(* bodies do not reach.                                                    *)
THEOREM NoDummyHolds == ASSUME SafeCalls PROVE Spec => []NoDummy
<1>1. DomainInv => NoDummy
  BY DEF DomainInv, ReachInv
<1> QED
  BY <1>1, DomainInvariant, PTL

(* OneContactPerPair: a pair of boxes that several ranks find is reported  *)
(* once, also when its constraint has moved to another rank since.         *)
THEOREM OneContactPerPairHolds == ASSUME SafeCalls PROVE Spec => []OneContactPerPair
<1>1. DomainInv => OneContactPerPair
  BY DEF DomainInv
<1> QED
  BY <1>1, DomainInvariant, PTL

LEMMA ListedOnHolders ==
  ASSUME BaseInv, DomainInv
  PROVE  OldConstraintsListed
<1>1. ASSUME phase \in {"detect", "sparsify", "solve"},
             NEW q \in Rank, NEW c \in con[q], ~ c.new,
             NEW b \in Bodies(c), NEW r \in Holders(b)
      PROVE  Entry(c, c \notin con[r]) \in bodcon[r][b]
  <2>1. Bodies(c) \subseteq Body /\ r \in Rank /\ IsHeld(r, b)
    BY BodiesType DEF BaseInv, TypeInv, ConType, Holders
  <2>2. bodcon[r][b] = Entries(Cores(con[r]), Cores(conext[r]), b)
    BY <2>1 DEF DomainInv, Listed
  <2>3. CASE r = q
    <3>1. Core(c) \in Cores(con[r]) /\ b \in Bodies(Core(c))
      BY <2>3, CoreFacts DEF Cores
    <3>2. Entry(Core(c), FALSE) \in bodcon[r][b]
      BY <2>2, <3>1, Zenon DEF Entries
    <3>3. \A f : Entry(Core(c), f) = Entry(c, f)
      BY CoreFacts
    <3>4. (c \notin con[r]) = FALSE
      BY <2>3
    <3> QED
      BY <3>2, <3>3, <3>4
  <2>4. CASE r # q
    <3>1. \A a \in Bodies(c) : IsHeld(q, a)
      BY <1>1 DEF DomainInv, ReachInv, NoDummy
    <3>2. c.ext = Needed(q, c)
      BY <1>1 DEF DomainInv, ReachInv, ExtInv
    <3>3. r \in c.ext
      BY <2>1, <2>4, <3>1, <3>2, NeededHolders DEF DomainInv, BodyInv
    <3>4. PICK x \in conext[r] : Core(x) = Core(c)
      BY <2>1, <3>3, CopyOf DEF DomainInv
    <3>5. Core(c) \in Cores(conext[r]) /\ b \in Bodies(Core(c))
      BY <3>4, CoreFacts DEF Cores
    <3>6. Entry(Core(c), TRUE) \in bodcon[r][b]
      BY <2>2, <3>5, Zenon DEF Entries
    <3>7. \A f : Entry(Core(c), f) = Entry(c, f)
      BY CoreFacts
    <3>8. (c \notin con[r]) = TRUE
      BY <2>1, <2>4, LiveApart DEF DomainInv
    <3> QED
      BY <3>6, <3>7, <3>8
  <2> QED
    BY <2>3, <2>4
<1> QED
  BY <1>1 DEF OldConstraintsListed, All

(* OldConstraintsListed: detection and the local dynamics find all old     *)
(* constraints of a body on every rank that holds it, whoever owns them.   *)
THEOREM OldConstraintsListedHolds ==
  ASSUME SafeCalls PROVE Spec => []OldConstraintsListed
<1>1. BaseInv /\ DomainInv => OldConstraintsListed
  BY ListedOnHolders
<1> QED
  BY <1>1, DomainInvariant, PTL

LEMMA CopiesMatchOwners ==
  ASSUME BaseInv, DomainInv
  PROVE  CopiesMatch
<1>1. ASSUME phase = "solve", NEW p \in Rank
      PROVE  conext[p] = UNION {{Copy(c, q) : c \in {d \in con[q] : p \in d.ext}} :
                                  q \in Rank}
  <2>1. Arriving(remove, p) = {}
    BY <1>1 DEF BaseInv, TypeInv, RemoveType, NothingToRemove, Arriving
  <2>2. ASSUME NEW x \in conext[p]
        PROVE  \E q \in Rank : \E c \in con[q] : p \in c.ext /\ x = Copy(c, q)
    BY <1>1, <2>1, CopiesLive
  <2>3. ASSUME NEW q \in Rank, NEW c \in con[q], p \in c.ext
        PROVE  Copy(c, q) \in conext[p]
    <3>1. PICK x \in conext[p] : Core(x) = Core(c) /\ x.rank = q
      BY <1>1, <2>3 DEF DomainInv, CopyInv, Copied
    <3>2. x \in CopyType
      BY DEF BaseInv, TypeInv, ConextType
    <3> QED
      BY <3>1, <3>2, CopyIsCore
  <2> QED
    BY <2>2, <2>3
<1> QED
  BY <1>1 DEF CopiesMatch

(* CopiesMatch: when the constraints are solved, the copies on a rank are  *)
(* those that the owners send reactions to.                                *)
THEOREM CopiesMatchHolds == ASSUME SafeCalls PROVE Spec => []CopiesMatch
<1>1. BaseInv /\ DomainInv => CopiesMatch
  BY CopiesMatchOwners
<1> QED
  BY <1>1, DomainInvariant, PTL

LEMMA RowsCouple ==
  ASSUME BaseInv, DomainInv
  PROVE  RowsComplete
<1>1. ASSUME phase = "solve", NEW r \in Rank, NEW c \in con[r]
      PROVE  /\ \A b \in Bodies(c) : \A e \in bodcon[r][b] :
                  \E d \in All : b \in Bodies(d) /\ d.id = e.id
             /\ \A d \in All : \A b \in Bodies(c) \cap Bodies(d) :
                  \E e \in bodcon[r][b] : d.id = e.id
  <2>1. Arriving(remove, r) = {}
    BY <1>1 DEF BaseInv, TypeInv, RemoveType, NothingToRemove, Arriving
  <2>2. ASSUME NEW b \in Bodies(c), NEW e \in bodcon[r][b]
        PROVE  \E d \in All : b \in Bodies(d) /\ d.id = e.id
    <3>1. b \in Body
      BY BodiesType DEF BaseInv, TypeInv, ConType
    <3>2. bodcon[r][b] = Entries(Cores(con[r]), Cores(conext[r]), b)
      BY <3>1 DEF DomainInv, Listed
    <3>3. PICK k \in Cores(con[r]) \cup Cores(conext[r]), f \in BOOLEAN :
            b \in Bodies(k) /\ e = Entry(k, f)
      BY <3>2 DEF Entries
    <3>4. e.id = k.id
      BY <3>3, CoreFacts
    <3>5. PICK x \in con[r] \cup conext[r] : k = Core(x)
      BY DEF Cores
    <3>6. \E d \in All : Core(d) = Core(x)
      <4>1. CASE x \in con[r]
        BY <4>1 DEF All
      <4>2. CASE x \in conext[r]
        BY <2>1, <4>2, CopiesLive DEF All
      <4> QED
        BY <4>1, <4>2
    <3>7. PICK d \in All : Core(d) = Core(x)
      BY <3>6
    <3>8. Bodies(d) = Bodies(k) /\ d.id = k.id
      <4>1. Bodies(k) = Bodies(x) /\ k.id = x.id
        BY <3>5, CoreFacts
      <4> QED
        BY <3>7, <4>1, SameCore
    <3> QED
      BY <3>3, <3>4, <3>8
  <2>3. ASSUME NEW d \in All, NEW b \in Bodies(c) \cap Bodies(d)
        PROVE  \E e \in bodcon[r][b] : d.id = e.id
    <3>1. PICK q \in Rank : d \in con[q]
      BY DEF All
    <3>2. ~ d.new
      BY <1>1, <3>1 DEF DomainInv, ReachInv, NewInv
    <3>3. r \in Holders(b)
      BY <1>1 DEF DomainInv, ReachInv, NoDummy, Holders
    <3>4. OldConstraintsListed
      BY ListedOnHolders
    <3>5. Entry(d, d \notin con[r]) \in bodcon[r][b]
      BY <1>1, <3>2, <3>3, <3>4 DEF OldConstraintsListed
    <3> QED
      BY <3>5 DEF Entry
  <2> QED
    BY <2>2, <2>3
<1>2. ASSUME phase = "solve", NEW r \in Rank, NEW c \in con[r]
      PROVE  Row(r, c) = {d.id : d \in {x \in All :
                                   Bodies(x) \cap Bodies(c) # {}}} \ {c.id}
  BY <1>1, <1>2 DEF Row
<1> QED
  BY <1>2 DEF RowsComplete

(* RowsComplete: the local dynamics couple a constraint with all others    *)
(* that act on its bodies, on whichever ranks they are, and with no other. *)
THEOREM RowsCompleteHolds == ASSUME SafeCalls PROVE Spec => []RowsComplete
<1>1. BaseInv /\ DomainInv => RowsComplete
  BY RowsCouple
<1> QED
  BY <1>1, DomainInvariant, PTL

-----------------------------------------------------------------------------
(* The ranks together implement a domain without ranks                     *)

Kept == Cores(All)
GoneBodies == {b \in Body : StoredNowhere(b)}

LEMMA SerialCreates ==
  ASSUME NEW k, Kept' = Kept \cup {k}, k \notin Kept, GoneBodies' = GoneBodies,
         \A d \in Kept : d.id # k.id,
         Bodies(k) \cap GoneBodies = {},
         IsContact(k) => \A d \in Kept : IsContact(d) => Bodies(d) # Bodies(k)
  PROVE  Serial!Next
<1>1. Serial!Create(k)
  BY DEF Serial!Create, Serial!Bodies, Serial!IsContact, Kept, GoneBodies, Cores, Core,
         StoredNowhere, Bodies, IsContact
<1>2. k \in Serial!New
  BY DEF Serial!New, Kept, Cores, Core
<1> QED
  BY <1>1, <1>2 DEF Serial!Next

LEMMA SerialVanishes ==
  ASSUME Kept' \subseteq Kept, \A k \in Kept \ Kept' : IsContact(k), GoneBodies' = GoneBodies
  PROVE  Serial!Next
<1>1. Serial!Vanish
  BY DEF Serial!Vanish, Serial!IsContact, Kept, GoneBodies, Cores, Core, StoredNowhere,
         IsContact
<1> QED
  BY <1>1 DEF Serial!Next

LEMMA SerialRemoves ==
  ASSUME NEW X \in SUBSET (Body \ GoneBodies), GoneBodies' = GoneBodies \cup X, Kept' \subseteq Kept,
         \A k \in Kept' : Bodies(k) \cap X = {},
         \A k \in Kept \ Kept' : IsContact(k) => Bodies(k) \cap X # {}
  PROVE  Serial!Next
<1>1. Serial!Remove(X)
  BY DEF Serial!Remove, Serial!Bodies, Serial!IsContact, Kept, GoneBodies, Cores, Core,
         StoredNowhere, Bodies, IsContact
<1>2. X \in SUBSET (Body \ {b \in Body : \A r \in Rank : ~ IsStored(r, b)})
  BY DEF GoneBodies, StoredNowhere
<1> QED
  BY <1>1, <1>2 DEF Serial!Next

LEMMA InsertRefines ==
  ASSUME BaseInv, DomainInv', NEW r \in Rank, NEW c, Insert(r, c), body' = body
  PROVE  Serial!Next
<1>1. \A q \in Rank : con'[q] = IF q = r THEN con[r] \cup {c} ELSE con[q]
  BY DEF Insert, BaseInv, TypeInv, ConType
<1>2. \A d \in All : d.id # c.id
  BY NewIdFree DEF All, Insert
<1>3. All' = All \cup {c} /\ c \in con'[r]
  BY <1>1 DEF All
<1>4. Kept' = Kept \cup {Core(c)}
  BY <1>3 DEF Kept, Cores
<1>5. GoneBodies' = GoneBodies
  BY DEF GoneBodies, StoredNowhere, IsStored
<1>6. Bodies(c) \cap GoneBodies = {}
  <2>1. \A b \in Bodies(c) : IsStored(r, b)'
    BY <1>3 DEF DomainInv, BodyInv, BodiesStored
  <2> QED
    BY <2>1 DEF GoneBodies, StoredNowhere, IsStored
<1>7. ASSUME NEW d \in All, IsContact(c), IsContact(d), Bodies(d) = Bodies(c)
      PROVE  FALSE
  BY <1>2, <1>3, <1>7 DEF DomainInv, OneContactPerPair
<1>8. /\ \A k \in Kept : k.id # Core(c).id
      /\ Core(c) \notin Kept
      /\ IsContact(Core(c)) =>
           \A k \in Kept : IsContact(k) => Bodies(k) # Bodies(Core(c))
  <2>1. ASSUME NEW k \in Kept
        PROVE  \E d \in All : /\ k = Core(d) /\ k.id = d.id /\ Bodies(k) = Bodies(d)
                              /\ IsContact(k) <=> IsContact(d)
    <3>1. PICK d \in All : k = Core(d)
      BY DEF Kept, Cores
    <3> QED
      BY <3>1, CoreFacts
  <2>2. /\ Core(c).id = c.id /\ Bodies(Core(c)) = Bodies(c)
        /\ IsContact(Core(c)) <=> IsContact(c)
    BY CoreFacts
  <2>3. \A k \in Kept : k.id # Core(c).id
    BY <1>2, <2>1, <2>2
  <2>4. ASSUME NEW k \in Kept, IsContact(Core(c)), IsContact(k),
               Bodies(k) = Bodies(Core(c))
        PROVE  FALSE
    <3>1. PICK d \in All : Bodies(k) = Bodies(d) /\ (IsContact(k) <=> IsContact(d))
      BY <2>1
    <3> QED
      BY <1>7, <2>2, <2>4, <3>1
  <2> QED
    BY <2>3, <2>4
<1>9. Bodies(Core(c)) \cap GoneBodies = {}
  BY <1>6, CoreFacts
<1> QED
  BY <1>4, <1>5, <1>8, <1>9, SerialCreates

(* Constraints that are only relabelled or moved stay the same outside.    *)
LEMMA SameKept ==
  ASSUME \A r \in Rank : \A e \in con'[r] : \E q \in Rank : \E c \in con[q] :
           Core(e) = Core(c),
         \A q \in Rank : \A c \in con[q] : \E r \in Rank : \E e \in con'[r] :
           Core(e) = Core(c)
  PROVE  Kept' = Kept
<1>1. \A e \in All' : \E c \in All : Core(e) = Core(c)
  BY DEF All
<1>2. \A c \in All : \E e \in All' : Core(e) = Core(c)
  BY DEF All
<1> QED
  BY <1>1, <1>2 DEF Kept, Cores

(* Of the constraints, those of D go; the others are relabelled at most.   *)
LEMMA KeptWithout ==
  ASSUME BaseInv, OneContactPerPair, NEW D, \A r \in Rank : D[r] \subseteq con[r],
         \A r \in Rank : \A e \in con'[r] : \E c \in con[r] \ D[r] : Core(e) = Core(c),
         \A r \in Rank : \A c \in con[r] \ D[r] : \E e \in con'[r] : Core(e) = Core(c)
  PROVE  /\ Kept' \subseteq Kept
         /\ \A k \in Kept \ Kept' : \E r \in Rank : \E c \in D[r] : k = Core(c)
         /\ \A k \in Kept' : \E r \in Rank : \E c \in con[r] \ D[r] : k = Core(c)
<1>1. ASSUME NEW k \in Kept'
      PROVE  \E r \in Rank : \E c \in con[r] \ D[r] : k = Core(c)
  <2>1. PICK e \in All' : k = Core(e)
    BY DEF Kept, Cores
  <2>2. PICK r \in Rank : e \in con'[r]
    BY DEF All
  <2> QED
    BY <2>1, <2>2
<1>2. ASSUME NEW k \in Kept, k \notin Kept'
      PROVE  \E r \in Rank : \E c \in D[r] : k = Core(c)
  <2>1. PICK c \in All : k = Core(c)
    BY DEF Kept, Cores
  <2>2. PICK r \in Rank : c \in con[r]
    BY DEF All
  <2>3. CASE c \notin D[r]
    <3>1. PICK e \in con'[r] : Core(e) = Core(c)
      BY <2>2, <2>3
    <3> QED
      BY <1>2, <2>1, <3>1 DEF Kept, Cores, All
  <2> QED
    BY <2>1, <2>2, <2>3
<1>3. \A k : (\E r \in Rank : \E c \in con[r] : k = Core(c)) => k \in Kept
  BY DEF Kept, Cores, All
<1> QED
  BY <1>1, <1>2, <1>3

LEMMA UpdateConstraintsRefines ==
  ASSUME BaseInv, DomainInv, UpdateConstraints
  PROVE  Serial!Next
<1>1. PICK ids \in SUBSET Ids({c \in All : IsContact(c)}) :
        RemoveRegular([r \in Rank |-> {c \in con[r] : c.id \in ids}])
  BY DEF UpdateConstraints
<1> DEFINE D == [r \in Rank |-> {c \in con[r] : c.id \in ids}]
<1>2. \A r \in Rank : con'[r] = con[r] \ D[r]
  BY <1>1 DEF RemoveRegular
<1>3. ASSUME NEW r \in Rank, NEW c \in D[r]
      PROVE  c \in con[r] /\ IsContact(c)
  <2>1. c \in con[r] /\ c.id \in ids
    OBVIOUS
  <2>2. PICK d \in All : IsContact(d) /\ d.id = c.id
    BY <2>1 DEF Ids
  <2>3. PICK q \in Rank : d \in con[q]
    BY DEF All
  <2>4. c = d
    BY <2>1, <2>2, <2>3, LiveApart DEF DomainInv
  <2> QED
    BY <2>1, <2>2, <2>4
<1> HIDE DEF D
<1>4. /\ Kept' \subseteq Kept
      /\ \A k \in Kept \ Kept' : \E r \in Rank : \E c \in D[r] : k = Core(c)
  <2>1. \A r \in Rank : D[r] \subseteq con[r]
    BY <1>3
  <2>2. \A r \in Rank : \A e \in con'[r] : \E c \in con[r] \ D[r] : Core(e) = Core(c)
    BY <1>2
  <2>3. \A r \in Rank : \A c \in con[r] \ D[r] : \E e \in con'[r] : Core(e) = Core(c)
    BY <1>2
  <2> QED
    BY <2>1, <2>2, <2>3, KeptWithout DEF DomainInv
<1>5. ASSUME NEW k \in Kept \ Kept'
      PROVE  IsContact(k)
  <2>1. PICK r \in Rank : \E c \in D[r] : k = Core(c)
    BY <1>4
  <2>2. PICK c \in D[r] : k = Core(c)
    BY <2>1
  <2> QED
    BY <1>3, <2>2, CoreFacts
<1>6. GoneBodies' = GoneBodies
  BY DEF UpdateConstraints, GoneBodies, StoredNowhere, IsStored
<1> QED
  BY <1>4, <1>5, <1>6, SerialVanishes

LEMMA SparsifyRefines ==
  ASSUME BaseInv, DomainInv, Sparsify
  PROVE  Serial!Next
<1>1. PICK ids \in SUBSET Ids({c \in All : c.new}) :
        LET D == [r \in Rank |-> {c \in con[r] : c.id \in ids}]
        IN  con' = [r \in Rank |-> {[c EXCEPT !.new = FALSE] : c \in con[r] \ D[r]}]
  BY DEF Sparsify
<1> DEFINE D == [r \in Rank |-> {c \in con[r] : c.id \in ids}]
           Old(c) == [c EXCEPT !.new = FALSE]
<1>2. \A r \in Rank : con'[r] = {Old(c) : c \in con[r] \ D[r]}
  BY <1>1
<1>3. ASSUME NEW r \in Rank, NEW c \in D[r]
      PROVE  c \in con[r] /\ IsContact(c)
  <2>1. c \in con[r] /\ c.id \in ids
    OBVIOUS
  <2>2. PICK d \in All : d.new /\ d.id = c.id
    BY <2>1 DEF Ids
  <2>3. PICK q \in Rank : d \in con[q]
    BY DEF All
  <2>4. c = d
    BY <2>1, <2>2, <2>3, LiveApart DEF DomainInv
  <2> QED
    BY <2>1, <2>2, <2>4 DEF DomainInv, ReachInv, NewInv
<1>4. \A r \in Rank : \A c \in con[r] : Core(Old(c)) = Core(c)
  BY RelabelCore DEF BaseInv, TypeInv, ConType
<1> HIDE DEF D, Old
<1>5. /\ Kept' \subseteq Kept
      /\ \A k \in Kept \ Kept' : \E r \in Rank : \E c \in D[r] : k = Core(c)
  <2>1. \A r \in Rank : D[r] \subseteq con[r]
    BY <1>3
  <2>2. \A r \in Rank : \A e \in con'[r] : \E c \in con[r] \ D[r] : Core(e) = Core(c)
    BY <1>2, <1>4
  <2>3. \A r \in Rank : \A c \in con[r] \ D[r] : \E e \in con'[r] : Core(e) = Core(c)
    BY <1>2, <1>4
  <2> QED
    BY <2>1, <2>2, <2>3, KeptWithout DEF DomainInv
<1>6. ASSUME NEW k \in Kept \ Kept'
      PROVE  IsContact(k)
  <2>1. PICK r \in Rank : \E c \in D[r] : k = Core(c)
    BY <1>5
  <2>2. PICK c \in D[r] : k = Core(c)
    BY <2>1
  <2> QED
    BY <1>3, <2>2, CoreFacts
<1>7. GoneBodies' = GoneBodies
  BY DEF Sparsify, GoneBodies, StoredNowhere, IsStored
<1> QED
  BY <1>5, <1>6, <1>7, SerialVanishes

LEMMA DomainBalancingRefines ==
  ASSUME BaseInv, DomainInv, DomainBalancing
  PROVE  Kept' = Kept /\ GoneBodies' = GoneBodies
<1>1. PICK part \in [Body -> Placement], dest \in [Live -> Rank] : Migrate(part, dest)
  BY DEF DomainBalancing
<1>2. Moved(dest)
  BY <1>1, MigrateMoves
<1>3. Kept' = Kept
  <2>1. \A r \in Rank : \A e \in con'[r] : \E q \in Rank : \E c \in con[q] :
          Core(e) = Core(c)
    BY <1>2 DEF Moved
  <2>2. ASSUME NEW q \in Rank, NEW c \in con[q]
        PROVE  \E r \in Rank : \E e \in con'[r] : Core(e) = Core(c)
    <3>1. dest[c.id] \in Rank
      BY DEF Live, All, Ids
    <3> QED
      BY <1>2, <3>1 DEF Moved
  <2> QED
    BY <2>1, <2>2, SameKept
<1>4. ASSUME NEW b \in Body
      PROVE  StoredNowhere(b)' <=> StoredNowhere(b)
  <2>1. body' = Placed(part)
    BY <1>1, MigrateMeans
  <2>2. ASSUME NEW r \in Rank, IsStored(r, b)
        PROVE  IsStored(r, b)'
    BY <2>1, <2>2, PlacedStore DEF DomainInv, BodyInv
  <2>3. ASSUME NEW r \in Rank, ~ IsStored(r, b)
        PROVE  ~ IsStored(r, b)'
    <3>1. body'[r][b] = Removed
      BY <2>1, <2>3 DEF Placed
    <3> QED
      BY <3>1 DEF IsStored, Removed
  <2> QED
    BY <2>2, <2>3 DEF StoredNowhere
<1> QED
  BY <1>3, <1>4 DEF GoneBodies

LEMMA GluingRefines ==
  ASSUME BaseInv, OldBoundary \/ GluingBegin
  PROVE  Kept' = Kept /\ GoneBodies' = GoneBodies
<1>1. ASSUME NEW r \in Rank
      PROVE  /\ \A e \in con'[r] : \E c \in con[r] : Core(e) = Core(c)
             /\ \A c \in con[r] : \E e \in con'[r] : Core(e) = Core(c)
  <2>1. PICK f : con'[r] = {[c EXCEPT !.ext = f[c]] : c \in con[r]}
    <3>1. CASE OldBoundary
      <4> DEFINE g == [c \in con[r] |-> Needed(r, c)]
      <4>1. con'[r] = {[c EXCEPT !.ext = Needed(r, c)] : c \in con[r]}
        BY <3>1 DEF OldBoundary
      <4>2. con'[r] = {[c EXCEPT !.ext = g[c]] : c \in con[r]}
        BY <4>1
      <4> HIDE DEF g
      <4> QED
        BY <4>2
    <3>2. CASE GluingBegin
      <4> DEFINE g == [c \in con[r] |-> IF c.new THEN c.ext \cup Needed(r, c) ELSE c.ext]
      <4>1. con'[r] = {[c EXCEPT !.ext = IF c.new THEN @ \cup Needed(r, c) ELSE @] :
                         c \in con[r]}
        BY <3>2 DEF GluingBegin
      <4>2. con'[r] = {[c EXCEPT !.ext = g[c]] : c \in con[r]}
        BY <4>1 DEF BaseInv, TypeInv, ConType, Constraint
      <4> HIDE DEF g
      <4> QED
        BY <4>2
    <3> QED
      BY <3>1, <3>2
  <2>2. \A c \in con[r] : Core([c EXCEPT !.ext = f[c]]) = Core(c)
    BY RelabelCore DEF BaseInv, TypeInv, ConType
  <2> QED
    BY <2>1, <2>2
<1>2. Kept' = Kept
  BY <1>1, SameKept
<1>3. GoneBodies' = GoneBodies
  BY DEF OldBoundary, GluingBegin, GoneBodies, StoredNowhere, IsStored
<1> QED
  BY <1>2, <1>3

LEMMA UpdateEndRefines ==
  ASSUME BaseInv, DomainInv, UpdateEnd
  PROVE  Serial!Next
<1>1. PICK fallen \in SUBSET {b \in Body : \E r \in Rank : IsParent(r, b)},
           ids \in SUBSET Ids({c \in All : MayBreak(c)}) :
        LET spare   == fallen \cup UNION {sparebid[r] : r \in Rank}
            X       == [r \in Rank |-> {b \in spare : IsStored(r, b)}]
            G       == [r \in Rank |-> RegularOn(r, X[r])]
            D       == [r \in Rank |-> {c \in con[r] \ G[r] : c.id \in ids}]
        IN  /\ RemoveRegular([r \in Rank |-> G[r] \cup D[r]])
            /\ body' = [r \in Rank |-> [b \in Body |->
                          IF b \in spare THEN Removed ELSE body[r][b]]]
  BY DEF UpdateEnd
<1> DEFINE spare == fallen \cup UNION {sparebid[r] : r \in Rank}
           X     == [r \in Rank |-> {b \in spare : IsStored(r, b)}]
           G     == [r \in Rank |-> RegularOn(r, X[r])]
           D     == [r \in Rank |-> {c \in con[r] \ G[r] : c.id \in ids}]
           GD    == [r \in Rank |-> G[r] \cup D[r]]
<1>2. /\ \A r \in Rank : con'[r] = con[r] \ (G[r] \cup D[r])
      /\ \A r \in Rank, b \in Body :
           body'[r][b] = IF b \in spare THEN Removed ELSE body[r][b]
  BY <1>1 DEF RemoveRegular
<1>3. /\ \A r \in Rank : GD[r] = G[r] \cup D[r]
      /\ \A r \in Rank : \A c \in D[r] : c \in con[r] /\ c.id \in ids
  OBVIOUS
<1>4. ASSUME NEW b \in fallen, NEW r \in Rank
      PROVE  IsStored(r, b)
  <2>1. PICK p \in Rank : IsParent(p, b)
    OBVIOUS
  <2>2. HeldFrom(p, b)
    BY <2>1, ParentHolds DEF DomainInv, BodyInv
  <2> QED
    BY <2>2 DEF HeldFrom
<1>5. spare = fallen /\ fallen \in SUBSET Body /\ \A r \in Rank : X[r] = fallen
  <2>1. \A r \in Rank : sparebid[r] = {}
    BY DEF DomainInv, BodyInv, NoSpareBodies
  <2> QED
    BY <1>4, <2>1
<1>6. \A r \in Rank : G[r] = {c \in con[r] : Bodies(c) \cap fallen # {}}
  <2>1. ASSUME NEW r \in Rank
        PROVE  RegularOn(r, fallen) = {c \in con[r] : Bodies(c) \cap fallen # {}}
    BY <1>5, OnBodiesMeans DEF DomainInv
  <2> HIDE DEF X
  <2> QED
    BY <1>5, <2>1
<1> HIDE DEF spare, X, G, D, GD
<1>7. ASSUME NEW r \in Rank, NEW c \in D[r]
      PROVE  ~ IsContact(c)
  <2>1. PICK d \in All : MayBreak(d) /\ d.id = c.id
    BY <1>3 DEF Ids
  <2>2. PICK q \in Rank : d \in con[q]
    BY DEF All
  <2>3. c = d
    BY <1>3, <2>1, <2>2, LiveApart DEF DomainInv
  <2> QED
    BY <2>1, <2>3 DEF MayBreak, IsContact
<1>8. /\ Kept' \subseteq Kept
      /\ \A k \in Kept \ Kept' : \E r \in Rank : \E c \in GD[r] : k = Core(c)
      /\ \A k \in Kept' : \E r \in Rank : \E c \in con[r] \ GD[r] : k = Core(c)
  <2>1. \A r \in Rank : GD[r] \subseteq con[r]
    BY <1>3, <1>6
  <2>2. \A r \in Rank : con'[r] = con[r] \ GD[r]
    BY <1>2, <1>3
  <2>3. \A r \in Rank : \A e \in con'[r] : \E c \in con[r] \ GD[r] : Core(e) = Core(c)
    BY <2>2
  <2>4. \A r \in Rank : \A c \in con[r] \ GD[r] : \E e \in con'[r] : Core(e) = Core(c)
    BY <2>2
  <2> QED
    BY <2>1, <2>3, <2>4, KeptWithout DEF DomainInv
<1>9. ASSUME NEW k \in Kept'
      PROVE  Bodies(k) \cap fallen = {}
  <2>1. PICK r \in Rank : \E c \in con[r] \ GD[r] : k = Core(c)
    BY <1>8
  <2>2. PICK c \in con[r] : c \notin GD[r] /\ k = Core(c)
    BY <2>1
  <2>3. Bodies(c) \cap fallen = {}
    BY <1>3, <1>6, <2>2
  <2> QED
    BY <2>2, <2>3, CoreFacts
<1>10. ASSUME NEW k \in Kept \ Kept', IsContact(k)
       PROVE  Bodies(k) \cap fallen # {}
  <2>1. PICK r \in Rank : \E c \in GD[r] : k = Core(c)
    BY <1>8
  <2>2. PICK c \in GD[r] : k = Core(c)
    BY <2>1
  <2>3. IsContact(c)
    BY <1>10, <2>2, CoreFacts
  <2>4. Bodies(c) \cap fallen # {}
    BY <1>3, <1>6, <1>7, <2>2, <2>3
  <2> QED
    BY <2>2, <2>4, CoreFacts
<1>11. GoneBodies' = GoneBodies \cup fallen
  <2>1. ASSUME NEW b \in Body
        PROVE  StoredNowhere(b)' <=> StoredNowhere(b) \/ b \in fallen
    BY <1>2, <1>5 DEF StoredNowhere, IsStored, Removed
  <2> QED
    BY <1>5, <2>1 DEF GoneBodies
<1>12. fallen \in SUBSET (Body \ GoneBodies)
  <2>1. 0 \in Rank
    BY RankFacts
  <2> QED
    BY <1>4, <1>5, <2>1 DEF GoneBodies, StoredNowhere
<1> QED
  BY <1>8, <1>9, <1>10, <1>11, <1>12, SerialRemoves

LEMMA NextRefines ==
  ASSUME SafeCalls, BaseInv, DomainInv, [Next]_vars
  PROVE  Serial!Next \/ (Kept' = Kept /\ GoneBodies' = GoneBodies)
<1>1. CASE UNCHANGED vars
  BY <1>1 DEF vars, Kept, Cores, Core, All, GoneBodies, StoredNowhere, IsStored
<1>2. DomainInv'
  BY NextDomain
<1>3. /\ "DELETE body" \notin LateCalls
      /\ "DELETE constraint" \notin LateCalls
  BY DEF SafeCalls
<1>4. ASSUME Local
      PROVE  Serial!Next \/ (Kept' = Kept /\ GoneBodies' = GoneBodies)
  <2>1. ASSUME NEW r \in Rank, NEW b \in Body, FixPoint(r, b)
        PROVE  Serial!Next
    BY <1>2, <2>1, InsertRefines DEF FixPoint
  <2>2. ASSUME NEW r \in Rank, NEW a \in Body, NEW b \in Body, OverlapCreate(r, a, b)
        PROVE  Serial!Next
    BY <1>2, <2>2, InsertRefines DEF OverlapCreate
  <2>3. ASSUME NEW r \in Rank, NEW l \in pending, InsertPending(r, l)
        PROVE  Serial!Next
    BY <1>2, <2>3, InsertRefines DEF InsertPending
  <2>4. ASSUME NEW m \in Body, NEW s \in Body, PutRigidLink(m, s)
        PROVE  Kept' = Kept /\ GoneBodies' = GoneBodies
    BY <2>4 DEF PutRigidLink, Kept, Cores, Core, All, GoneBodies, StoredNowhere,
                IsStored
  <2>5. ASSUME NEW r \in Rank, NEW b \in Body
        PROVE  ~ DeleteBody(r, b)
    BY <1>3 DEF DeleteBody
  <2>6. ASSUME NEW r \in Rank, NEW c \in con[r]
        PROVE  ~ DeleteConstraint(r, c)
    BY <1>3 DEF DeleteConstraint
  <2> QED
    BY <1>4, <2>1, <2>2, <2>3, <2>4, <2>5, <2>6 DEF Local
<1>5. ASSUME Exchange
      PROVE  Serial!Next \/ (Kept' = Kept /\ GoneBodies' = GoneBodies)
  BY <1>5, UpdateConstraintsRefines, DomainBalancingRefines, GluingRefines,
     SparsifyRefines, UpdateEndRefines DEF Exchange
<1> QED
  BY <1>1, <1>4, <1>5 DEF Next

(* SerialSpec: seen from outside, the ranks keep one set of constraints,   *)
(* and each step does to it what a step of a serial domain does: bodies    *)
(* and constraints that migrate, copies that are glued and removed and     *)
(* messages in between are steps in which nothing happens.                 *)
THEOREM DomainRefinesSerial == ASSUME SafeCalls PROVE Spec => SerialSpec
<1>1. Init => Serial!Init
  <2>1. ASSUME Init
        PROVE  All = {} /\ \A b \in Body : \E r \in Rank : IsStored(r, b)
    <3>1. All = {}
      BY <2>1 DEF Init, All
    <3>2. \A r \in Rank, b \in Body :
            body[r][b] = IF b % ncpu = r THEN Parent(r, {}) ELSE Dummy
      BY <2>1 DEF Init
    <3>3. \A r \in Rank, b \in Body : IsStored(r, b)
      <4>1. \A r : Parent(r, {}).flag # "REMOVED" /\ Dummy.flag # "REMOVED"
        BY DEF Parent, Dummy
      <4> QED
        BY <3>2, <4>1 DEF IsStored
    <3> QED
      BY <3>1, <3>3, RankFacts
  <2> QED
    BY <2>1 DEF Serial!Init
<1>2. BaseInv /\ DomainInv /\ [Next]_vars
        => [Serial!Next]_<<{[id |-> c.id, kind |-> c.kind, master |-> c.master,
                             slave |-> c.slave] : c \in All},
                           {b \in Body : \A r \in Rank : ~ IsStored(r, b)}>>
  BY NextRefines DEF Kept, Cores, Core, GoneBodies, StoredNowhere
<1> QED
  BY <1>1, <1>2, DomainInvariant, PTL DEF Spec, SerialSpec, Serial!Spec
=============================================================================
