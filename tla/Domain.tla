------------------------------- MODULE Domain -------------------------------
(***************************************************************************)
(* Bodies and constraints of the parallel domain (src/dom.c, MPI build     *)
(* without LOCAL_BODIES).  Every rank stores all bodies; a body is parent  *)
(* on one rank, child on the ranks its extents overlap, dummy elsewhere.   *)
(* A constraint is regular on one rank and has external copies on the      *)
(* other ranks that hold one of its bodies.                                *)
(*                                                                         *)
(* A time step is a sequence of collective exchanges with local work in    *)
(* between, which touches the data of its rank only; phase names the part  *)
(* all ranks are in.  Local work that packs for an exchange is one step    *)
(* with it; insertions stay local steps in any order.                      *)
(***************************************************************************)
EXTENDS Integers, FiniteSets

CONSTANTS
  ncpu,       \* number of ranks
  nbody,      \* number of bodies
  MaxCid,     \* bound: constraint ids are at most this (UINT_MAX in the code)
  MaxCon,     \* bound: constraints that exist at a time
  Strengths,  \* strengths passed to FIX_POINT and PUT_RIGID_LINK
  Breaking,   \* TRUE if a reaction may exceed a finite strength
  Loose,      \* FALSE: bound, extents overlap no rank that the boxes do not
  LateCalls   \* script calls made from callbacks after the first step

ASSUME DomainAssumption ==
  /\ ncpu \in Nat \ {0}
  /\ nbody \in Nat
  /\ MaxCid \in Nat
  /\ MaxCon \in Nat
  /\ Strengths \subseteq {"FINITE", "DBL_MAX"}
  /\ Breaking \in BOOLEAN
  /\ Loose \in BOOLEAN
  /\ LateCalls \subseteq {"FIX_POINT", "PUT_RIGID_LINK", "DELETE body",
                          "DELETE constraint"}

VARIABLES
  phase,     \* the part of the time step
  started,   \* a step was made
  body,      \* body[r][b]: flags, rank and children of b as stored at r
  con,       \* con[r]: the list of regular constraints, dom->con
  conext,    \* conext[r]: the map of external constraints, dom->conext
  bodcon,    \* bodcon[r][b]: bod->con, all constraints known to act on b
  remove,    \* remove[r][q]: ids of copies at q to be removed, dbd[q].remove
  cid,       \* cid[r]: the next constraint id, dom->cid
  sparecid,  \* sparecid[r]: ids to be used again
  sparebid,  \* sparebid[r]: bodies removed at r only
  pending,   \* pendingcons, the same on all ranks
  linked,    \* ids of the constraints inserted from pendingcons in this step
  shape,     \* shape[b]: ranks that the boxes of b overlap (box->ranks)
  missed     \* lookups by id that found nothing

vars == <<phase, started, body, con, conext, bodcon, remove, cid, sparecid,
          sparebid, pending, linked, shape, missed>>

Rank == 0 .. ncpu - 1
Body == 1 .. nbody
Cid  == 1 .. MaxCid

Phases == {"callback", "balance", "glue", "detect", "sparsify", "solve"}

-----------------------------------------------------------------------------
(* Constraints and the sets they are kept in                               *)

Bodies(c) == {c.master, c.slave} \ {0}

IsContact(c) == c.kind = "CONTACT"

(* constraint_compare = 0: the sets bod->con hold no two such constraints. *)
SameKey(c, d) ==
  IF IsContact(c) THEN IsContact(d) /\ Bodies(c) = Bodies(d)
                  ELSE ~ IsContact(d) /\ c.id = d.id

(* The element a regular or external constraint is in bod->con.            *)
Entry(c, external) ==
  [id |-> c.id, kind |-> c.kind, master |-> c.master, slave |-> c.slave,
   external |-> external]

(* SET_Insert leaves an equal element alone, SET_Delete takes it out.      *)
With(list, S, b, external) ==
  list \cup {Entry(c, external) : c \in
               {d \in S : b \in Bodies(d) /\ \A e \in list : ~ SameKey(e, d)}}
Without(list, S, b) ==
  {e \in list : \A c \in S : b \in Bodies(c) => ~ SameKey(e, c)}

Ids(S)  == {c.id : c \in S}
All     == UNION {con[r] : r \in Rank}
Live    == Ids(All)

Copy(c, r) == [id |-> c.id, kind |-> c.kind, master |-> c.master,
               slave |-> c.slave, rank |-> r]

-----------------------------------------------------------------------------
(* Bodies                                                                  *)

(* rank and children are only read while a body is a parent or a child.    *)
Parent(r, S)   == [flag |-> "PARENT", rank |-> r, children |-> S]
Child(r, S)    == [flag |-> "CHILD", rank |-> r, children |-> S]
Dummy          == [flag |-> "DUMMY", rank |-> 0, children |-> {}]
Removed        == [flag |-> "REMOVED", rank |-> 0, children |-> {}]

IsParent(r, b) == body[r][b].flag = "PARENT"
IsHeld(r, b)   == body[r][b].flag \in {"PARENT", "CHILD"}
IsStored(r, b) == body[r][b].flag # "REMOVED"

-----------------------------------------------------------------------------
(* Removal of constraints                                                  *)

(* DOM_Remove_Constraint of the regular constraints D[r] of every rank.    *)
RemoveRegular(D) ==
  /\ con' = [r \in Rank |-> con[r] \ D[r]]
  /\ sparecid' = [r \in Rank |-> sparecid[r] \cup Ids(D[r])]

(* (mutant: the copies are forgotten)                                      *)
ExtToRemoveNone(D) == remove

(* (mutant: copies are assumed on all ranks)                               *)
ExtToRemoveAll(D) ==
  [r \in Rank |-> [q \in Rank |->
     IF q = r THEN remove[r][q] ELSE remove[r][q] \cup Ids(D[r])]]

(* ext_to_remove: the removals the ranks have scheduled once D[r] is gone. *)
ExtToRemove(D) ==
  [r \in Rank |-> [q \in Rank |->
     remove[r][q] \cup Ids({c \in D[r] : q \in c.ext})]]

NothingToRemove == [r \in Rank |-> [q \in Rank |-> {}]]

(* Ids that arrive at p with the removals rem, and those unknown there.    *)
Arriving(rem, p) == UNION {rem[q][p] : q \in Rank}
Unknown(p, S, copies) == {<<p, id>> : id \in S \ Ids(copies)}

(* Copies that the owners' updates look up, and those that are not there.  *)
Addressed(p) == Ids({c \in All : p \in c.ext})
LookedUp == UNION {Unknown(p, Addressed(p), conext[p]) : p \in Rank}

-----------------------------------------------------------------------------
(* Insertion of constraints                                                *)

NewId(r) == IF sparecid[r] = {} THEN cid[r]
            ELSE CHOOSE i \in sparecid[r] : \A j \in sparecid[r] : i <= j

(* Bounds of the model: n more constraints can be inserted on rank r.      *)
Room(r, n) ==
  /\ Cardinality(All) + n <= MaxCon
  /\ n <= Cardinality(sparecid[r]
            \cup {i \in Cid : i >= cid[r] /\ (i - cid[r]) % ncpu = 0})

(* insert: c joins the list and the sets of its bodies under a new id.     *)
Insert(r, c) ==
  /\ Room(r, 1)
  /\ c.id = NewId(r)
  /\ con' = [con EXCEPT ![r] = @ \cup {c}]
  /\ bodcon' = [bodcon EXCEPT ![r] =
                  [b \in Body |-> With(@[b], {c}, b, FALSE)]]
  /\ sparecid' = [sparecid EXCEPT ![r] = @ \ {c.id}]
  /\ cid' = [cid EXCEPT ![r] = IF sparecid[r] = {} THEN @ + ncpu ELSE @]

NewConstraint(r, kind, m, s, strength) ==
  [id |-> NewId(r), kind |-> kind, master |-> m, slave |-> s, ext |-> {},
   new |-> kind = "CONTACT", given |-> strength, strength |-> strength]

Allowed(call) == started => call \in LateCalls

(* FIX_POINT from the script, on the rank where the body is a parent.      *)
FixPoint(r, b) ==
  /\ phase = "callback"
  /\ Allowed("FIX_POINT")
  /\ IsParent(r, b)
  /\ Room(r, Cardinality(pending) + 1)
  /\ \E strength \in Strengths :
       Insert(r, NewConstraint(r, "FIXPNT", b, 0, strength))
  /\ UNCHANGED <<phase, started, body, conext, remove, sparebid, pending,
                 linked, shape, missed>>

(* PUT_RIGID_LINK: every rank keeps the link for the next balancing.       *)
PutRigidLink(m, s) ==
  /\ phase = "callback"
  /\ Allowed("PUT_RIGID_LINK")
  /\ m # s
  /\ \A r \in Rank : IsStored(r, m) /\ IsStored(r, s)
  /\ \A r \in Rank : IsParent(r, m) => Room(r, Cardinality(pending) + 1)
  /\ \E strength \in Strengths :
       pending' = pending \cup {[master |-> m, slave |-> s,
                                 strength |-> strength]}
  /\ UNCHANGED <<phase, started, body, con, conext, bodcon, remove, cid,
                 sparecid, sparebid, linked, shape, missed>>

(* insert_pending_constraints, where the master is a parent.               *)
InsertPending(r, p) ==
  /\ phase = "balance"
  /\ p \in pending
  /\ IsParent(r, p.master)
  /\ Insert(r, NewConstraint(r, "RIGLNK", p.master, p.slave, p.strength))
  /\ linked' = linked \cup {NewId(r)}
  /\ pending' = pending \ {p}
  /\ UNCHANGED <<phase, started, body, conext, remove, sparebid, shape,
                 missed>>

-----------------------------------------------------------------------------
(* DELETE from the script                                                  *)

(* DOM_Remove_Body of X[r]: constraints on a body are found in bod->con.   *)
OnBodies(r, X, c, external) ==
  \E b \in X : \E e \in bodcon[r][b] : e.id = c.id /\ e.external = external
(* (mutant: constraints whose slave is the body are left)                  *)
RegularOnMaster(r, X) == {c \in con[r] : c.master \in X}
RegularOn(r, X)  == {c \in con[r] : OnBodies(r, X, c, FALSE)}
ExternalOn(r, X) == {c \in conext[r] : OnBodies(r, X, c, TRUE)}

(* The set of constraints of b once the bodies X are removed on r.         *)
Cleared(r, X, b) ==
  IF b \in X THEN {}
  ELSE Without(bodcon[r][b], RegularOn(r, X) \cup ExternalOn(r, X), b)

(* A link that is still pending would keep a pointer to the body: left out. *)
DeleteBody(r, b) ==
  /\ phase = "callback"
  /\ \A p \in pending : b \notin {p.master, p.slave}
  /\ started /\ "DELETE body" \in LateCalls
  /\ IsParent(r, b)
  /\ RemoveRegular([q \in Rank |-> IF q = r THEN RegularOn(r, {b}) ELSE {}])
  /\ conext' = [conext EXCEPT ![r] = @ \ ExternalOn(r, {b})]
  /\ bodcon' = [bodcon EXCEPT ![r] = [a \in Body |-> Cleared(r, {b}, a)]]
  /\ body' = [body EXCEPT ![r][b] = Removed]
  /\ sparebid' = [sparebid EXCEPT ![r] = @ \cup {b}]
  /\ UNCHANGED <<phase, started, remove, cid, pending, linked, shape, missed>>

(* The object is found by ID_TO_CONSTRAINT on its owner.                   *)
DeleteConstraint(r, c) ==
  /\ phase = "callback"
  /\ started /\ "DELETE constraint" \in LateCalls
  /\ c \in con[r] /\ ~ IsContact(c)
  /\ RemoveRegular([q \in Rank |-> IF q = r THEN {c} ELSE {}])
  /\ bodcon' = [bodcon EXCEPT ![r] =
                  [b \in Body |-> Without(@[b], {c}, b)]]
  /\ UNCHANGED <<phase, started, body, conext, remove, cid, sparebid,
                 pending, linked, shape, missed>>

-----------------------------------------------------------------------------
(* DOM_Update_Begin: update of the constraints                             *)

(* Contacts that vanished are removed, here and later where copies are;    *)
(* then the points of the others are sent to their external copies.        *)
UpdateConstraints ==
  /\ phase = "callback"
  /\ \E ids \in SUBSET Ids({c \in All : IsContact(c)}) :
       LET D == [r \in Rank |-> {c \in con[r] : c.id \in ids}]
       IN  /\ RemoveRegular(D)
           /\ remove' = ExtToRemove(D)
           /\ bodcon' = [r \in Rank |-> [b \in Body |->
                           Without(bodcon[r][b], D[r], b)]]
           /\ missed' = {m \in LookedUp : m[2] \notin ids}
  /\ phase' = "balance"
  /\ UNCHANGED <<started, body, conext, cid, sparebid, pending, linked, shape>>

-----------------------------------------------------------------------------
(* domain_balancing                                                        *)

(* Zoltan gives a body the rank of the middle of its extents, a constraint *)
(* that of its point, and tells which ranks the extents overlap; shape     *)
(* stands for the part of these that the boxes of the body overlap.        *)
Placement ==
  {p \in [rank : Rank, shape : SUBSET Rank, box : SUBSET Rank] :
     /\ p.rank \in p.box
     /\ p.shape # {} /\ p.shape \subseteq p.box
     /\ Loose \/ p.shape = p.box}

(* (mutant: points of constraints are left out of the extents)             *)
PointsInExtentsOwn(r, b) == {c.id : c \in {d \in con[r] : b \in Bodies(d)}}

(* BODY_Update_Extents and insert_pending_constraints: the parent of b     *)
(* merges these constraints' points into its extents.                      *)
PointsInExtents(r, b) ==
  Ids({c \in All : /\ b \in Bodies(c)
                   /\ c.id \in linked \/ \E e \in bodcon[r][b] : SameKey(e, c)})

(* (mutant: the new owner stays among the ranks that hold copies)          *)
ReceivedExt(c, p) ==
  [c EXCEPT !.strength = IF c.kind = "FIXPNT" THEN "ZERO" ELSE @]

(* What pack_constraint keeps: STRENGTH (Z) of a fixed point is not sent.  *)
Received(c, p) ==
  [c EXCEPT !.ext = @ \ {p},
            !.strength = IF c.kind = "FIXPNT" THEN "ZERO" ELSE @]

(* (mutant: the id of a migrating constraint is not locked)                *)
FreedByPackingAll(D) == Ids(D)
(* CON_IDLOCK: the id of a migrating constraint is not freed.              *)
FreedByPacking(D) == {}

(* (mutant: the new parent's rank stays in the children set)               *)
ChildRanksAll(p) == p.box
(* children_migration_begin                                                *)
ChildRanks(p) == p.box \ {p.rank}

(* Parents and children arrive, children that got no update are dummies.   *)
Placed(part) ==
  [p \in Rank |-> [b \in Body |->
     IF ~ IsStored(p, b) THEN Removed
     ELSE IF \A q \in Rank : ~ IsParent(q, b) THEN Dummy
     ELSE IF p = part[b].rank THEN Parent(p, ChildRanks(part[b]))
     ELSE IF p \in ChildRanks(part[b])
          THEN Child(part[b].rank, ChildRanks(part[b]) \ {p})
     ELSE Dummy]]

(* First exchange: parents, children, constraints and scheduled removals.  *)
(* unpack_constraint removes the copy the regular constraint replaces.     *)
Migrate(part, dest) ==
  LET Out   == [r \in Rank |-> {c \in con[r] : dest[c.id] # r}]
      In    == [p \in Rank |-> UNION {{c \in con[q] : dest[c.id] = p} :
                                        q \in Rank \ {p}}]
      Taken == [p \in Rank |-> {x \in conext[p] :
                  \E c \in In[p] : p \in c.ext /\ c.id = x.id}]
      Gone  == [p \in Rank |-> {x \in conext[p] :
                  x.id \in Arriving(remove, p)}]
  IN  /\ body' = Placed(part)
      /\ con' = [p \in Rank |->
                   (con[p] \ Out[p]) \cup {Received(c, p) : c \in In[p]}]
      /\ sparecid' = [p \in Rank |-> sparecid[p] \cup FreedByPacking(Out[p])]
      /\ conext' = [p \in Rank |-> conext[p] \ (Taken[p] \cup Gone[p])]
      /\ bodcon' = [p \in Rank |-> [b \in Body |->
           LET kept == Without(bodcon[p][b], Out[p] \cup Taken[p], b)
           IN  Without(With(kept, In[p], b, FALSE), Gone[p], b)]]
      /\ remove' = NothingToRemove
      /\ missed' = UNION {
           Unknown(p, Ids({c \in In[p] : p \in c.ext}), conext[p])
             \cup Unknown(p, Arriving(remove, p), conext[p])
             \cup {<<p, c.id>> : c \in {d \in In[p] :
                     \E b \in Bodies(d) : ~ IsStored(p, b)}} : p \in Rank}

DomainBalancing ==
  /\ phase = "balance"
  /\ \A p \in pending, r \in Rank : ~ IsParent(r, p.master)
  /\ \E part \in [Body -> Placement] :
       \E dest \in [Live -> Rank] :
         /\ \A r \in Rank, b \in Body : IsParent(r, b) =>
              {dest[id] : id \in PointsInExtents(r, b)} \subseteq part[b].box
         /\ Migrate(part, dest)
         /\ shape' = [b \in Body |-> part[b].shape]
  /\ pending' = {}
  /\ linked' = {}
  /\ phase' = "glue"
  /\ UNCHANGED <<started, cid, sparebid>>

(* (mutant: slave bodies are not looked at)                                *)
NeededMaster(r, c) ==
  body[r][c.master].children
    \cup (IF body[r][c.master].flag = "CHILD"
          THEN {body[r][c.master].rank} ELSE {})

(* (mutant: the parent is forgotten where the body is a child)             *)
NeededChildren(r, c) == UNION {body[r][b].children : b \in Bodies(c)}

(* The ranks where copies of c are needed: those that hold its bodies.     *)
Needed(r, c) ==
  (UNION {body[r][b].children : b \in Bodies(c)})
    \cup {body[r][b].rank : b \in {a \in Bodies(c) :
                                     body[r][a].flag = "CHILD"}}

(* Second exchange: copies are sent to ranks that newly need them, updated *)
(* where they are and removed where they are not needed any more.          *)
OldBoundary ==
  /\ phase = "glue"
  /\ LET Glued   == [p \in Rank |-> UNION {{Copy(c, q) :
                       c \in {d \in con[q] : p \in Needed(q, d) \ d.ext}} :
                         q \in Rank}]
         Updated == [p \in Rank |-> UNION {{Copy(c, q) :
                       c \in {d \in con[q] : p \in Needed(q, d) \cap d.ext}} :
                         q \in Rank}]
         rem     == [r \in Rank |-> [q \in Rank |->
                       Ids({c \in con[r] : q \in c.ext \ Needed(r, c)})]]
         added   == [p \in Rank |-> {x \in Glued[p] :
                                       x.id \notin Ids(conext[p])}]
         there   == [p \in Rank |->
                       {x \in conext[p] : x.id \notin Ids(Updated[p])}
                         \cup {x \in Updated[p] : x.id \in Ids(conext[p])}
                         \cup added[p]]
         gone    == [p \in Rank |-> {x \in there[p] :
                                       x.id \in Arriving(rem, p)}]
     IN  /\ con' = [r \in Rank |->
                      {[c EXCEPT !.ext = Needed(r, c)] : c \in con[r]}]
         /\ conext' = [p \in Rank |-> there[p] \ gone[p]]
         /\ bodcon' = [p \in Rank |-> [b \in Body |->
              Without(With(bodcon[p][b], Glued[p], b, TRUE), gone[p], b)]]
         /\ missed' = UNION {
              Unknown(p, Ids(Updated[p]) \cup Arriving(rem, p),
                      conext[p] \cup added[p])
                \cup {<<p, x.id>> : x \in {y \in Glued[p] :
                        \E b \in Bodies(y) : ~ IsStored(p, b)}} : p \in Rank}
  /\ phase' = "detect"
  /\ UNCHANGED <<started, body, remove, cid, sparecid, sparebid, pending,
                 linked, shape>>

-----------------------------------------------------------------------------
(* Contact detection                                                       *)

(* (mutant: overlaps are reported on every rank that finds them)           *)
FiltersAll(r, a, b) == TRUE
(* local_create: the lowest common rank of the two boxes reports.          *)
Filters(r, a, b) == \A q \in shape[a] \cap shape[b] : r <= q

(* overlap_create of a pair of boxes, unless contact_exists.               *)
OverlapCreate(r, a, b) ==
  /\ phase = "detect"
  /\ a # b /\ IsHeld(r, a) /\ IsHeld(r, b)
  /\ r \in shape[a] \cap shape[b]
  /\ Filters(r, a, b)
  /\ LET c == NewConstraint(r, "CONTACT", a, b, "DBL_MAX")
     IN  /\ \A e \in bodcon[r][a] : ~ SameKey(e, c)
         /\ Insert(r, c)
  /\ UNCHANGED <<phase, started, body, conext, remove, sparebid, pending,
                 linked, shape, missed>>

(* domain_gluing_begin: new contacts are sent to all that hold a body.     *)
GluingBegin ==
  /\ phase = "detect"
  /\ LET Glued == [p \in Rank |-> UNION {{Copy(c, q) :
                     c \in {d \in con[q] : d.new /\ p \in Needed(q, d)}} :
                       q \in Rank}]
     IN  /\ con' = [r \in Rank |->
                      {[c EXCEPT !.ext = IF c.new THEN @ \cup Needed(r, c)
                                         ELSE @] : c \in con[r]}]
         /\ conext' = [p \in Rank |-> conext[p] \cup
              {x \in Glued[p] : x.id \notin Ids(conext[p])}]
         /\ bodcon' = [p \in Rank |-> [b \in Body |->
              With(bodcon[p][b], Glued[p], b, TRUE)]]
  /\ shape' = [b \in Body |-> {}]  \* not read before the next balancing
  /\ phase' = "sparsify"
  /\ UNCHANGED <<started, body, remove, cid, sparecid, sparebid, pending,
                 linked, missed>>

(* sparsify_contacts and domain_gluing_end: some new contacts are removed  *)
(* together with their copies, the others join the local dynamics.         *)
Sparsify ==
  /\ phase = "sparsify"
  /\ \E ids \in SUBSET Ids({c \in All : c.new}) :
       LET D    == [r \in Rank |-> {c \in con[r] : c.id \in ids}]
           rem  == ExtToRemove(D)
           Gone == [p \in Rank |-> {x \in conext[p] :
                                      x.id \in Arriving(rem, p)}]
       IN  /\ con' = [r \in Rank |->
                        {[c EXCEPT !.new = FALSE] : c \in con[r] \ D[r]}]
           /\ sparecid' = [r \in Rank |-> sparecid[r] \cup Ids(D[r])]
           /\ conext' = [p \in Rank |-> conext[p] \ Gone[p]]
           /\ bodcon' = [p \in Rank |-> [b \in Body |->
                           Without(bodcon[p][b], D[p] \cup Gone[p], b)]]
           /\ missed' = UNION {Unknown(p, Arriving(rem, p), conext[p]) :
                                 p \in Rank}
  /\ remove' = NothingToRemove
  /\ phase' = "solve"
  /\ UNCHANGED <<started, body, cid, sparebid, pending, linked, shape>>

-----------------------------------------------------------------------------
(* DOM_Update_End                                                          *)

MayBreak(c) ==
  c.kind \in {"FIXPNT", "RIGLNK"} /\ Breaking /\ c.strength # "DBL_MAX"

(* After the solution R, U and V are sent to the copies.  Then bodies that *)
(* left the extents of the scene are removed by their parents and, once    *)
(* manage_bodies has told everybody, on all ranks; last, constraints whose *)
(* strength is exceeded are removed, their copies in the next balancing.   *)
UpdateEnd ==
  /\ phase = "solve"
  /\ missed' = LookedUp
  /\ \E fallen \in SUBSET {b \in Body : \E r \in Rank : IsParent(r, b)},
        ids \in SUBSET Ids({c \in All : MayBreak(c)}) :
       LET spare   == fallen \cup UNION {sparebid[r] : r \in Rank}
           X       == [r \in Rank |-> {b \in spare : IsStored(r, b)}]
           G       == [r \in Rank |-> RegularOn(r, X[r])]
           D       == [r \in Rank |-> {c \in con[r] \ G[r] : c.id \in ids}]
       IN  /\ RemoveRegular([r \in Rank |-> G[r] \cup D[r]])
           /\ remove' = ExtToRemove(D)
           /\ conext' = [r \in Rank |-> conext[r] \ ExternalOn(r, X[r])]
           /\ bodcon' = [r \in Rank |-> [b \in Body |->
                           Without(Cleared(r, X[r], b), D[r], b)]]
           /\ body' = [r \in Rank |-> [b \in Body |->
                         IF b \in spare THEN Removed ELSE body[r][b]]]
  /\ sparebid' = [r \in Rank |-> {}]
  /\ started' = TRUE
  /\ phase' = "callback"
  /\ UNCHANGED <<cid, pending, linked, shape>>

-----------------------------------------------------------------------------

(* DOM_Insert_Body has been called for all bodies on all ranks.            *)
Init ==
  /\ phase = "callback"
  /\ started = FALSE
  /\ body = [r \in Rank |-> [b \in Body |->
               IF b % ncpu = r THEN Parent(r, {}) ELSE Dummy]]
  /\ con = [r \in Rank |-> {}]
  /\ conext = [r \in Rank |-> {}]
  /\ bodcon = [r \in Rank |-> [b \in Body |-> {}]]
  /\ remove = NothingToRemove
  /\ cid = [r \in Rank |-> r + 1]
  /\ sparecid = [r \in Rank |-> {}]
  /\ sparebid = [r \in Rank |-> {}]
  /\ pending = {}
  /\ linked = {}
  /\ shape = [b \in Body |-> {}]
  /\ missed = {}

Local ==
  \/ \E r \in Rank, b \in Body :
       \/ FixPoint(r, b)
       \/ DeleteBody(r, b)
       \/ \E a \in Body : OverlapCreate(r, a, b)
  \/ \E m, s \in Body : PutRigidLink(m, s)
  \/ \E r \in Rank : \E p \in pending : InsertPending(r, p)
  \/ \E r \in Rank : \E c \in con[r] : DeleteConstraint(r, c)

Exchange ==
  \/ UpdateConstraints
  \/ DomainBalancing
  \/ OldBoundary
  \/ GluingBegin
  \/ Sparsify
  \/ UpdateEnd

(* A failed lookup is a NULL dereference: the program ends there.          *)
Next == missed = {} /\ (Local \/ Exchange)

Spec == Init /\ [][Next]_vars

-----------------------------------------------------------------------------
Constraint ==
  [id : Nat \ {0}, kind : {"CONTACT", "FIXPNT", "RIGLNK"}, master : Body,
   slave : Body \cup {0}, ext : SUBSET Rank, new : BOOLEAN,
   given : {"FINITE", "DBL_MAX"}, strength : {"FINITE", "DBL_MAX", "ZERO"}]

(* Types of the domain's data.  A rank is never among the other ranks that *)
(* hold copies of its constraints, and removals are pending only until the *)
(* exchange that sends them.                                               *)
TypeOK ==
  /\ phase \in Phases
  /\ started \in BOOLEAN
  /\ body \in [Rank -> [Body ->
       [flag : {"PARENT", "CHILD", "DUMMY", "REMOVED"}, rank : Rank,
        children : SUBSET Rank]]]
  /\ con \in [Rank -> SUBSET Constraint]
  /\ \A r \in Rank : \A c \in con[r] : r \notin c.ext
  /\ conext \in [Rank -> SUBSET
       [id : Nat \ {0}, kind : {"CONTACT", "FIXPNT", "RIGLNK"},
        master : Body, slave : Body \cup {0}, rank : Rank]]
  /\ bodcon \in [Rank -> [Body -> SUBSET
       [id : Nat \ {0}, kind : {"CONTACT", "FIXPNT", "RIGLNK"},
        master : Body, slave : Body \cup {0}, external : BOOLEAN]]]
  /\ remove \in [Rank -> [Rank -> SUBSET (Nat \ {0})]]
  /\ phase \notin {"callback", "balance"} => remove = NothingToRemove
  /\ cid \in [Rank -> Nat \ {0}]
  /\ sparecid \in [Rank -> SUBSET (Nat \ {0})]
  /\ sparebid \in [Rank -> SUBSET Body]
  /\ pending \subseteq [master : Body, slave : Body, strength : Strengths]
  /\ linked \subseteq Nat \ {0}
  /\ shape \in [Body -> SUBSET Rank]

(* No constraint id is ever held twice, on one rank or on two: ids are     *)
(* dealt out by rank and freed for use again on whichever rank a           *)
(* constraint happens to die.                                              *)
IdsUnique ==
  \A r, q \in Rank :
    /\ \A c \in con[r] : \A d \in con[q] : c.id = d.id => r = q /\ c = d
    /\ Ids(con[r]) \cap sparecid[q] = {}
    /\ r # q => sparecid[r] \cap sparecid[q] = {}
    /\ cid[q] \notin Ids(con[r]) \cup sparecid[r]

(* "Invalid constraint id", "Invalid body id": no message ever names a     *)
(* constraint or a body its receiver does not have.                        *)
LookupsSucceed == missed = {}

Holders(b) == {r \in Rank : IsHeld(r, b)}

(* The parent and the children of a body know of each other: the stored    *)
(* ranks are those that hold the body.                                     *)
BodiesAgree ==
  \A b \in Body : (\E r \in Rank : IsStored(r, b)) =>
    \E p \in Rank :
      /\ \A r \in Rank : IsParent(r, b) <=> r = p
      /\ \A r \in Holders(b) :
           /\ body[r][b].rank = p
           /\ body[r][b].children = Holders(b) \ {r, p}

(* "Regular constraint attached to a dummy": a constraint never ends up on *)
(* a rank that has no up to date state of its bodies.                      *)
NoDummy ==
  phase \in {"glue", "detect", "sparsify", "solve"} =>
    \A r \in Rank : \A c \in con[r] : \A b \in Bodies(c) : IsHeld(r, b)

(* "after this step all bodies contain sets of all old constraints": on    *)
(* every rank that holds a body, whoever owns the constraints.             *)
OldConstraintsListed ==
  phase \in {"detect", "sparsify", "solve"} =>
    \A c \in All : ~ c.new =>
      \A b \in Bodies(c) : \A r \in Holders(b) :
        Entry(c, c \notin con[r]) \in bodcon[r][b]

(* A constraint keeps the strength that the script gave it.                *)
StrengthKept == \A c \in All : c.strength = c.given

(* A pair of boxes that overlap is reported once, although several ranks   *)
(* find it: no two contacts of one pair anywhere in the domain.            *)
OneContactPerPair ==
  \A c, d \in All :
    IsContact(c) /\ IsContact(d) /\ Bodies(c) = Bodies(d) => c.id = d.id

(* When the constraints are solved, the external copies on a rank are      *)
(* exactly those the owners send reactions to, of the right constraint.    *)
CopiesMatch ==
  phase = "solve" =>
    \A p \in Rank :
      conext[p] = UNION {{Copy(c, q) : c \in {d \in con[q] : p \in d.ext}} :
                           q \in Rank}

(* The rows of W: what the block of c is coupled to, regular constraints   *)
(* and external ones met in the sets of its bodies (compute_adjext).       *)
Row(r, c) ==
  {e.id : e \in UNION {bodcon[r][b] : b \in Bodies(c)}} \ {c.id}

(* W couples exactly the constraints that share a body, on whichever ranks *)
(* they are; in particular it is symmetric, as module GaussSeidel assumes. *)
RowsComplete ==
  phase = "solve" =>
    \A r \in Rank : \A c \in con[r] :
      Row(r, c) = {d.id : d \in {x \in All :
                                   Bodies(x) \cap Bodies(c) # {}}} \ {c.id}
(* Seen from outside, the ranks together keep one set of constraints.      *)
Serial == INSTANCE SerialDomain WITH
  cons <- {[id |-> c.id, kind |-> c.kind, master |-> c.master,
            slave |-> c.slave] : c \in All},
  gone <- {b \in Body : \A r \in Rank : ~ IsStored(r, b)}

(* Distribution is invisible: balancing, gluing and the exchange of bodies *)
(* neither lose, nor double, nor change a constraint, and what a step does *)
(* to the constraints is what it does to those of a serial domain.         *)
SerialSpec == Serial!Spec
=============================================================================
