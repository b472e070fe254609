---------------------------- MODULE SerialDomain ----------------------------
(***************************************************************************)
(* What the constraints of the domain go through, with no ranks (the       *)
(* serial build of src/dom.c).  Module Domain is shown to implement it.    *)
(***************************************************************************)
EXTENDS Naturals

CONSTANT Body

VARIABLES
  cons,  \* the constraints, dom->con
  gone   \* bodies that were removed

Bodies(c) == {c.master, c.slave} \ {0}
IsContact(c) == c.kind = "CONTACT"

Init == cons = {} /\ gone = {}

(* insert, after contact_exists for a contact.                             *)
Create(c) ==
  /\ \A d \in cons : d.id # c.id
  /\ Bodies(c) \cap gone = {}
  /\ IsContact(c) =>
       \A d \in cons : IsContact(d) => Bodies(d) # Bodies(c)
  /\ cons' = cons \cup {c}
  /\ UNCHANGED gone

(* Contacts vanish when they are updated or sparsified.                    *)
Vanish ==
  /\ cons' \subseteq cons
  /\ \A c \in cons \ cons' : IsContact(c)
  /\ UNCHANGED gone

(* Bodies are removed with all that is attached to them; constraints other *)
(* than contacts break or are deleted.                                     *)
Remove(X) ==
  /\ gone' = gone \cup X
  /\ cons' \subseteq cons
  /\ \A c \in cons' : Bodies(c) \cap X = {}
  /\ \A c \in cons \ cons' : IsContact(c) => Bodies(c) \cap X # {}

New == cons' \ cons

Next ==
  \/ \E c \in New : Create(c)
  \/ Vanish
  \/ \E X \in SUBSET (Body \ gone) : Remove(X)

Spec == Init /\ [][Next]_<<cons, gone>>
=============================================================================
