--------------------------- MODULE AddressSpaces ---------------------------
(***************************************************************************)
(* What the virtual memory manager promises, without page tables: a set of *)
(* address spaces, each a map from pages to frames.  A space made later    *)
(* has what the first, the kernel's, has in its upper regions at that      *)
(* time, and such a region is from then on one for both.  A region nobody  *)
(* had mapped by then is everyone's own.                                   *)
(***************************************************************************)
CONSTANTS
    Pages, RegionOf(_),     (* pages, and the region a page is in          *)
    UpperRegions,           (* those of the kernel's half                  *)
    FirstSpace, FirstView,  (* the kernel's space, and what boot maps      *)
    FirstShared,            (* the upper regions boot has pages in         *)
    Spaces, Places, Nowhere (* names of spaces; frames a page can be at    *)

VARIABLES
    view,     (* space -> page -> place, or Nowhere                        *)
    common    (* space -> the upper regions it has in common with the first *)

Init == view = [s \in {FirstSpace} |-> FirstView] /\ common = [s \in {FirstSpace} |-> FirstShared]

Existing == DOMAIN view

(* The spaces that see a change of page p made in space s. *)
Seeing(s, p) == {e \in Existing : \/ e = s
                                  \/ RegionOf(p) \in common[s] \cap common[e]}

NewSpace(s) ==
    /\ s \notin Existing
    /\ common' = [e \in Existing \cup {s} |-> IF e = s THEN common[FirstSpace] ELSE common[e]]
    /\ view' = [e \in Existing \cup {s} |->
                   IF e # s THEN view[e]
                   ELSE [p \in Pages |-> IF RegionOf(p) \in common[FirstSpace]
                                         THEN view[FirstSpace][p] ELSE Nowhere]]

(* Page p of space s is now at "place".  The first page the kernel maps in *)
(* an upper region makes that region common with the spaces made after.    *)
Change(s, p, place) ==
    /\ view'[s][p] = place
    /\ view' = [e \in Existing |-> IF e \in Seeing(s, p)
                                   THEN [view[e] EXCEPT ![p] = place] ELSE view[e]]
    /\ common' = IF s = FirstSpace /\ RegionOf(p) \in UpperRegions /\ place # Nowhere
                 THEN [common EXCEPT ![s] = @ \cup {RegionOf(p)}]
                 ELSE common

Next == \/ \E s \in Spaces : NewSpace(s)
        \/ \E s \in Existing, p \in Pages, place \in Places : Change(s, p, place)
        \/ \E s \in Existing, p \in Pages : Change(s, p, Nowhere)

Spec == Init /\ [][Next]_<<view, common>>
=============================================================================
