---------------------------- MODULE PageOwnership ----------------------------
(***************************************************************************)
(* What the page allocator of a store promises, lists and counters aside:  *)
(* every page of the file is not born yet, free, or held by one writer; a  *)
(* writer gets pages nobody holds, and a page a writer holds changes hands *)
(* only because that writer gives it back.                                 *)
(***************************************************************************)
CONSTANTS Writers, Page, Free, Unborn

VARIABLE owner

Owner == Writers \cup {Free, Unborn}

Init == owner = [p \in Page |-> Unborn]

Changed == {p \in Page : owner'[p] # owner[p]}

\* w gets free pages; new pages may be created on the way, for w or not.
Acquire(w) ==
  /\ owner' \in [Page -> Owner]
  /\ \A p \in Changed :
       \/ owner[p] \in {Free, Unborn} /\ owner'[p] = w
       \/ owner[p] = Unborn /\ owner'[p] = Free

\* w gives back pages it holds.
Release(w) ==
  /\ owner' \in [Page -> Owner]
  /\ \A p \in Changed : owner[p] = w /\ owner'[p] = Free

Next == \E w \in Writers : Acquire(w) \/ Release(w)

Spec == Init /\ [][Next]_owner
=============================================================================
