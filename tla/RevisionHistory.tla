--------------------------- MODULE RevisionHistory ---------------------------
(***************************************************************************)
(* What the branch manager promises, threads, locks and documents aside: a *)
(* branch is a sequence of committed revisions, which grows at its end     *)
(* only, by one revision at a time, and disappears only as a whole.  What  *)
(* has been committed never changes.                                       *)
(*                                                                         *)
(* A revision is a record with the "page" that names it, the page of the   *)
(* revision it was copied from ("base"), and its "edits".                  *)
(***************************************************************************)
EXTENDS Naturals, Sequences

CONSTANTS Branch, Page, NullPage, Revision

VARIABLES
  branchMap,  \* the branches that exist
  history     \* the committed revisions of each branch

Init ==
  /\ branchMap \subseteq Branch
  /\ history \in [Branch -> Seq(Revision)]

Committed == UNION {{history[b][i].page : i \in DOMAIN history[b]} : b \in branchMap}

Create(b) ==
  /\ b \in Branch \ branchMap
  /\ branchMap' = branchMap \cup {b}
  /\ UNCHANGED history

\* The new revision was copied from the one before it; the first one of a branch
\* from a revision of another branch; one that was reset, from none.
AppendRevision(b) ==
  LET h == history[b]
      r == history'[b][Len(h) + 1]
  IN
  /\ b \in branchMap
  /\ UNCHANGED branchMap
  /\ Len(history'[b]) = Len(h) + 1
  /\ r \in Revision /\ r.page \notin Committed
  /\ r.base \in {NullPage} \cup (IF h = <<>> THEN Committed ELSE {h[Len(h)].page})
  /\ history' = [history EXCEPT ![b] = Append(h, r)]

Remove(removed) ==
  /\ removed # {} /\ removed \subseteq branchMap
  /\ branchMap' = branchMap \ removed
  /\ history' = [b \in Branch |-> IF b \in removed THEN <<>> ELSE history[b]]

Next ==
  \/ \E b \in Branch : Create(b)
  \/ \E b \in Branch : AppendRevision(b)
  \/ \E removed \in SUBSET branchMap : Remove(removed)

Spec == Init /\ [][Next]_<<branchMap, history>>
=============================================================================
