-------------------------------- MODULE CowMap --------------------------------
(* What copy-on-write promises to the revisions of a document: each revision   *)
(* has a content of its own, the new revision starts with the content of the   *)
(* one it derives from, only the writable revision changes, and a committed    *)
(* revision keeps its content until it is dropped.  Indirection implements it. *)
EXTENDS Naturals, Sequences

CONSTANT
    Revisions    \* the revisions that may be created

VARIABLES
    status,      \* status[r] \in {"none", "writable", "committed", "dropped"}
    content      \* content[r] : the sequence of the values of the pages of r

vars == <<status, content>>

Init ==
    /\ status = [r \in Revisions |-> "none"]
    /\ content = [r \in Revisions |-> <<>>]

(* The first revision of a branch without base.                                *)
Create(r) ==
    /\ status[r] = "none"
    /\ status' = [status EXCEPT ![r] = "writable"]
    /\ content' = [content EXCEPT ![r] = <<>>]

(* A new revision, after the last one of the branch or on a new branch.        *)
Derive(r, base) ==
    /\ status[r] = "none"
    /\ status[base] = "committed"
    /\ status' = [status EXCEPT ![r] = "writable"]
    /\ content' = [content EXCEPT ![r] = content[base]]

(* New pages at the end of the writable revision.                              *)
Extend(r) ==
    /\ status[r] = "writable"
    /\ Len(content'[r]) > Len(content[r])
    /\ SubSeq(content'[r], 1, Len(content[r])) = content[r]
    /\ \A q \in Revisions \ {r} : content'[q] = content[q]
    /\ UNCHANGED status

(* A page of the writable revision changes, and nothing else does.             *)
Write(r) ==
    /\ status[r] = "writable"
    /\ \E p \in DOMAIN content[r] : content' = [content EXCEPT ![r][p] = content'[r][p]]
    /\ UNCHANGED status

Commit(r) ==
    /\ status[r] = "writable"
    /\ status' = [status EXCEPT ![r] = "committed"]
    /\ UNCHANGED content

(* All the revisions of a branch disappear.                                    *)
Drop(gone) ==
    /\ \A r \in gone : status[r] = "committed"
    /\ status' = [r \in Revisions |-> IF r \in gone THEN "dropped" ELSE status[r]]
    /\ content' = [r \in Revisions |-> IF r \in gone THEN <<>> ELSE content[r]]

Next ==
    \/ \E r \in Revisions :
        \/ Create(r)
        \/ \E base \in Revisions : Derive(r, base)
        \/ Extend(r)
        \/ Write(r)
        \/ Commit(r)
    \/ \E gone \in SUBSET Revisions : Drop(gone)

Spec == Init /\ [][Next]_vars
=============================================================================
