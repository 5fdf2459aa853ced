------------------------------- MODULE LruLists -------------------------------
(***************************************************************************)
(* What the rankings of the disk cache promise (net/disk_cache/rankings.h):*)
(* a few lists of entries, where one entry at a time comes in at the head  *)
(* of a list or goes out of a list, and nothing else happens to them.  The *)
(* promise holds until an accident, one of those named in DiskCache; any   *)
(* other crash does not show at this level.                                *)
(***************************************************************************)
EXTENDS Naturals, SequencesExt

CONSTANTS Nodes, Lists

VARIABLES lists, accident

Init == lists = [l \in Lists |-> <<>>] /\ accident = FALSE

\* A node that is in no list comes in at the head of list l.
PutIn(n, l) ==
    /\ \A k \in Lists : n \notin Range(lists[k])
    /\ lists' = [lists EXCEPT ![l] = <<n>> \o @]

\* The i-th node of list l goes out.
TakeOut(i, l) == lists' = [lists EXCEPT ![l] = RemoveAt(@, i)]

Move ==
    \E l \in Lists :
        \/ \E n \in Nodes : PutIn(n, l)
        \/ \E i \in DOMAIN lists[l] : TakeOut(i, l)

\* The lists stay what they are when the accident happens, and are anything after it.
Next ==
    \/ ~accident /\ accident' \in BOOLEAN /\ (Move \/ UNCHANGED lists)
    \/ accident /\ accident'

Spec == Init /\ [][Next]_<<lists, accident>>

-----------------------------------------------------------------------------
\* Unless there was an accident, no node is in two lists, or twice in one.
OnePlace ==
    ~accident =>
        \A k, l \in Lists : \A i \in DOMAIN lists[k], j \in DOMAIN lists[l] :
            lists[k][i] = lists[l][j] => k = l /\ i = j
===============================================================================
