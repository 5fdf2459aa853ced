----------------------------- MODULE MCDiskCache -----------------------------
(***************************************************************************)
(* Instances of DiskCache: two keys and three blocks, so that an entry can *)
(* be the head, the tail or in the middle of a list.                       *)
(***************************************************************************)
EXTENDS DiskCache

CacheSymmetry == Permutations(Nodes) \cup Permutations(Keys)

\* A behaviour is followed up to and including its first accident: every property is about
\* what comes before.
UpToAccident == ~accident
==============================================================================
