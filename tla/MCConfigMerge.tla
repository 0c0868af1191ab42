--------------------------- MODULE MCConfigMerge ---------------------------
(* Trees to start from: a pair of files for each way the two sides and their *)
(* ancestor can differ.  `u` and `v` are two contents.                        *)
EXTENDS ConfigMerge, TLC

CONSTANTS u, v

Tree(a, b) == (1 :> a) @@ (2 :> b)

MCPaths == 1..2

Start(m1, m2, s1, s2, a1, a2, cf) ==
  [main |-> Tree(m1, m2), source |-> Tree(s1, s2), ancestor |-> Tree(a1, a2), fromCf |-> cf]

MCStarts ==
  {\* theirs changed; we added
   Start(u, u, v, Absent, u, Absent, TRUE),
   \* ours changed; they added
   Start(u, Absent, v, v, v, Absent, FALSE),
   \* theirs is empty, as a missing ancestor is read; both changed
   Start(u, u, Empty, v, Absent, Empty, FALSE)}

Symmetry == Permutations(Calls) \cup Permutations(Seconds)
=============================================================================
