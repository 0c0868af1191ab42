--------------------------- MODULE MCModuleWrite ---------------------------
(* One module of up to three lines, read in pages of one line, two pages at  *)
(* most: line a, a method of the words m and n, with and without a break at  *)
(* the end, and the edits that tell the guards apart.                        *)
EXTENDS ModuleWrite, TLC

CONSTANTS a, m, n

MCMethodWords == [method \in {"M"} |-> {m, n}]

MCTexts == {<<a>>, <<m, Break>>, <<a, Break, m>>, <<a, Break, m, Break, n>>}

Ask(mode, source, old, start, hash, text, large) ==
  [mode |-> mode, source |-> source, old |-> old, start |-> start, end |-> start,
   method |-> "M", expectedHash |-> hash, expectedSource |-> text,
   dryRun |-> FALSE, allowLargeDeletion |-> large]

MCRequests ==
  {Ask("replace", <<a, Break, Break, n>>, <<>>, 0, NoText, NoText, FALSE),
   Ask("replace", <<n>>, <<>>, 0, NoText, NoText, TRUE),
   Ask("append", <<a>>, <<>>, 0, <<a, Break, m>>, NoText, FALSE),
   Ask("replaceMethod", <<n>>, <<>>, 0, NoText, NoText, FALSE),
   Ask("insertBefore", <<n, Break>>, <<m>>, 0, NoText, NoText, FALSE),
   Ask("replaceLines", <<>>, <<>>, 2, NoText, NoText, FALSE),
   Ask("searchReplace", <<>>, <<Break>>, 0, NoText, <<a, Break, m>>, FALSE),
   [Ask("replaceLines", <<a>>, <<>>, 1, NoText, NoText, FALSE) EXCEPT !.dryRun = TRUE]}

Symmetry == Permutations(Calls)
=============================================================================
