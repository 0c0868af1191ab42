----------------------------- MODULE MCTechlog -----------------------------
(* Two work directories, two log files - one of them in a directory of its  *)
(* own, as the 1C server lays them out - and three kinds of lines.          *)
EXTENDS Techlog, TLC

MCPresets == [p \in {"locks", "server"} |->
                IF p = "locks" THEN {"TLOCK"} ELSE {"CALL", "SCALL"}]

Line(name, ms, module) == [name |-> name, ms |-> ms, module |-> module]
Short == Line("CALL", 1, "A")
Long == Line("CALL", 2, "A")
Lock == Line("TLOCK", 2, "B")

MCGarbage == Line("", 0, "")
MCLines == {Short, Long, Lock, MCGarbage}
MCLogs == <<"a.log", "rphost/b.log">>
MCStartLogs ==
  {[f \in {"a.log", "rphost/b.log"} |-> IF f = "a.log" THEN <<Short, MCGarbage, Long>> ELSE b] :
     b \in {<<Lock>>, Nothing}}

MCRequests ==
  {[kind |-> "enable", preset |-> "server", minimum |-> 1],
   [kind |-> "enable", preset |-> "nonsense", minimum |-> 0],
   [kind |-> "disable"], [kind |-> "clear"],
   [kind |-> "analyze", minimum |-> 1, filter |-> "", limit |-> 1],
   [kind |-> "analyze", minimum |-> 2, filter |-> "A", limit |-> 0],
   [kind |-> "analyze", minimum |-> 1, filter |-> "", limit |-> 9]}

Symmetry == Permutations(Calls) \cup Permutations(Dirs) \cup Permutations(Originals)
=============================================================================
