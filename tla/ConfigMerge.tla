---------------------------- MODULE ConfigMerge ----------------------------
(***************************************************************************)
(* The source-tree mode of update_configuration                            *)
(* (internal/configmerge/manager.go): the EDT project (main) is compared   *)
(* with another source tree, and a reviewed plan is merged file by file    *)
(* after a snapshot of the project.  The other tree is a directory or the  *)
(* dump of a .cf file that prepareSource makes once and keeps.             *)
(*                                                                         *)
(* Tools are called concurrently and no lock orders the calls.  Trees map  *)
(* paths to contents; a fingerprint is the tree itself.  A call that fails *)
(* or is killed stops where it is: nothing is undone.  Compare and the     *)
(* fingerprint check of Merge read the trees at one moment.                *)
(***************************************************************************)
EXTENDS Naturals, FiniteSets

CONSTANTS
  Calls,      \* tool calls that may run at once
  Paths,      \* file paths, numbered in lexical order
  Contents,   \* what a file may hold
  Empty,      \* the content of an empty file
  Absent, Torn, NoDir,  \* no file; a file cut short by a failed write; no directory
  Starts,     \* project, source and ancestor trees to start from, and whether the
              \* source is a .cf file
  EditValues, \* what an edit may leave in a file
  MaxEdits,   \* bound: edits made outside the server
  Seconds,    \* times of day a merge may begin at, as its snapshot's name gives them
  MaxPlans,   \* bound: plans saved
  MaxMerges   \* bound: merges begun

Values == Contents \cup {Torn}
Trees == [Paths -> Values \cup {Absent}]

ASSUME MergeAssumption ==
  /\ Paths \in SUBSET Nat /\ Empty \in Contents
  /\ Absent \notin Values /\ Torn \notin Contents /\ NoDir \notin Trees
  /\ Starts \subseteq [main : [Paths -> Contents \cup {Absent}],
                       source : [Paths -> Contents \cup {Absent}],
                       ancestor : [Paths -> Contents \cup {Absent}], fromCf : BOOLEAN]
  /\ EditValues \subseteq Contents \cup {Absent}
  /\ MaxEdits \in Nat /\ MaxPlans \in Nat /\ MaxMerges \in Nat

Rules == {"keepMain", "takeOther", "mergeOther", "mergeMain"}

\* A plan is named by the hash of what was compared, so it is what was compared.
PlanIds == [main : Trees, other : Trees, three : BOOLEAN]

\* What a call remembers: the plan, the rules, the files still to be handled and
\* the name of its snapshot.
NoJob == [id |-> NoDir, rules |-> NoDir, todo |-> {}, second |-> NoDir]

VARIABLES
  main,       \* the EDT project's source tree
  other,      \* the tree a plan reads the source from, or NoDir
  fromCf,     \* is the source a .cf file
  source,     \* the source as its author made it
  ancestor,   \* the tree given as ancestor
  plans,      \* saved plans
  snapshots,  \* snapshots[<<id, second>>]: copy of main made by a merge
  pc, job,    \* what each call does
  reply,      \* the last answer of each call
  edits, merges, \* counters of the bounds
  raced       \* history: calls whose trees somebody else changed since the compare,
              \* or whose snapshot somebody else writes or wrote

trees == <<main, other>>
inputs == <<fromCf, source, ancestor>>
bounds == <<edits, merges>>
vars == <<main, other, fromCf, source, ancestor, plans, snapshots, pc, job,
          reply, edits, merges, raced>>

Init ==
  /\ \E s \in Starts : /\ main = s.main /\ source = s.source /\ ancestor = s.ancestor
                        /\ fromCf = s.fromCf
  /\ other = IF fromCf THEN NoDir ELSE source
  /\ plans = {} /\ snapshots = [k \in {} |-> NoDir]
  /\ pc = [c \in Calls |-> "idle"] /\ job = [c \in Calls |-> NoJob]
  /\ reply = [c \in Calls |-> "none"]
  /\ edits = 0 /\ merges = 0 /\ raced = {}

Merging == {"copy", "write"}

\* Calls other than c that are in the middle of a merge.
OtherMerges(c) == {d \in Calls \ {c} : pc[d] \in Merging}

Return(c, answer) ==
  /\ pc' = [pc EXCEPT ![c] = "idle"]
  /\ job' = [job EXCEPT ![c] = NoJob]
  /\ reply' = [reply EXCEPT ![c] = answer]

-----------------------------------------------------------------------------
(* prepareSource of a .cf file *)

\* The dump exists, whatever it holds: it is taken as it is.
PrepareReuse(c) ==
  /\ pc[c] = "idle" /\ fromCf /\ other # NoDir
  /\ Return(c, "prepared")
  /\ UNCHANGED <<trees, inputs, plans, snapshots, bounds, raced>>

\* It does not: a file infobase is created for it and the .cf loaded there.
PrepareLoad(c) ==
  /\ pc[c] = "idle" /\ fromCf /\ other = NoDir
  /\ pc' = [pc EXCEPT ![c] = "load"]
  /\ reply' = [reply EXCEPT ![c] = "none"]
  /\ UNCHANGED <<trees, inputs, plans, snapshots, job, bounds, raced>>

PrepareLoadFail(c) ==
  /\ pc[c] = "load"
  /\ Return(c, "error")
  /\ UNCHANGED <<trees, inputs, plans, snapshots, bounds, raced>>

EmptyTree == [p \in Paths |-> Absent]

\* DumpConfig makes the directory before it starts Designer ...
PrepareDump(c) ==
  /\ pc[c] = "load"
  /\ pc' = [pc EXCEPT ![c] = "dump"]
  /\ other' = IF other = NoDir THEN EmptyTree ELSE other
  /\ raced' = raced \cup OtherMerges(c)
  /\ UNCHANGED <<main, inputs, plans, snapshots, job, reply, bounds>>

\* ... which fills it, or fails having written some of the files.
PrepareDone(c) ==
  /\ pc[c] = "dump"
  /\ other' = source
  /\ raced' = raced \cup OtherMerges(c)
  /\ Return(c, "prepared")
  /\ UNCHANGED <<main, inputs, plans, snapshots, bounds>>

PrepareFail(c) ==
  /\ pc[c] = "dump"
  /\ LET found == IF other = NoDir THEN EmptyTree ELSE other IN
       \E part \in SUBSET Paths :
         other' = [p \in Paths |-> IF p \in part THEN source[p] ELSE found[p]]
  /\ raced' = raced \cup OtherMerges(c)
  /\ Return(c, "error")
  /\ UNCHANGED <<main, inputs, plans, snapshots, bounds>>

\* cleanupSources removes the dumps and their infobases, whoever uses them.
Cleanup ==
  /\ fromCf /\ other # NoDir
  /\ other' = NoDir
  /\ raced' = raced \cup {c \in Calls : pc[c] \in Merging}
  /\ UNCHANGED <<main, inputs, plans, snapshots, pc, job, reply, bounds>>

-----------------------------------------------------------------------------
(* compare *)

Compare(three) ==
  /\ other # NoDir /\ Cardinality(plans) < MaxPlans
  /\ plans' = plans \cup {[main |-> main, other |-> other, three |-> three]}
  /\ UNCHANGED <<trees, inputs, snapshots, pc, job, reply, bounds, raced>>

\* The files a merge handles: they differ and have a rule that may change them.
Chosen(id, rules) == {p \in Paths : id.main[p] # id.other[p] /\ rules[p] # "keepMain"}

-----------------------------------------------------------------------------
(* merge *)

\* What Merge does once it has decided to write: the snapshot's directory is made.
StartMerge(c, id, rules, second) ==
  /\ pc[c] = "idle"
  /\ merges < MaxMerges /\ merges' = merges + 1
  /\ reply' = [reply EXCEPT ![c] = "none"]
  /\ pc' = [pc EXCEPT ![c] = "copy"]
  /\ job' = [job EXCEPT ![c] = [id |-> id, rules |-> rules, todo |-> Paths, second |-> second]]
  /\ snapshots' = [k \in DOMAIN snapshots \cup {<<id, second>>} |->
                     IF k \in DOMAIN snapshots THEN snapshots[k] ELSE EmptyTree]
  /\ raced' = IF other = id.other /\ <<id, second>> \notin DOMAIN snapshots
                THEN raced \ {c} ELSE raced \cup {c}
  /\ UNCHANGED <<trees, inputs, plans, edits>>

\* Mutants: the fingerprint is not compared; a merge that changes nothing goes on.
MergeBeginStale(c, id, rules, second) ==
  Chosen(id, rules) # {} /\ StartMerge(c, id, rules, second)

MergeBeginAnyway(c, id, rules, second) ==
  main = id.main /\ StartMerge(c, id, rules, second)

\* The project has the fingerprint of the compare (the source's is not checked),
\* the call is confirmed and no dry run, and something is to be changed.
MergeBegin(c, id, rules, second) ==
  /\ main = id.main
  /\ Chosen(id, rules) # {}
  /\ StartMerge(c, id, rules, second)

First(c, p) == p \in job[c].todo /\ \A q \in job[c].todo : p <= q

Key(c) == <<job[c].id, job[c].second>>

\* copyTree takes the files one by one; a merge that has the same plan in the
\* same second copies to the same place.
CopyFile(c) ==
  /\ pc[c] = "copy"
  /\ \E p \in Paths :
       /\ First(c, p)
       /\ snapshots' = [snapshots EXCEPT ![Key(c)][p] = IF main[p] = Absent THEN @ ELSE main[p]]
       /\ IF job[c].todo = {p}
            THEN /\ pc' = [pc EXCEPT ![c] = "write"]
                 /\ job' = [job EXCEPT ![c].todo = Chosen(job[c].id, job[c].rules)]
            ELSE /\ job' = [job EXCEPT ![c].todo = @ \ {p}]
                 /\ UNCHANGED pc
  /\ raced' = raced \cup {d \in OtherMerges(c) : Key(d) = Key(c)}
  /\ UNCHANGED <<trees, inputs, plans, reply, bounds>>

CopyFail(c) ==
  /\ pc[c] = "copy"
  /\ \/ UNCHANGED snapshots
     \/ \E p \in Paths : First(c, p) /\ snapshots' = [snapshots EXCEPT ![Key(c)][p] = Torn]
  /\ raced' = (raced \cup {d \in OtherMerges(c) : Key(d) = Key(c)}) \ {c}
  /\ Return(c, "error")
  /\ UNCHANGED <<trees, inputs, plans, bounds>>

\* Mutant: a side that did not change wins.
MergeTextSwapped(ours, theirs, base, three, rule) ==
  IF three /\ ours = base THEN ours
  ELSE IF three /\ theirs = base THEN theirs
  ELSE IF rule = "mergeOther" THEN theirs ELSE ours

\* mergeText: the other side where only it changed since the ancestor, ours where
\* only ours did, the one with priority otherwise.  A missing ancestor reads as "".
MergeText(ours, theirs, base, three, rule) ==
  IF three /\ ours = base THEN theirs
  ELSE IF three /\ theirs = base THEN ours
  ELSE IF rule = "mergeOther" THEN theirs ELSE ours

Base(p) == IF ancestor[p] = Absent THEN Empty ELSE ancestor[p]

\* What the file p becomes.
NewFile(c, p) ==
  LET id == job[c].id  rule == job[c].rules[p] IN
  IF id.other[p] = Absent THEN Absent
  ELSE IF rule = "takeOther" THEN other[p]
  ELSE MergeText(main[p], other[p], Base(p), id.three, rule)

\* The files that have to be there: os.Remove does not mind a missing one.
Readable(c, p) ==
  job[c].id.other[p] # Absent =>
    /\ other # NoDir /\ other[p] # Absent
    /\ job[c].rules[p] \in {"mergeOther", "mergeMain"} => main[p] # Absent

WriteFile(c) ==
  /\ pc[c] = "write"
  /\ \E p \in Paths :
       /\ First(c, p) /\ Readable(c, p)
       /\ main' = [main EXCEPT ![p] = NewFile(c, p)]
       /\ IF job[c].todo = {p}
            THEN Return(c, "changed") /\ raced' = (raced \cup OtherMerges(c)) \ {c}
            ELSE /\ job' = [job EXCEPT ![c].todo = @ \ {p}]
                 /\ raced' = raced \cup OtherMerges(c)
                 /\ UNCHANGED <<pc, reply>>
  /\ UNCHANGED <<other, inputs, plans, snapshots, bounds>>

\* A file cannot be read, or cannot be written (it is left as it was or cut short),
\* or the server is killed: the rest is not handled.
WriteFail(c) ==
  /\ pc[c] = "write"
  /\ \E p \in Paths :
       /\ First(c, p)
       /\ \/ UNCHANGED main
          \/ /\ Readable(c, p) /\ job[c].id.other[p] # Absent
             /\ main' = [main EXCEPT ![p] = Torn]
  /\ raced' = (raced \cup OtherMerges(c)) \ {c}
  /\ Return(c, "error")
  /\ UNCHANGED <<other, inputs, plans, snapshots, bounds>>

-----------------------------------------------------------------------------
(* The environment: a developer works on the project or on a source directory *)

Edit ==
  /\ edits < MaxEdits
  /\ edits' = edits + 1 /\ UNCHANGED merges
  /\ \E p \in Paths, v \in EditValues :
       \/ main' = [main EXCEPT ![p] = v] /\ UNCHANGED other
       \/ ~fromCf /\ other' = [other EXCEPT ![p] = v] /\ UNCHANGED main
  /\ raced' = raced \cup {c \in Calls : pc[c] \in Merging}
  /\ UNCHANGED <<inputs, plans, snapshots, pc, job, reply>>

Next ==
  \/ \E c \in Calls :
       \/ PrepareReuse(c) \/ PrepareLoad(c) \/ PrepareLoadFail(c) \/ PrepareDump(c)
       \/ PrepareDone(c) \/ PrepareFail(c)
       \/ \E id \in plans, rules \in [Paths -> Rules], second \in Seconds :
            MergeBegin(c, id, rules, second)
       \/ CopyFile(c) \/ CopyFail(c) \/ WriteFile(c) \/ WriteFail(c)
  \/ \E three \in BOOLEAN : Compare(three)
  \/ Cleanup \/ Edit

Spec == Init /\ [][Next]_vars

-----------------------------------------------------------------------------
(* Properties *)

\* Every variable has its type.
TypeOK ==
  /\ main \in Trees /\ other \in Trees \cup {NoDir}
  /\ fromCf \in BOOLEAN /\ source \in Trees /\ ancestor \in Trees
  /\ plans \in SUBSET PlanIds
  /\ DOMAIN snapshots \subseteq PlanIds \X Seconds
  /\ \A k \in DOMAIN snapshots : snapshots[k] \in Trees
  /\ pc \in [Calls -> {"idle", "load", "dump"} \cup Merging]
  /\ \A c \in Calls :
       IF pc[c] \notin Merging THEN job[c] = NoJob
       ELSE /\ job[c].id \in PlanIds /\ job[c].rules \in [Paths -> Rules]
            /\ job[c].todo \in (SUBSET Paths) \ {{}}
            /\ Key(c) \in DOMAIN snapshots
  /\ reply \in [Calls -> {"none", "prepared", "changed", "error"}]
  /\ edits \in 0..MaxEdits /\ merges \in 0..MaxMerges
  /\ raced \in SUBSET Calls

\* What the answer of merge says a rule means: "three-way only when ancestor is
\* configured and one side is unchanged; otherwise the selected priority side wins".
Asked(id, rules, p) ==
  LET side == [main |-> id.main[p], other |-> id.other[p]]
      changed == {s \in {"main", "other"} : side[s] # Base(p)}
      winner == IF id.three /\ \E s \in {"main", "other"} : changed = {s}
                  THEN CHOOSE s \in {"main", "other"} : changed = {s}
                  ELSE IF rules[p] = "mergeMain" THEN "main" ELSE "other"
  IN IF p \notin Chosen(id, rules) THEN id.main[p]
     ELSE IF rules[p] = "takeOther" THEN id.other[p]
     ELSE side[winner]

\* A file that is only in the project is deleted by both merge rules.
DeletedByMerge(id, rules, p) ==
  id.other[p] = Absent /\ rules[p] \in {"mergeOther", "mergeMain"}

\* A merge whose trees nobody else touches has, at every moment, done exactly the
\* files it has handled: those hold what was asked and reviewed, the others what
\* they held at the compare - and before the first of them, the snapshot is the
\* whole project, so that a merge can be undone however it ends.
HandledAsAsked ==
  \A c \in Calls \ raced : pc[c] \in Merging =>
    /\ pc[c] = "write" => snapshots[Key(c)] = job[c].id.main
    /\ \A p \in Paths :
         IF pc[c] = "copy" \/ p \in job[c].todo THEN main[p] = job[c].id.main[p]
         ELSE \/ main[p] = Asked(job[c].id, job[c].rules, p)
              \/ DeletedByMerge(job[c].id, job[c].rules, p) /\ main[p] = Absent

Completes(c) == pc[c] = "write" /\ pc'[c] = "idle" /\ reply'[c] = "changed"

\* When a merge says it is done, every file is what was asked, and its snapshot is
\* the project as it was compared, so the merge can be undone.
CompletedAsAskedAndUndoable ==
  [][\A c \in Calls \ raced : Completes(c) =>
       /\ \A p \in Paths : \/ main'[p] = Asked(job[c].id, job[c].rules, p)
                           \/ DeletedByMerge(job[c].id, job[c].rules, p)
       /\ snapshots[Key(c)] = job[c].id.main]_vars

=============================================================================
