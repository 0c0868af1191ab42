------------------------- MODULE ConfigMergeProofs -------------------------
(***************************************************************************)
(* A merge does what was asked and can be undone, for any number of calls, *)
(* files, plans and edits.  HandledAsAsked is not inductive: that nobody   *)
(* raced a call must also keep the other tree as it was compared and the   *)
(* snapshot as far as it is copied (Undisturbed).                          *)
(***************************************************************************)
EXTENDS ConfigMerge, TLAPS

States == {"idle", "load", "dump"} \cup Merging

Answers == {"none", "prepared", "changed", "error"}

JobOf == [id : PlanIds, rules : [Paths -> Rules], todo : (SUBSET Paths) \ {{}}, second : Seconds]

TreesType ==
  /\ main \in Trees /\ other \in Trees \cup {NoDir} /\ (~fromCf => other \in Trees)
  /\ fromCf \in BOOLEAN /\ source \in Trees /\ ancestor \in Trees

PlansType ==
  /\ plans \in SUBSET PlanIds
  /\ DOMAIN snapshots \subseteq PlanIds \X Seconds
  /\ \A k \in DOMAIN snapshots : snapshots[k] \in Trees

Typed(c) ==
  /\ pc[c] \notin Merging => job[c] = NoJob
  /\ pc[c] \in Merging =>
       /\ job[c] \in JobOf /\ Key(c) \in DOMAIN snapshots
       /\ Chosen(job[c].id, job[c].rules) # {}

CallsType ==
  /\ pc \in [Calls -> States] /\ job \in [Calls -> JobOf \cup {NoJob}] /\ reply \in [Calls -> Answers]
  /\ \A c \in Calls : Typed(c)

BoundsType == edits \in 0..MaxEdits /\ merges \in 0..MaxMerges /\ raced \in SUBSET Calls

TypeInv == TreesType /\ PlansType /\ CallsType /\ BoundsType

\* A file a merge has handled.
Handled(c, p) ==
  \/ main[p] = Asked(job[c].id, job[c].rules, p)
  \/ DeletedByMerge(job[c].id, job[c].rules, p) /\ main[p] = Absent

\* What holds of a merge while nobody else touches its trees.
Undisturbed(c) ==
  /\ pc[c] \in Merging => other = job[c].id.other
  /\ pc[c] = "copy" =>
       /\ main = job[c].id.main
       /\ \A p \in Paths : snapshots[Key(c)][p] = IF p \in job[c].todo THEN Absent ELSE main[p]
  /\ pc[c] = "write" =>
       /\ snapshots[Key(c)] = job[c].id.main
       /\ job[c].todo \subseteq Chosen(job[c].id, job[c].rules)
       /\ \A p \in Paths : IF p \in job[c].todo THEN main[p] = job[c].id.main[p] ELSE Handled(c, p)

MergeInv == \A c \in Calls \ raced : Undisturbed(c)

-----------------------------------------------------------------------------
(* What a file becomes *)

\* Who is asked to win: the side that alone changed, or the one with priority.
LEMMA AskedOfMerge ==
  ASSUME NEW id, NEW rules, NEW p \in Chosen(id, rules), rules[p] \in {"mergeOther", "mergeMain"}
  PROVE  Asked(id, rules, p) = MergeText(id.main[p], id.other[p], Base(p), id.three, rules[p])
<1> DEFINE side == [main |-> id.main[p], other |-> id.other[p]]
           changed == {s \in {"main", "other"} : side[s] # Base(p)}
           winner == IF id.three /\ \E s \in {"main", "other"} : changed = {s}
                       THEN CHOOSE s \in {"main", "other"} : changed = {s}
                       ELSE IF rules[p] = "mergeMain" THEN "main" ELSE "other"
<1>1. id.main[p] # id.other[p]
  BY DEF Chosen
<1>2. side["main"] = id.main[p] /\ side["other"] = id.other[p]
  OBVIOUS
<1>3. Asked(id, rules, p) = side[winner]
  BY DEF Asked
<1> HIDE DEF side
<1>4. CASE id.three /\ id.main[p] = Base(p)
  <2>1. changed = {"other"}
    BY <1>1, <1>2, <1>4
  <2>2. winner = "other"
    BY <1>4, <2>1
  <2> QED  BY <1>2, <1>3, <1>4, <2>2 DEF MergeText
<1>5. CASE id.three /\ id.other[p] = Base(p)
  <2>1. changed = {"main"}
    BY <1>1, <1>2, <1>5
  <2>2. winner = "main"
    BY <1>5, <2>1
  <2> QED  BY <1>1, <1>2, <1>3, <1>5, <2>2 DEF MergeText
<1>6. CASE ~(id.three /\ (id.main[p] = Base(p) \/ id.other[p] = Base(p)))
  <2>1. id.three => changed = {"main", "other"}
    BY <1>2, <1>6
  <2>2. winner = IF rules[p] = "mergeMain" THEN "main" ELSE "other"
    BY <2>1
  <2> QED  BY <1>2, <1>3, <1>6, <2>2 DEF MergeText
<1> QED  BY <1>4, <1>5, <1>6

\* A file that still is as it was compared becomes what was asked, or is deleted.
LEMMA WrittenAsAsked ==
  ASSUME NEW c \in Calls, job[c] \in JobOf, NEW p \in Chosen(job[c].id, job[c].rules),
         main[p] = job[c].id.main[p], other = job[c].id.other
  PROVE  \/ NewFile(c, p) = Asked(job[c].id, job[c].rules, p)
         \/ DeletedByMerge(job[c].id, job[c].rules, p) /\ NewFile(c, p) = Absent
<1> DEFINE id == job[c].id
           rules == job[c].rules
<1>1. p \in Paths /\ rules[p] \in Rules /\ rules[p] # "keepMain"
  BY DEF Chosen, JobOf
<1>3. CASE rules[p] = "takeOther"
  <2>1. Asked(id, rules, p) = id.other[p]
    BY <1>3 DEF Asked
  <2> QED  BY <1>3, <2>1 DEF NewFile
<1>4. CASE rules[p] # "takeOther" /\ id.other[p] = Absent
  <2>1. rules[p] \in {"mergeOther", "mergeMain"}
    BY <1>1, <1>4 DEF Rules
  <2> QED  BY <1>4, <2>1 DEF NewFile, DeletedByMerge
<1>5. CASE rules[p] # "takeOther" /\ id.other[p] # Absent
  <2>1. rules[p] \in {"mergeOther", "mergeMain"}
    BY <1>1, <1>5 DEF Rules
  <2>2. Asked(id, rules, p) = MergeText(id.main[p], id.other[p], Base(p), id.three, rules[p])
    BY <2>1, AskedOfMerge
  <2> QED  BY <1>5, <2>2 DEF NewFile
<1> QED  BY <1>3, <1>4, <1>5

\* A file no rule may change is asked to stay.
LEMMA AskedToStay ==
  ASSUME NEW id, NEW rules, NEW p, p \notin Chosen(id, rules)
  PROVE  Asked(id, rules, p) = id.main[p]
BY DEF Asked

-----------------------------------------------------------------------------
(* Types *)

LEMMA EmptyTreeType == EmptyTree \in Trees
BY DEF EmptyTree, Trees

\* What is written in a merge is a file.
LEMMA NewFileType ==
  ASSUME TreesType, NEW c \in Calls, job[c] \in JobOf, NEW p \in Paths, Readable(c, p)
  PROVE  NewFile(c, p) \in Values \cup {Absent}
<1>1. main[p] \in Values \cup {Absent}
  BY DEF TreesType, Trees
<1>2. job[c].id.other[p] # Absent => other[p] \in Values \cup {Absent}
  BY DEF Readable, TreesType, Trees
<1> QED  BY <1>1, <1>2 DEF NewFile, MergeText

LEMMA TypeInit == Init => TypeInv
<1> SUFFICES ASSUME Init PROVE TypeInv
  OBVIOUS
<1>1. TreesType
  BY MergeAssumption DEF Init, TreesType, Trees, Values
<1>2. PlansType /\ BoundsType
  BY MergeAssumption DEF Init, PlansType, BoundsType
<1>3. CallsType
  BY DEF Init, CallsType, Typed, States, Answers, Merging
<1> QED  BY <1>1, <1>2, <1>3 DEF TypeInv

\* A call that answers leaves nothing; the others keep what they have.
LEMMA ReturnTypes ==
  ASSUME CallsType, NEW c \in Calls, NEW answer \in Answers, Return(c, answer),
         DOMAIN snapshots' = DOMAIN snapshots
  PROVE  CallsType' /\ pc'[c] = "idle" /\ \A d \in Calls \ {c} : pc'[d] = pc[d] /\ job'[d] = job[d]
<1>1. \A d \in Calls \ {c} : pc'[d] = pc[d] /\ job'[d] = job[d]
  BY DEF CallsType, Return
<1>2. pc'[c] = "idle" /\ job'[c] = NoJob
  BY DEF CallsType, Return
<1>3. Typed(c)'
  BY <1>2 DEF Typed, Merging
<1>4. ASSUME NEW d \in Calls \ {c}  PROVE Typed(d)'
  BY <1>1 DEF CallsType, Typed, Key
<1>5. pc' \in [Calls -> States] /\ job' \in [Calls -> JobOf \cup {NoJob}] /\ reply' \in [Calls -> Answers]
  BY DEF CallsType, Return, States
<1> QED  BY <1>1, <1>2, <1>3, <1>4, <1>5 DEF CallsType

\* A call that goes on.
LEMMA GoesOnTypes ==
  ASSUME CallsType, NEW c \in Calls, NEW at \in States, NEW value,
         pc' = [pc EXCEPT ![c] = at], job' = [job EXCEPT ![c] = value],
         reply' \in [Calls -> Answers], DOMAIN snapshots \subseteq DOMAIN snapshots',
         at \notin Merging => value = NoJob,
         at \in Merging => /\ value \in JobOf /\ <<value.id, value.second>> \in DOMAIN snapshots'
                           /\ Chosen(value.id, value.rules) # {}
  PROVE  /\ CallsType' /\ pc'[c] = at /\ job'[c] = value
         /\ \A d \in Calls \ {c} : pc'[d] = pc[d] /\ job'[d] = job[d]
<1>1. \A d \in Calls \ {c} : pc'[d] = pc[d] /\ job'[d] = job[d]
  BY DEF CallsType
<1>2. pc'[c] = at /\ job'[c] = value
  BY DEF CallsType
<1>3. Typed(c)'
  BY <1>2 DEF Typed, Key
<1>4. ASSUME NEW d \in Calls \ {c}  PROVE Typed(d)'
  BY <1>1 DEF CallsType, Typed, Key
<1>5. pc' \in [Calls -> States] /\ job' \in [Calls -> JobOf \cup {NoJob}]
  BY DEF CallsType
<1> QED  BY <1>1, <1>2, <1>3, <1>4, <1>5 DEF CallsType

\* The preparation of a source: loading, dumping, and giving up.
LEMMA PrepareTypes ==
  ASSUME TypeInv, NEW c \in Calls,
         \/ PrepareReuse(c) \/ PrepareLoad(c) \/ PrepareLoadFail(c) \/ PrepareDump(c)
         \/ PrepareDone(c) \/ PrepareFail(c)
  PROVE  TypeInv'
<1> USE DEF TypeInv
<1>1. UNCHANGED <<main, inputs, plans, snapshots, bounds>>
  BY DEF PrepareReuse, PrepareLoad, PrepareLoadFail, PrepareDump, PrepareDone, PrepareFail, trees
<1>2. PlansType'
  BY <1>1 DEF PlansType
<1>3. raced' \in SUBSET Calls /\ BoundsType'
  BY <1>1 DEF BoundsType, OtherMerges, bounds, PrepareReuse, PrepareLoad, PrepareLoadFail, PrepareDump,
              PrepareDone, PrepareFail
<1>4. (other' \in Trees \/ other' = other) /\ TreesType'
  <2>1. CASE PrepareReuse(c) \/ PrepareLoad(c) \/ PrepareLoadFail(c)
    BY <1>1, <2>1 DEF PrepareReuse, PrepareLoad, PrepareLoadFail, trees, inputs, TreesType
  <2>2. CASE PrepareDump(c)
    <3>1. other' \in Trees
      BY <2>2, EmptyTreeType DEF PrepareDump, TreesType
    <3> QED  BY <1>1, <3>1 DEF inputs, TreesType
  <2>3. CASE PrepareDone(c)
    BY <1>1, <2>3 DEF PrepareDone, inputs, TreesType
  <2>4. CASE PrepareFail(c)
    <3>1. PICK part \in SUBSET Paths :
            other' = [p \in Paths |-> IF p \in part THEN source[p]
                                      ELSE (IF other = NoDir THEN EmptyTree ELSE other)[p]]
      BY <2>4 DEF PrepareFail
    <3>2. (IF other = NoDir THEN EmptyTree ELSE other) \in Trees /\ source \in Trees
      BY EmptyTreeType DEF TreesType
    <3>3. other' \in Trees
      BY <3>1, <3>2 DEF Trees
    <3> QED  BY <1>1, <3>3 DEF inputs, TreesType
  <2> QED  BY <2>1, <2>2, <2>3, <2>4
<1>5. CallsType'
  <2>1. CASE PrepareReuse(c) \/ PrepareLoadFail(c) \/ PrepareDone(c) \/ PrepareFail(c)
    <3>1. PICK answer \in Answers : Return(c, answer)
      BY <2>1 DEF PrepareReuse, PrepareLoadFail, PrepareDone, PrepareFail, Answers
    <3> QED  BY <1>1, <3>1, ReturnTypes
  <2>2. CASE PrepareLoad(c) \/ PrepareDump(c)
    <3>1. PICK at \in {"load", "dump"} : pc' = [pc EXCEPT ![c] = at]
      BY <2>2 DEF PrepareLoad, PrepareDump
    <3>2. job' = job /\ reply' \in [Calls -> Answers] /\ snapshots' = snapshots
      BY <1>1, <2>2 DEF PrepareLoad, PrepareDump, CallsType, Answers
    <3>3. pc[c] \notin Merging
      BY <2>2 DEF PrepareLoad, PrepareDump, Merging
    <3>4. job' = [job EXCEPT ![c] = NoJob]
      BY <3>2, <3>3 DEF CallsType, Typed
    <3>5. at \in States /\ at \notin Merging
      BY DEF States, Merging
    <3> QED  BY <3>1, <3>2, <3>4, <3>5, GoesOnTypes
  <2> QED  BY <2>1, <2>2
<1> QED  BY <1>2, <1>3, <1>4, <1>5

\* Whatever is chosen by a plan's rules.
LEMMA BeginTypes ==
  ASSUME TypeInv, NEW c \in Calls, NEW id \in plans, NEW rules \in [Paths -> Rules], NEW second \in Seconds,
         MergeBegin(c, id, rules, second)
  PROVE  TypeInv'
<1> USE DEF TypeInv
<1> DEFINE value == [id |-> id, rules |-> rules, todo |-> Paths, second |-> second]
<1>1. Chosen(id, rules) # {} /\ StartMerge(c, id, rules, second)
  BY DEF MergeBegin
<1>2. id \in PlanIds /\ Paths # {}
  BY <1>1 DEF PlansType, Chosen
<1>3. value \in JobOf
  BY <1>2 DEF JobOf
<1>4. /\ UNCHANGED <<main, other, fromCf, source, ancestor, plans, edits>>
      /\ pc' = [pc EXCEPT ![c] = "copy"] /\ job' = [job EXCEPT ![c] = value]
      /\ reply' = [reply EXCEPT ![c] = "none"]
      /\ merges < MaxMerges /\ merges' = merges + 1
  BY <1>1 DEF StartMerge, trees, inputs
<1>5. DOMAIN snapshots' = DOMAIN snapshots \cup {<<id, second>>}
  BY <1>1 DEF StartMerge
<1>6. \A k \in DOMAIN snapshots' : snapshots'[k] \in Trees
  BY <1>1, EmptyTreeType DEF StartMerge, PlansType
<1>7. PlansType'
  BY <1>2, <1>4, <1>5, <1>6 DEF PlansType
<1>8. BoundsType'
  BY <1>1, <1>4, MergeAssumption DEF BoundsType, StartMerge
<1>9. CallsType'
  <2>1. "copy" \in States /\ "copy" \in Merging
    BY DEF States, Merging
  <2>2. reply' \in [Calls -> Answers]
    BY <1>4 DEF CallsType, Answers
  <2>3. value.id = id /\ value.rules = rules /\ value.second = second
    OBVIOUS
  <2> HIDE DEF value
  <2> QED  BY <1>1, <1>3, <1>4, <1>5, <2>1, <2>2, <2>3, GoesOnTypes
<1> QED  BY <1>4, <1>7, <1>8, <1>9 DEF TreesType

LEMMA JobTypes ==
  ASSUME TypeInv, NEW c \in Calls, pc[c] \in Merging
  PROVE  /\ job[c] \in JobOf /\ Key(c) \in DOMAIN snapshots /\ Chosen(job[c].id, job[c].rules) # {}
         /\ Chosen(job[c].id, job[c].rules) \in (SUBSET Paths) \ {{}}
         /\ Key(c) = <<job[c].id, job[c].second>>
         /\ snapshots[Key(c)] \in Trees
BY DEF TypeInv, CallsType, PlansType, Typed, Chosen, Key

\* The job of a call with other files to do.
LEMMA TodoType ==
  ASSUME NEW value \in JobOf, NEW todo \in (SUBSET Paths) \ {{}}
  PROVE  LET new == [value EXCEPT !.todo = todo] IN
         /\ new \in JobOf /\ new.id = value.id /\ new.rules = value.rules
         /\ new.second = value.second /\ new.todo = todo
BY DEF JobOf

LEMMA CopyFileTypes ==
  ASSUME TypeInv, NEW c \in Calls, CopyFile(c)
  PROVE  TypeInv'
<1> USE DEF TypeInv
<1>1. pc[c] = "copy" /\ pc[c] \in Merging
  BY DEF CopyFile, Merging
<1>2. PICK p \in Paths :
       /\ First(c, p)
       /\ snapshots' = [snapshots EXCEPT ![Key(c)][p] = IF main[p] = Absent THEN @ ELSE main[p]]
       /\ IF job[c].todo = {p}
            THEN /\ pc' = [pc EXCEPT ![c] = "write"]
                 /\ job' = [job EXCEPT ![c].todo = Chosen(job[c].id, job[c].rules)]
            ELSE /\ job' = [job EXCEPT ![c].todo = @ \ {p}]
                 /\ UNCHANGED pc
  BY DEF CopyFile
<1>3. UNCHANGED <<main, other, fromCf, source, ancestor, plans, reply, edits, merges>>
  BY DEF CopyFile, trees, inputs, bounds
<1>4. DOMAIN snapshots' = DOMAIN snapshots /\ \A k \in DOMAIN snapshots' : snapshots'[k] \in Trees
  <2>1. main[p] \in Values \cup {Absent}
    BY DEF TreesType, Trees
  <2>2. \A t \in Trees : [t EXCEPT ![p] = IF main[p] = Absent THEN @ ELSE main[p]] \in Trees
    BY <2>1 DEF Trees
  <2>3. DOMAIN snapshots' = DOMAIN snapshots
    BY <1>2
  <2>4. \A k \in DOMAIN snapshots :
          snapshots'[k] = IF k = Key(c) THEN [snapshots[k] EXCEPT ![p] = IF main[p] = Absent THEN @ ELSE main[p]]
                          ELSE snapshots[k]
    BY <1>2
  <2> QED  BY <2>2, <2>3, <2>4 DEF PlansType
<1>5. PICK todo \in (SUBSET Paths) \ {{}}, at \in Merging :
        pc' = [pc EXCEPT ![c] = at] /\ job' = [job EXCEPT ![c] = [job[c] EXCEPT !.todo = todo]]
  <2>1. CASE job[c].todo = {p}
    BY <1>1, <1>2, <2>1, JobTypes DEF Merging
  <2>2. CASE job[c].todo # {p}
    <3>1. job[c].todo \ {p} \in (SUBSET Paths) \ {{}}
      BY <1>1, <2>2, JobTypes DEF JobOf
    <3>2. pc' = [pc EXCEPT ![c] = pc[c]]
      BY <1>2, <2>2 DEF CallsType
    <3> QED  BY <1>1, <1>2, <2>2, <3>1, <3>2
  <2> QED  BY <2>1, <2>2
<1>6. CallsType'
  <2> DEFINE value == [job[c] EXCEPT !.todo = todo]
  <2>1. value \in JobOf /\ value.id = job[c].id /\ value.rules = job[c].rules /\ value.second = job[c].second
    BY <1>1, JobTypes, TodoType
  <2>2. <<value.id, value.second>> \in DOMAIN snapshots' /\ Chosen(value.id, value.rules) # {}
    BY <1>1, <1>4, <2>1, JobTypes
  <2>3. job' = [job EXCEPT ![c] = value] /\ pc' = [pc EXCEPT ![c] = at] /\ at \in States
    BY <1>5 DEF States
  <2>4. reply' \in [Calls -> Answers]
    BY <1>3 DEF CallsType
  <2> HIDE DEF value
  <2> QED  BY <1>4, <1>5, <2>1, <2>2, <2>3, <2>4, GoesOnTypes
<1>7. raced' \in SUBSET Calls
  BY DEF CopyFile, BoundsType, OtherMerges
<1> QED  BY <1>3, <1>4, <1>6, <1>7 DEF TreesType, PlansType, BoundsType

LEMMA CopyFailTypes ==
  ASSUME TypeInv, NEW c \in Calls, CopyFail(c)
  PROVE  TypeInv'
<1> USE DEF TypeInv
<1>1. UNCHANGED <<main, other, fromCf, source, ancestor, plans, edits, merges>> /\ Return(c, "error")
  BY DEF CopyFail, trees, inputs, bounds
<1>2. DOMAIN snapshots' = DOMAIN snapshots /\ \A k \in DOMAIN snapshots' : snapshots'[k] \in Trees
  <2>1. CASE UNCHANGED snapshots
    BY <2>1 DEF PlansType
  <2>2. CASE \E p \in Paths : snapshots' = [snapshots EXCEPT ![Key(c)][p] = Torn]
    <3>1. PICK p \in Paths : snapshots' = [snapshots EXCEPT ![Key(c)][p] = Torn]
      BY <2>2
    <3>2. \A t \in Trees : [t EXCEPT ![p] = Torn] \in Trees
      BY DEF Trees, Values
    <3>3. DOMAIN snapshots' = DOMAIN snapshots
      BY <3>1
    <3>4. \A k \in DOMAIN snapshots :
            snapshots'[k] = IF k = Key(c) THEN [snapshots[k] EXCEPT ![p] = Torn] ELSE snapshots[k]
      BY <3>1
    <3> QED  BY <3>2, <3>3, <3>4 DEF PlansType
  <2> QED  BY <2>1, <2>2 DEF CopyFail
<1>3. CallsType'
  BY <1>1, <1>2, ReturnTypes DEF Answers
<1>4. raced' \in SUBSET Calls
  BY DEF CopyFail, BoundsType, OtherMerges
<1> QED  BY <1>1, <1>2, <1>3, <1>4 DEF TreesType, PlansType, BoundsType

LEMMA WriteFileTypes ==
  ASSUME TypeInv, NEW c \in Calls, WriteFile(c)
  PROVE  TypeInv'
<1> USE DEF TypeInv
<1>1. pc[c] = "write" /\ pc[c] \in Merging
  BY DEF WriteFile, Merging
<1>2. PICK p \in Paths :
       /\ First(c, p) /\ Readable(c, p)
       /\ main' = [main EXCEPT ![p] = NewFile(c, p)]
       /\ IF job[c].todo = {p}
            THEN Return(c, "changed") /\ raced' = (raced \cup OtherMerges(c)) \ {c}
            ELSE /\ job' = [job EXCEPT ![c].todo = @ \ {p}]
                 /\ raced' = raced \cup OtherMerges(c)
                 /\ UNCHANGED <<pc, reply>>
  BY DEF WriteFile
<1>3. UNCHANGED <<other, fromCf, source, ancestor, plans, snapshots, edits, merges>>
  BY DEF WriteFile, inputs, bounds
<1>4. main' \in Trees
  <2>1. NewFile(c, p) \in Values \cup {Absent}
    BY <1>1, <1>2, JobTypes, NewFileType
  <2> QED  BY <1>2, <2>1 DEF TreesType, Trees
<1>5. CallsType'
  <2>1. CASE job[c].todo = {p}
    BY <1>2, <1>3, <2>1, ReturnTypes DEF Answers
  <2>2. CASE job[c].todo # {p}
    <3> DEFINE todo == job[c].todo \ {p}
               value == [job[c] EXCEPT !.todo = todo]
    <3>1. todo \in (SUBSET Paths) \ {{}}
      BY <1>1, <1>2, <2>2, JobTypes DEF JobOf, First
    <3>2. value \in JobOf /\ value.id = job[c].id /\ value.rules = job[c].rules /\ value.second = job[c].second
      BY <1>1, <3>1, JobTypes, TodoType
    <3>3. <<value.id, value.second>> \in DOMAIN snapshots' /\ Chosen(value.id, value.rules) # {}
      BY <1>1, <1>3, <3>2, JobTypes
    <3>4. job' = [job EXCEPT ![c] = value]
      BY <1>2, <2>2
    <3>5. pc' = [pc EXCEPT ![c] = pc[c]] /\ pc[c] \in States /\ reply' \in [Calls -> Answers]
      BY <1>2, <2>2 DEF CallsType
    <3> HIDE DEF value
    <3> QED  BY <1>1, <1>3, <3>2, <3>3, <3>4, <3>5, GoesOnTypes
  <2> QED  BY <2>1, <2>2
<1>6. raced' \in SUBSET Calls
  BY <1>2 DEF BoundsType, OtherMerges
<1> QED  BY <1>3, <1>4, <1>5, <1>6 DEF TreesType, PlansType, BoundsType

LEMMA WriteFailTypes ==
  ASSUME TypeInv, NEW c \in Calls, WriteFail(c)
  PROVE  TypeInv'
<1> USE DEF TypeInv
<1>1. UNCHANGED <<other, fromCf, source, ancestor, plans, snapshots, edits, merges>> /\ Return(c, "error")
  BY DEF WriteFail, inputs, bounds
<1>2. main' \in Trees
  BY DEF WriteFail, TreesType, Trees, Values
<1>3. CallsType'
  BY <1>1, ReturnTypes DEF Answers
<1>4. raced' \in SUBSET Calls
  BY DEF WriteFail, BoundsType, OtherMerges
<1> QED  BY <1>1, <1>2, <1>3, <1>4 DEF TreesType, PlansType, BoundsType

\* Whoever is no call: the tools that are one step, and the developer.
LEMMA OthersTypes ==
  ASSUME TypeInv, Cleanup \/ Edit \/ UNCHANGED vars \/ \E three \in BOOLEAN : Compare(three)
  PROVE  TypeInv'
<1> USE DEF TypeInv
<1>1. UNCHANGED <<fromCf, source, ancestor, snapshots, pc, job, reply, merges>>
  BY DEF Cleanup, Edit, vars, Compare, inputs, bounds, trees
<1>2. CallsType'
  BY <1>1 DEF CallsType, Typed, Key
<1>3. CASE Cleanup
  BY <1>1, <1>2, <1>3 DEF Cleanup, bounds, TreesType, PlansType, BoundsType
<1>4. CASE Edit
  <2>1. /\ plans' = plans /\ raced' \in SUBSET Calls /\ edits' \in 0..MaxEdits
    BY <1>4, MergeAssumption DEF Edit, BoundsType
  <2>2. EditValues \subseteq Values \cup {Absent}
    BY MergeAssumption DEF Values
  <2>3. PICK p \in Paths, v \in EditValues :
          \/ main' = [main EXCEPT ![p] = v] /\ UNCHANGED other
          \/ ~fromCf /\ other' = [other EXCEPT ![p] = v] /\ UNCHANGED main
    BY <1>4 DEF Edit
  <2>4. main' \in Trees /\ other' \in Trees \cup {NoDir} /\ (~fromCf => other' \in Trees)
    BY <2>2, <2>3 DEF TreesType, Trees
  <2> QED  BY <1>1, <1>2, <2>1, <2>4 DEF TreesType, PlansType, BoundsType
<1>5. CASE UNCHANGED vars
  BY <1>1, <1>2, <1>5 DEF vars, TreesType, PlansType, BoundsType
<1>6. ASSUME NEW three \in BOOLEAN, Compare(three)  PROVE TypeInv'
  <2>1. UNCHANGED <<main, other, edits, raced>> /\ plans' \in SUBSET PlanIds
    BY <1>6 DEF Compare, trees, bounds, TreesType, PlansType, PlanIds
  <2> QED  BY <1>1, <1>2, <2>1 DEF TreesType, PlansType, BoundsType
<1> QED  BY <1>3, <1>4, <1>5, <1>6

LEMMA TypeStep == TypeInv /\ [Next]_vars => TypeInv'
BY PrepareTypes, BeginTypes, CopyFileTypes, CopyFailTypes, WriteFileTypes, WriteFailTypes, OthersTypes
   DEF Next

-----------------------------------------------------------------------------
(* The merge *)

\* A merge whose trees and snapshot are left alone goes on as it was.
LEMMA LeftAlone ==
  ASSUME NEW c \in Calls, Undisturbed(c), pc'[c] = pc[c], job'[c] = job[c],
         pc[c] \in Merging => UNCHANGED <<main, other, ancestor>> /\ snapshots'[Key(c)] = snapshots[Key(c)]
  PROVE  Undisturbed(c)'
<1>1. CASE pc[c] \notin Merging
  BY <1>1 DEF Undisturbed, Merging
<1>2. CASE pc[c] \in Merging
  <2>1. Key(c)' = Key(c)
    BY DEF Key
  <2>2. \A p \in Paths : Handled(c, p)' = Handled(c, p)
    <3>1. UNCHANGED <<main, ancestor>> /\ job'[c] = job[c]
      BY <1>2
    <3>2. \A p \in Paths : Base(p)' = Base(p)
      BY <3>1 DEF Base
    <3>3. \A p \in Paths : Asked(job[c].id, job[c].rules, p)' = Asked(job[c].id, job[c].rules, p)
      BY <3>1, <3>2, SMTT(30) DEF Asked, Chosen
    <3> QED  BY <3>1, <3>3 DEF Handled, DeletedByMerge
  <2> QED  BY <1>2, <2>1, <2>2 DEF Undisturbed
<1> QED  BY <1>1, <1>2

\* A step that is no merge's.
LEMMA OtherSteps ==
  ASSUME TypeInv, MergeInv,
         \/ Cleanup \/ Edit \/ UNCHANGED vars \/ \E three \in BOOLEAN : Compare(three)
         \/ \E c \in Calls :
              \/ PrepareReuse(c) \/ PrepareLoad(c) \/ PrepareLoadFail(c) \/ PrepareDump(c)
              \/ PrepareDone(c) \/ PrepareFail(c)
  PROVE  MergeInv'
<1>1. UNCHANGED <<ancestor, snapshots>> /\ raced \subseteq raced'
  BY DEF Cleanup, Edit, Compare, vars, inputs, trees, PrepareReuse, PrepareLoad, PrepareLoadFail, PrepareDump,
         PrepareDone, PrepareFail
<1>2. SUFFICES ASSUME NEW d \in Calls \ raced'  PROVE Undisturbed(d)'
  BY DEF MergeInv
<1>3. Undisturbed(d)
  BY <1>1 DEF MergeInv
<1>4. CASE pc'[d] = pc[d] /\ job'[d] = job[d]
  <2>1. pc[d] \in Merging => UNCHANGED <<main, other>>
    <3> SUFFICES ASSUME pc[d] \in Merging PROVE UNCHANGED <<main, other>>
      OBVIOUS
    <3>1. d \notin raced'
      OBVIOUS
    <3>2. CASE Cleanup \/ Edit
      BY <3>1, <3>2 DEF Cleanup, Edit
    <3>3. ASSUME NEW c \in Calls, PrepareDump(c) \/ PrepareDone(c) \/ PrepareFail(c)
          PROVE  FALSE
      <4>1. pc[c] \notin Merging
        BY <3>3 DEF PrepareDump, PrepareDone, PrepareFail, Merging
      <4>2. d \in OtherMerges(c)
        BY <4>1 DEF OtherMerges
      <4> QED  BY <3>1, <3>3, <4>2 DEF PrepareDump, PrepareDone, PrepareFail
    <3> QED  BY <3>2, <3>3 DEF Compare, vars, trees, PrepareReuse, PrepareLoad, PrepareLoadFail
  <2> QED  BY <1>1, <1>3, <1>4, <2>1, LeftAlone
<1>5. CASE ~(pc'[d] = pc[d] /\ job'[d] = job[d])
  <2>1. PICK c \in Calls :
              \/ PrepareReuse(c) \/ PrepareLoad(c) \/ PrepareLoadFail(c) \/ PrepareDump(c)
              \/ PrepareDone(c) \/ PrepareFail(c)
    BY <1>5 DEF Cleanup, Edit, vars, Compare
  <2>2. pc' \in [Calls -> {"idle", "load", "dump"} \cup Merging] /\ c = d
    BY <1>5, <2>1 DEF TypeInv, CallsType, States, PrepareReuse, PrepareLoad, PrepareLoadFail, PrepareDump,
                      PrepareDone, PrepareFail, Return
  <2>3. pc'[d] \notin Merging
    BY <2>1, <2>2 DEF TypeInv, CallsType, PrepareReuse, PrepareLoad, PrepareLoadFail, PrepareDump,
                      PrepareDone, PrepareFail, Return, Merging
  <2> QED  BY <2>3 DEF Undisturbed, Merging
<1> QED  BY <1>4, <1>5

\* A merge begins with the trees it was planned for and an empty snapshot, or is raced.
LEMMA BeginStep ==
  ASSUME TypeInv, MergeInv, NEW c \in Calls, NEW id \in plans, NEW rules \in [Paths -> Rules],
         NEW second \in Seconds, MergeBegin(c, id, rules, second)
  PROVE  MergeInv'
<1> DEFINE value == [id |-> id, rules |-> rules, todo |-> Paths, second |-> second]
<1>1. /\ main = id.main /\ UNCHANGED <<main, other, ancestor>>
      /\ pc' = [pc EXCEPT ![c] = "copy"] /\ job' = [job EXCEPT ![c] = value]
      /\ snapshots' = [k \in DOMAIN snapshots \cup {<<id, second>>} |->
                         IF k \in DOMAIN snapshots THEN snapshots[k] ELSE EmptyTree]
      /\ raced' = IF other = id.other /\ <<id, second>> \notin DOMAIN snapshots
                    THEN raced \ {c} ELSE raced \cup {c}
  BY DEF MergeBegin, StartMerge, trees, inputs
<1>2. SUFFICES ASSUME NEW d \in Calls \ raced'  PROVE Undisturbed(d)'
  BY DEF MergeInv
<1>3. CASE d # c
  <2>1. pc'[d] = pc[d] /\ job'[d] = job[d] /\ Undisturbed(d)
    BY <1>1, <1>3 DEF TypeInv, CallsType, MergeInv
  <2>2. pc[d] \in Merging => Key(d) \in DOMAIN snapshots
    BY JobTypes
  <2>3. pc[d] \in Merging => snapshots'[Key(d)] = snapshots[Key(d)]
    BY <1>1, <2>2
  <2> QED  BY <1>1, <2>1, <2>3, LeftAlone
<1>4. CASE d = c
  <2>1. pc'[c] = "copy" /\ job'[c] = value
    BY <1>1 DEF TypeInv, CallsType
  <2>2. Key(c)' = <<id, second>>
    BY <2>1 DEF Key
  <2>3. other = id.other /\ snapshots'[Key(c)'] = EmptyTree
    BY <1>1, <1>4, <2>2
  <2>4. \A p \in Paths : snapshots'[Key(c)'][p] = Absent
    BY <2>3 DEF EmptyTree
  <2>5. value.id = id /\ value.todo = Paths
    OBVIOUS
  <2> HIDE DEF value
  <2> QED  BY <1>1, <1>4, <2>1, <2>3, <2>4, <2>5 DEF Undisturbed
<1> QED  BY <1>3, <1>4

\* A call that copies or stops copying leaves the merges alone that have another
\* snapshot; those with the same one are raced.
LEMMA CopyOthers ==
  ASSUME TypeInv, MergeInv, NEW c \in Calls, CopyFile(c) \/ CopyFail(c), NEW d \in Calls \ raced', d # c
  PROVE  Undisturbed(d)'
<1>1. /\ UNCHANGED <<main, other, ancestor>>
      /\ {e \in OtherMerges(c) : Key(e) = Key(c)} \subseteq raced' \cup {c} /\ raced \subseteq raced' \cup {c}
  BY DEF CopyFile, CopyFail, trees, inputs
<1>2. pc'[d] = pc[d] /\ job'[d] = job[d]
  BY DEF CopyFile, CopyFail, Return, TypeInv, CallsType
<1>3. pc[d] \in Merging => Key(d) # Key(c)
  BY <1>1 DEF OtherMerges
<1>4. pc[d] \in Merging => Key(d) \in DOMAIN snapshots
  BY JobTypes
<1>5. pc[d] \in Merging => snapshots'[Key(d)] = snapshots[Key(d)]
  BY <1>3, <1>4 DEF CopyFile, CopyFail
<1>6. Undisturbed(d)
  BY <1>1 DEF MergeInv
<1> QED  BY <1>1, <1>2, <1>5, <1>6, LeftAlone

LEMMA CopyFailStep ==
  ASSUME TypeInv, MergeInv, NEW c \in Calls, CopyFail(c)
  PROVE  MergeInv'
<1>1. Undisturbed(c)'
  BY DEF CopyFail, Return, TypeInv, CallsType, Undisturbed, Merging
<1> QED  BY <1>1, CopyOthers DEF MergeInv

\* One more file is in the snapshot; with the last of them it is the whole project.
LEMMA CopyFileStep ==
  ASSUME TypeInv, MergeInv, NEW c \in Calls, CopyFile(c)
  PROVE  MergeInv'
<1>1. SUFFICES ASSUME c \notin raced'  PROVE Undisturbed(c)'
  BY CopyOthers DEF MergeInv
<1>2. pc[c] = "copy" /\ pc[c] \in Merging
  BY DEF CopyFile, Merging
<1>3. PICK p \in Paths :
       /\ First(c, p)
       /\ snapshots' = [snapshots EXCEPT ![Key(c)][p] = IF main[p] = Absent THEN @ ELSE main[p]]
       /\ IF job[c].todo = {p}
            THEN /\ pc' = [pc EXCEPT ![c] = "write"]
                 /\ job' = [job EXCEPT ![c].todo = Chosen(job[c].id, job[c].rules)]
            ELSE /\ job' = [job EXCEPT ![c].todo = @ \ {p}]
                 /\ UNCHANGED pc
  BY DEF CopyFile
<1>4. UNCHANGED <<main, other, ancestor>> /\ c \notin raced
  BY <1>1 DEF CopyFile, trees, inputs
<1>5. /\ other = job[c].id.other /\ main = job[c].id.main
      /\ \A q \in Paths : snapshots[Key(c)][q] = IF q \in job[c].todo THEN Absent ELSE main[q]
  BY <1>2, <1>4 DEF MergeInv, Undisturbed
<1>6. /\ job[c] \in JobOf /\ Key(c) \in DOMAIN snapshots /\ snapshots[Key(c)] \in Trees
      /\ Chosen(job[c].id, job[c].rules) \in (SUBSET Paths) \ {{}}
  BY <1>2, JobTypes
<1>7. /\ snapshots'[Key(c)] \in Trees
      /\ \A q \in Paths : snapshots'[Key(c)][q] = IF q \in job[c].todo \ {p} THEN Absent ELSE main[q]
  <2>1. snapshots'[Key(c)] = [snapshots[Key(c)] EXCEPT ![p] = IF main[p] = Absent THEN @ ELSE main[p]]
    BY <1>3, <1>6
  <2>2. main \in Trees /\ p \in job[c].todo
    BY <1>3 DEF TypeInv, TreesType, First
  <2> QED  BY <1>5, <1>6, <2>1, <2>2 DEF Trees
<1>8. CASE job[c].todo = {p}
  <2> DEFINE value == [job[c] EXCEPT !.todo = Chosen(job[c].id, job[c].rules)]
  <2>1. /\ value.id = job[c].id /\ value.rules = job[c].rules /\ value.second = job[c].second
        /\ value.todo = Chosen(job[c].id, job[c].rules)
    BY <1>6, TodoType
  <2>2. pc'[c] = "write" /\ job'[c] = value
    BY <1>3, <1>8 DEF TypeInv, CallsType
  <2> HIDE DEF value
  <2>3. Key(c)' = Key(c)
    BY <2>1, <2>2 DEF Key
  <2>4. snapshots'[Key(c)] = main
    BY <1>7, <1>8 DEF TypeInv, TreesType, Trees
  <2>5. \A q \in Paths : Asked(job[c].id, job[c].rules, q)' = Asked(job[c].id, job[c].rules, q)
    BY <1>4, <2>1, <2>2, SMTT(30) DEF Asked, Chosen, Base
  <2>6. \A q \in Paths : q \notin job'[c].todo => Handled(c, q)'
    BY <1>4, <1>5, <2>1, <2>2, <2>5, AskedToStay DEF Handled
  <2> QED  BY <1>4, <1>5, <2>1, <2>2, <2>3, <2>4, <2>6 DEF Undisturbed
<1>9. CASE job[c].todo # {p}
  <2> DEFINE value == [job[c] EXCEPT !.todo = job[c].todo \ {p}]
  <2>1. job[c].todo \ {p} \in (SUBSET Paths) \ {{}}
    BY <1>3, <1>6, <1>9 DEF First, JobOf
  <2>2. /\ value.id = job[c].id /\ value.rules = job[c].rules /\ value.second = job[c].second
        /\ value.todo = job[c].todo \ {p}
    BY <1>6, <2>1, TodoType
  <2>3. pc'[c] = "copy" /\ job'[c] = value
    BY <1>2, <1>3, <1>9 DEF TypeInv, CallsType
  <2> HIDE DEF value
  <2>4. Key(c)' = Key(c)
    BY <2>2, <2>3 DEF Key
  <2> QED  BY <1>4, <1>5, <1>7, <2>2, <2>3, <2>4 DEF Undisturbed
<1> QED  BY <1>8, <1>9

\* A call that writes or stops writing races every other merge.
LEMMA WriteOthers ==
  ASSUME TypeInv, MergeInv, NEW c \in Calls, WriteFile(c) \/ WriteFail(c), NEW d \in Calls \ raced', d # c
  PROVE  Undisturbed(d)'
<1>1. UNCHANGED <<other, ancestor, snapshots>> /\ OtherMerges(c) \cup raced \subseteq raced' \cup {c}
  BY DEF WriteFile, WriteFail, inputs
<1>2. pc'[d] = pc[d] /\ job'[d] = job[d]
  BY DEF WriteFile, WriteFail, Return, TypeInv, CallsType
<1>3. pc[d] \notin Merging
  BY <1>1 DEF OtherMerges
<1> QED  BY <1>2, <1>3 DEF Undisturbed, Merging

LEMMA WriteFailStep ==
  ASSUME TypeInv, MergeInv, NEW c \in Calls, WriteFail(c)
  PROVE  MergeInv'
<1>1. Undisturbed(c)'
  BY DEF WriteFail, Return, TypeInv, CallsType, Undisturbed, Merging
<1> QED  BY <1>1, WriteOthers DEF MergeInv

\* What a write finds and leaves, while nobody races its merge: the snapshot is whole,
\* and once its file is written it and those before it are as they were asked to be.
LEMMA WriteHandles ==
  ASSUME TypeInv, MergeInv, NEW c \in Calls \ raced, pc[c] = "write", NEW p \in Paths,
         First(c, p), main' = [main EXCEPT ![p] = NewFile(c, p)]
  PROVE  /\ other = job[c].id.other /\ snapshots[Key(c)] = job[c].id.main
         /\ job[c].todo \subseteq Chosen(job[c].id, job[c].rules)
         /\ \A q \in Paths :
              IF q \in job[c].todo \ {p} THEN main'[q] = job[c].id.main[q]
              ELSE \/ main'[q] = Asked(job[c].id, job[c].rules, q)
                   \/ DeletedByMerge(job[c].id, job[c].rules, q) /\ main'[q] = Absent
<1>1. /\ other = job[c].id.other /\ snapshots[Key(c)] = job[c].id.main
      /\ job[c].todo \subseteq Chosen(job[c].id, job[c].rules)
      /\ \A q \in Paths : IF q \in job[c].todo THEN main[q] = job[c].id.main[q] ELSE Handled(c, q)
  BY DEF MergeInv, Undisturbed, Merging
<1>2. job[c] \in JobOf /\ p \in job[c].todo /\ main \in Trees
  BY JobTypes DEF First, Merging, TypeInv, TreesType
<1>3. main'[p] = NewFile(c, p) /\ \A q \in Paths \ {p} : main'[q] = main[q]
  BY <1>2 DEF Trees
<1>4. \/ NewFile(c, p) = Asked(job[c].id, job[c].rules, p)
      \/ DeletedByMerge(job[c].id, job[c].rules, p) /\ NewFile(c, p) = Absent
  BY <1>1, <1>2, WrittenAsAsked
<1>5. \A q \in Paths \ {p} : IF q \in job[c].todo \ {p} THEN main'[q] = job[c].id.main[q]
              ELSE \/ main'[q] = Asked(job[c].id, job[c].rules, q)
                   \/ DeletedByMerge(job[c].id, job[c].rules, q) /\ main'[q] = Absent
  BY <1>1, <1>3 DEF Handled
<1> QED  BY <1>1, <1>3, <1>4, <1>5

LEMMA WriteFileStep ==
  ASSUME TypeInv, MergeInv, NEW c \in Calls, WriteFile(c)
  PROVE  MergeInv'
<1>1. SUFFICES ASSUME c \notin raced'  PROVE Undisturbed(c)'
  BY WriteOthers DEF MergeInv
<1>2. pc[c] = "write" /\ pc[c] \in Merging
  BY DEF WriteFile, Merging
<1>3. PICK p \in Paths :
       /\ First(c, p) /\ Readable(c, p)
       /\ main' = [main EXCEPT ![p] = NewFile(c, p)]
       /\ IF job[c].todo = {p}
            THEN Return(c, "changed") /\ raced' = (raced \cup OtherMerges(c)) \ {c}
            ELSE /\ job' = [job EXCEPT ![c].todo = @ \ {p}]
                 /\ raced' = raced \cup OtherMerges(c)
                 /\ UNCHANGED <<pc, reply>>
  BY DEF WriteFile
<1>4. CASE job[c].todo = {p}
  <2>1. pc'[c] = "idle"
    BY <1>3, <1>4 DEF Return, TypeInv, CallsType
  <2> QED  BY <2>1 DEF Undisturbed, Merging
<1>5. CASE job[c].todo # {p}
  <2> DEFINE value == [job[c] EXCEPT !.todo = job[c].todo \ {p}]
  <2>1. c \notin raced /\ UNCHANGED <<other, ancestor, snapshots>>
    BY <1>1, <1>3, <1>5 DEF WriteFile, inputs
  <2>2. job[c] \in JobOf /\ job[c].todo \ {p} \in (SUBSET Paths) \ {{}}
    BY <1>2, <1>3, <1>5, JobTypes DEF First, JobOf
  <2>3. /\ value.id = job[c].id /\ value.rules = job[c].rules /\ value.second = job[c].second
        /\ value.todo = job[c].todo \ {p}
    BY <2>2, TodoType
  <2>4. pc'[c] = "write" /\ job'[c] = value
    BY <1>2, <1>3, <1>5 DEF TypeInv, CallsType
  <2> HIDE DEF value
  <2>5. Key(c)' = Key(c)
    BY <2>3, <2>4 DEF Key
  <2>6. \A q \in Paths : Asked(job[c].id, job[c].rules, q)' = Asked(job[c].id, job[c].rules, q)
    BY <2>1, <2>3, <2>4 DEF Asked, Chosen, Base
  <2>7. \A q \in Paths :
          DeletedByMerge(job[c].id, job[c].rules, q)' = DeletedByMerge(job[c].id, job[c].rules, q)
    BY <2>3, <2>4 DEF DeletedByMerge
  <2>8. /\ other = job[c].id.other /\ snapshots[Key(c)] = job[c].id.main
        /\ job[c].todo \subseteq Chosen(job[c].id, job[c].rules)
        /\ \A q \in Paths :
             IF q \in job[c].todo \ {p} THEN main'[q] = job[c].id.main[q]
             ELSE \/ main'[q] = Asked(job[c].id, job[c].rules, q)
                  \/ DeletedByMerge(job[c].id, job[c].rules, q) /\ main'[q] = Absent
    BY <1>2, <1>3, <2>1, WriteHandles
  <2>9. Chosen(job[c].id, job[c].rules)' = Chosen(job[c].id, job[c].rules)
    BY <2>3, <2>4 DEF Chosen
  <2>10. \A q \in Paths : q \notin job[c].todo \ {p} => Handled(c, q)'
    BY <2>6, <2>7, <2>8 DEF Handled
  <2> QED  BY <2>1, <2>3, <2>4, <2>5, <2>8, <2>9, <2>10 DEF Undisturbed
<1> QED  BY <1>4, <1>5

LEMMA MergeStep == TypeInv /\ MergeInv /\ [Next]_vars => MergeInv'
BY OtherSteps, BeginStep, CopyFileStep, CopyFailStep, WriteFileStep, WriteFailStep DEF Next

LEMMA MergeHolds == Spec => [](TypeInv /\ MergeInv)
<1>1. Init => MergeInv
  BY DEF Init, MergeInv, Undisturbed, Merging
<1> QED  BY <1>1, TypeInit, TypeStep, MergeStep, PTL DEF Spec

-----------------------------------------------------------------------------
\* Every variable has its type.
THEOREM MergeTypes == Spec => []TypeOK
<1>1. TypeInv => TypeOK
  BY DEF TypeInv, TreesType, PlansType, CallsType, BoundsType, Typed, TypeOK, States, Answers, JobOf
<1> QED  BY <1>1, MergeHolds, PTL

\* At every moment of a merge nobody races, the files it has handled are as they were
\* asked to be, the others as they were compared, and before the first is written the
\* snapshot is the whole project.
THEOREM HandledTheorem == Spec => []HandledAsAsked
<1>1. TypeInv /\ MergeInv => HandledAsAsked
  BY DEF MergeInv, Undisturbed, Handled, HandledAsAsked, Merging
<1> QED  BY <1>1, MergeHolds, PTL

\* A merge that says it is done has done to every file what was asked, and can be undone.
THEOREM CompletedTheorem == Spec => CompletedAsAskedAndUndoable
<1>1. ASSUME TypeInv, MergeInv, [Next]_vars, NEW c \in Calls \ raced, Completes(c)
      PROVE  /\ \A p \in Paths : \/ main'[p] = Asked(job[c].id, job[c].rules, p)
                                 \/ DeletedByMerge(job[c].id, job[c].rules, p)
             /\ snapshots[Key(c)] = job[c].id.main
  <2>1. pc[c] = "write" /\ pc'[c] = "idle" /\ reply'[c] = "changed"
    BY <1>1 DEF Completes
  <2>2. PICK d \in Calls : WriteFile(d) \/ WriteFail(d) \/ CopyFail(d) \/ CopyFile(d)
                           \/ PrepareReuse(d) \/ PrepareLoad(d) \/ PrepareLoadFail(d) \/ PrepareDump(d)
                           \/ PrepareDone(d) \/ PrepareFail(d)
                           \/ \E id \in plans, rules \in [Paths -> Rules], second \in Seconds :
                                MergeBegin(d, id, rules, second)
    BY <1>1, <2>1 DEF Next, vars, Compare, Cleanup, Edit
  <2>3. d = c
    BY <1>1, <2>1, <2>2 DEF TypeInv, CallsType, WriteFile, WriteFail, CopyFail, CopyFile, PrepareReuse,
       PrepareLoad, PrepareLoadFail, PrepareDump, PrepareDone, PrepareFail, MergeBegin, StartMerge, Return
  <2>4. WriteFile(c) \/ WriteFail(c)
    BY <2>1, <2>2, <2>3 DEF CopyFail, CopyFile, PrepareReuse, PrepareLoad, PrepareLoadFail, PrepareDump,
       PrepareDone, PrepareFail, MergeBegin, StartMerge
  <2>5. ~WriteFail(c)
    BY <2>1 , <1>1 DEF WriteFail, Return, TypeInv, CallsType
  <2>6. PICK p \in Paths :
          First(c, p) /\ main' = [main EXCEPT ![p] = NewFile(c, p)] /\ (job[c].todo # {p} => UNCHANGED pc)
    BY <2>4, <2>5 DEF WriteFile
  <2>7. job[c].todo = {p}
    BY <2>1, <2>6
  <2> QED  BY <1>1, <2>1, <2>6, <2>7, WriteHandles
<1>2. TypeInv /\ MergeInv /\ [Next]_vars =>
        [\A c \in Calls \ raced : Completes(c) =>
           /\ \A p \in Paths : \/ main'[p] = Asked(job[c].id, job[c].rules, p)
                               \/ DeletedByMerge(job[c].id, job[c].rules, p)
           /\ snapshots[Key(c)] = job[c].id.main]_vars
  BY <1>1
<1> QED  BY <1>2, MergeHolds, PTL DEF Spec, CompletedAsAskedAndUndoable
=============================================================================
