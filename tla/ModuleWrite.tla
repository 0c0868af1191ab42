---------------------------- MODULE ModuleWrite ----------------------------
(***************************************************************************)
(* write_module_source (internal/tools/rsv_compat.go): a BSL module of the *)
(* EDT project is read page by page from EDT, edited in the server, backed *)
(* up and written back whole, under the hash EDT gave with the first page. *)
(*                                                                         *)
(* A text is a sequence of words and breaks of lines, and the hash of a    *)
(* text is the text.  EDT answers each request at one moment, compares the *)
(* hash it is given with the module it has, and may refuse or lose any     *)
(* answer; its manner of answering is a constant of the behaviour.         *)
(* Between two requests the developer and other calls change the module.   *)
(* Each call works for itself: no lock orders them.                        *)
(***************************************************************************)
EXTENDS Integers, Sequences, FiniteSets

CONSTANTS
  Calls,      \* calls of the tool that may run at once
  Words,      \* what a line is made of
  Break,      \* the end of a line
  MethodWords, \* MethodWords[m], the words that occur in method m only
  NoText,     \* not read; no text given
  Texts,      \* what the module is at the start and what the developer makes of it
  Requests,   \* arguments of the tool
  PageSize,   \* lines EDT answers at once
  MaxPages,   \* pages read at most: 1000
  MaxSize,    \* the longest module written
  MaxEdits,   \* bound: changes by the developer
  MaxCalls    \* bound: calls started

Symbols == Words \cup {Break}

Text == Seq(Symbols)

Modes == {"replace", "searchReplace", "append", "replaceLines", "replaceMethod",
          "insertBefore", "insertAfter"}

\* `old` is the fragment or the anchor.
Request == [mode : Modes, source : Text, old : Text, start : Int, end : Int,
            method : DOMAIN MethodWords, expectedHash : Text \cup {NoText},
            expectedSource : Text \cup {NoText}, dryRun : BOOLEAN, allowLargeDeletion : BOOLEAN]

\* EDT gives a contentHash; puts a break of its own between the source and the closing
\* fence; gives a nextStartLine with a page that is not the last.
Manner == [hash : BOOLEAN, break : BOOLEAN, next : BOOLEAN]

ASSUME WriteAssumption ==
  /\ Break \notin Words /\ NoText \notin Text
  /\ Texts \subseteq Text /\ Requests \subseteq Request
  /\ \A m \in DOMAIN MethodWords : MethodWords[m] \subseteq Words
  /\ PageSize \in Nat \ {0} /\ MaxPages \in Nat \ {0}
  /\ MaxSize \in Nat /\ MaxEdits \in Nat /\ MaxCalls \in Nat

NoJob == [req |-> NoText, page |-> 0, read |-> <<>>, hash |-> NoText, updated |-> NoText]

VARIABLES
  edt,      \* the manner in which EDT answers
  module,   \* the module in EDT
  backups,  \* texts kept in module-backups
  pc, job,  \* what each call does; pages and text read, the hash, what it will write
  edits, calls, \* counters of the bounds
  returned  \* history: calls under whose eyes the module left the text they have the
            \* hash of and came back to it

vars == <<edt, module, backups, pc, job, edits, calls, returned>>

Init ==
  /\ edt \in Manner /\ module \in Texts /\ backups = {}
  /\ pc = [c \in Calls |-> "idle"] /\ job = [c \in Calls |-> NoJob]
  /\ edits = 0 /\ calls = 0 /\ returned = {}

-----------------------------------------------------------------------------
(* Lines of a text *)

LineOf(text, i) == Cardinality({j \in DOMAIN text : j < i /\ text[j] = Break}) + 1

\* Where the first n lines end, their breaks included.
EndOf(text, n) == Cardinality({i \in DOMAIN text : LineOf(text, i) <= n})

EndsInBreak(text) == text # <<>> /\ text[Len(text)] = Break

\* strings.TrimSuffix(text, "\n")
Trim(text) == IF EndsInBreak(text) THEN SubSeq(text, 1, Len(text) - 1) ELSE text

\* The source block of EDT's answer: a page of lines, as the fence pattern cuts it out.
\* The pattern takes the last break before the closing fence for its own.
Chunk(text, from) ==
  LET page == SubSeq(text, EndOf(text, from) + 1, EndOf(text, from + PageSize))
  IN IF edt.break THEN page ELSE Trim(page)

-----------------------------------------------------------------------------
(* The edit: applyModuleEdit *)

Splice(text, i, n, new) == SubSeq(text, 1, i - 1) \o new \o SubSeq(text, i + n, Len(text))

Places(text, old) ==
  {i \in 1..Len(text) : i + Len(old) - 1 <= Len(text) /\ SubSeq(text, i, i + Len(old) - 1) = old}

\* strings.Count does not count a place that overlaps the one before.
Once(text, old) ==
  \E i \in Places(text, old) : \A j \in Places(text, old) : i <= j /\ j < i + Len(old)

\* The one place replaced, or NoText when there is none or more than one.
ReplaceUnique(text, old, new) ==
  IF old = <<>> \/ ~Once(text, old) THEN NoText
  ELSE LET first == CHOOSE i \in Places(text, old) : \A j \in Places(text, old) : i <= j
       IN Splice(text, first, Len(old), new)

\* The lines start..end replaced; a final break stays and is not of a line.
ReplaceLineRange(text, start, end, new) ==
  LET body == Trim(text)
      count == LineOf(body, Len(body) + 1)
      before == SubSeq(body, 1, EndOf(body, start - 1))
      after == SubSeq(body, EndOf(body, end) + 1, Len(body))
      lines == CASE end < count /\ new # <<>> -> before \o Trim(new) \o <<Break>> \o after
                 [] end < count /\ new = <<>> -> before \o after
                 [] end = count /\ new # <<>> -> before \o Trim(new)
                 [] end = count /\ new = <<>> -> Trim(before)
  IN IF 1 <= start /\ start <= end /\ end <= count
       THEN IF EndsInBreak(text) THEN lines \o <<Break>> ELSE lines
       ELSE NoText

\* read_method_source: the method as it stands in EDT, from its first word to its last.
MethodText(text, m) ==
  LET spans == {s \in (1..Len(text)) \X (1..Len(text)) :
                  /\ {text[s[1]], text[s[2]]} \subseteq MethodWords[m]
                  /\ \A i \in DOMAIN text : text[i] \in MethodWords[m] => i \in s[1]..s[2]}
  IN IF spans = {} THEN <<>>
     ELSE LET span == CHOOSE s \in spans : TRUE IN SubSeq(text, span[1], span[2])

\* The edited text, or NoText for an error; method is the text of the method to replace.
ApplyModuleEdit(text, req, method) ==
  CASE req.mode = "replace"       -> req.source
    [] req.mode = "append"        -> text \o req.source
    [] req.mode = "searchReplace" -> ReplaceUnique(text, req.old, req.source)
    [] req.mode = "insertBefore"  -> ReplaceUnique(text, req.old, req.source \o req.old)
    [] req.mode = "insertAfter"   -> ReplaceUnique(text, req.old, req.old \o req.source)
    [] req.mode = "replaceLines"  -> ReplaceLineRange(text, req.start, req.end, req.source)
    [] req.mode = "replaceMethod" -> ReplaceUnique(text, method, req.source)

NonEmptyLines(text) ==
  Cardinality({LineOf(text, i) : i \in {j \in DOMAIN text : text[j] # Break}})

\* deletionRatio > 0.5
TooMuchRemoved(before, after) ==
  2 * (NonEmptyLines(before) - NonEmptyLines(after)) > NonEmptyLines(before)

-----------------------------------------------------------------------------
(* The steps of a call *)

\* Whoever changes the module: the calls that see the text of their hash come back.
Change(text) ==
  /\ module' = text
  /\ returned' = returned \cup {c \in Calls : pc[c] # "idle" /\ job[c].hash = text /\ module # text}

Return(c) ==
  /\ pc' = [pc EXCEPT ![c] = "idle"]
  /\ job' = [job EXCEPT ![c] = NoJob]

Start(c, req) ==
  /\ pc[c] = "idle" /\ calls < MaxCalls /\ calls' = calls + 1
  /\ pc' = [pc EXCEPT ![c] = "read"]
  /\ job' = [job EXCEPT ![c].req = req]
  /\ returned' = returned \ {c}
  /\ UNCHANGED <<edt, module, backups, edits>>

\* Mutant: the hash of the last page is kept.
ReadPageLastHash(c) ==
  LET from == job[c].page * PageSize
      read == job[c].read \o Chunk(module, from)
      hash == IF edt.hash THEN module ELSE NoText
      goesOn == /\ EndOf(module, from + PageSize) < Len(module) /\ edt.next
                /\ job[c].page + 1 < MaxPages
  IN
  /\ pc[c] = "read"
  /\ job' = [job EXCEPT ![c] = [req |-> @.req, updated |-> @.updated, page |-> @.page + 1, read |-> read,
                                hash |-> IF goesOn \/ hash # NoText THEN hash ELSE read]]
  /\ pc' = IF goesOn THEN pc ELSE [pc EXCEPT ![c] = "edit"]
  /\ UNCHANGED <<edt, module, backups, edits, calls, returned>>

\* readCompleteModule: the next page; without a further start line, or after the last
\* page allowed, what is there counts as the module.  The hash is that of the first
\* answer, or else that of the text put together here.
ReadPage(c) ==
  LET from == job[c].page * PageSize
      read == job[c].read \o Chunk(module, from)
      hash == IF job[c].hash # NoText \/ ~edt.hash THEN job[c].hash ELSE module
      goesOn == /\ EndOf(module, from + PageSize) < Len(module) /\ edt.next
                /\ job[c].page + 1 < MaxPages
  IN
  /\ pc[c] = "read"
  /\ job' = [job EXCEPT ![c] = [req |-> @.req, updated |-> @.updated, page |-> @.page + 1, read |-> read,
                                hash |-> IF goesOn \/ hash # NoText THEN hash ELSE read]]
  /\ pc' = IF goesOn THEN pc ELSE [pc EXCEPT ![c] = "edit"]
  /\ UNCHANGED <<edt, module, backups, edits, calls, returned>>

\* The checks of the expectation, the edit and its guards: the call goes on to write.
Decide(c) ==
  LET req == job[c].req
      current == job[c].read
      updated == ApplyModuleEdit(current, req, MethodText(module, req.method))
  IN
  /\ pc[c] = "edit"
  /\ req.expectedHash \in {NoText, job[c].hash} /\ req.expectedSource \in {NoText, current}
  /\ updated # NoText /\ Len(updated) <= MaxSize
  /\ TooMuchRemoved(current, updated) => req.allowLargeDeletion
  /\ ~req.dryRun /\ updated # current
  /\ pc' = [pc EXCEPT ![c] = "backup"]
  /\ job' = [job EXCEPT ![c].updated = updated]
  /\ UNCHANGED <<edt, module, backups, edits, calls, returned>>

\* An error or the preview of a dry run: the call returns.
Stop(c) ==
  /\ pc[c] \in {"read", "edit"}
  /\ Return(c)
  /\ UNCHANGED <<edt, module, backups, edits, calls, returned>>

\* Mutant: the new text is backed up.
BackupNewText(c) ==
  /\ pc[c] = "backup"
  /\ backups' = backups \cup {job[c].updated}
  /\ pc' = [pc EXCEPT ![c] = "write"]
  /\ UNCHANGED <<edt, module, job, edits, calls, returned>>

Backup(c) ==
  /\ pc[c] = "backup"
  /\ backups' = backups \cup {job[c].read}
  /\ pc' = [pc EXCEPT ![c] = "write"]
  /\ UNCHANGED <<edt, module, job, edits, calls, returned>>

\* Mutant: the error of writeModuleBackup is ignored.
BackupFailIgnored(c) ==
  /\ pc[c] = "backup"
  /\ pc' = [pc EXCEPT ![c] = "write"]
  /\ UNCHANGED <<edt, module, backups, job, edits, calls, returned>>

BackupFail(c) ==
  /\ pc[c] = "backup"
  /\ Return(c)
  /\ UNCHANGED <<edt, module, backups, edits, calls, returned>>

\* EDT writes the module if it still has the hash; the answer may be lost.  A request
\* for the errors of the project follows, which reads and decides nothing.
Write(c) ==
  /\ pc[c] = "write" /\ job[c].hash = module
  /\ Change(job[c].updated)
  /\ Return(c)
  /\ UNCHANGED <<edt, backups, edits, calls>>

\* Another hash, a syntax error, or EDT is not reached.
WriteRefused(c) ==
  /\ pc[c] = "write"
  /\ Return(c)
  /\ UNCHANGED <<edt, module, backups, edits, calls, returned>>

-----------------------------------------------------------------------------
(* The environment: the developer edits the module in EDT *)

Edit ==
  /\ edits < MaxEdits /\ edits' = edits + 1
  /\ \E text \in Texts \ {module} : Change(text)
  /\ UNCHANGED <<edt, backups, pc, job, calls>>

Next ==
  \/ \E c \in Calls :
       \/ \E req \in Requests : Start(c, req)
       \/ ReadPage(c) \/ Decide(c) \/ Stop(c) \/ Backup(c) \/ BackupFail(c)
       \/ Write(c) \/ WriteRefused(c)
  \/ Edit

Spec == Init /\ [][Next]_vars

-----------------------------------------------------------------------------
(* Properties *)

\* Every variable has its type, and a call that is about to write has a backup of what
\* it read and something to change.
TypeOK ==
  /\ edt \in Manner /\ module \in Text /\ backups \subseteq Text
  /\ pc \in [Calls -> {"idle", "read", "edit", "backup", "write"}]
  /\ \A c \in Calls :
       IF pc[c] = "idle" THEN job[c] = NoJob
       ELSE /\ job[c].req \in Requests /\ job[c].page \in 0..MaxPages /\ job[c].read \in Text
            /\ job[c].hash \in Text \cup {NoText}
            /\ pc[c] \in {"backup", "write"} => job[c].updated \in Text \ {job[c].read}
            /\ pc[c] = "write" => job[c].read \in backups
  /\ edits \in 0..MaxEdits /\ calls \in 0..MaxCalls /\ returned \subseteq Calls

Writes(c) == pc[c] = "write" /\ pc'[c] = "idle" /\ module' # module

\* What is read of a text that does not change: the pages EDT names, or the first one.
Reached(text) == SubSeq(text, 1, EndOf(text, PageSize * (IF edt.next THEN MaxPages ELSE 1)))

\* `text` is `whole` with breaks of lines left out, and with all its words.
OnlyBreaksLost(text, whole) ==
  \E at \in [DOMAIN text -> DOMAIN whole] :
    /\ \A i, j \in DOMAIN text : i < j => at[i] < at[j]
    /\ \A i \in DOMAIN text : text[i] = whole[at[i]]
    /\ \A k \in DOMAIN whole : whole[k] # Break => \E i \in DOMAIN text : at[i] = k

\* The texts that come over unchanged: with a hash made here all that EDT will let be
\* written; else those read to the end, of which the fence pattern takes no break.
Whole(text) ==
  edt.hash => /\ Reached(text) = text
              /\ edt.break \/ (EndOf(text, PageSize) = Len(text) /\ ~EndsInBreak(text))

\* What a call may take a module for.
Received(text) ==
  /\ Whole(module) => text = module
  /\ text = module \/ OnlyBreaksLost(text, Reached(module))

\* However many pages were read, and whoever changed the module meanwhile, a write is
\* the requested edit of the text it replaces, as if nothing had happened in between;
\* with an expectation, of the text that was expected, so that a repeated call does not
\* repeat the edit.  A module of several pages, or one with a break at its end, keeps
\* its words but loses breaks unless EDT adds one to each page, and beyond the pages
\* reached it is lost.  (A module that comes back to the text of the first page while a
\* call reads the next ones deceives the hash.)
WritesWhatWasAsked ==
  [][\A c \in Calls \ returned : Writes(c) =>
       LET req == job[c].req
           text == job[c].read IN
       /\ Received(text)
       /\ module' = ApplyModuleEdit(text, req, MethodText(module, req.method))
       /\ req.expectedHash \in {NoText, module} /\ req.expectedSource \in {NoText, text}]_vars

\* "Automatic backups" and "a 50% deletion guard": of the text a write replaces there is
\* a backup, as good as what was read of it, of whose non-empty lines no more than half
\* goes unless that was allowed.
OverwritesWithCare ==
  [][\A c \in Calls \ returned : Writes(c) =>
       \E text \in backups :
         /\ Received(text)
         /\ job[c].req.allowLargeDeletion \/ 2 * NonEmptyLines(module') >= NonEmptyLines(text)]_vars

=============================================================================
