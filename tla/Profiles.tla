------------------------------- MODULE Profiles -------------------------------
(***************************************************************************)
(* Profiles (internal/profile, cmd/mcp-1c-analog/commands.go) and the notes *)
(* of their sessions (internal/workspace).                                 *)
(*                                                                         *)
(* A profile is a file <id>.json that describes one 1C target.  setup      *)
(* saves it and registers its servers in the user's config.toml of Codex,  *)
(* between two marker lines; profile remove takes both away again; profile *)
(* import only writes the file.  Codex then starts "serve --profile <id>   *)
(* --mode <mode>", which turns the profile into the options of the server. *)
(*                                                                         *)
(* Each command is a process of its own and may be killed; files are read  *)
(* whole and replaced whole, without a lock, while the user and Codex edit *)
(* config.toml as well.                                                    *)
(***************************************************************************)
EXTENDS Naturals, Sequences, SequencesExt, FiniteSetsExt

CONSTANTS
  Calls,      \* commands, or calls of a session, that may run at once
  Ids,        \* profile ids
  Longer,     \* Longer[i]: the ids that begin with i and go on
  Flags,      \* sets of fields a user may give to setup or import
  NoJob,      \* a call that does nothing
  Bridges,    \* whether the descriptor of an EDT bridge may be found (\subseteq BOOLEAN)
  Keys,       \* keys of notes
  StartText,  \* config.toml at the start
  MaxCalls, MaxEdits  \* bounds: calls, edits of config.toml

Fields == {"infobase", "server", "platform", "base_url", "dump", "edt_bridge",
           "ditrix_url", "ditrix_project", "external_objects_root", "git_root",
           "unusable"}  \* a base kind or the name of a variable the program does not take
Modes == {"db", "edt"}

\* There is no such file.
NoProfile == {"absent"}

ASSUME ProfilesAssumption ==
  /\ Longer \in [Ids -> SUBSET Ids] /\ \A i \in Ids : i \notin Longer[i]
  /\ Flags \subseteq SUBSET Fields /\ Bridges \subseteq BOOLEAN
  /\ StartText \in Seq([kind : {"own", "text"}, id : Ids, mode : Modes])
  /\ MaxCalls \in Nat /\ MaxEdits \in Nat

\* Lines of config.toml: markers, sections we wrote, sections and other text of the
\* user, and what is left of a marker line that was cut.
Line == [kind : {"begin", "server", "end", "own", "text", "rest"}, id : Ids, mode : Modes]

VARIABLES
  store,    \* store[i]: the fields of profile i that are set
  codex,    \* the lines of config.toml
  notes,    \* notes[k]: the number of the put that wrote note k
  doing, job,  \* what each call does, and with what
  calls, edits,  \* counters of the bounds
  upset     \* history: what happened that may leave a section without its profile

files == <<store, codex, notes>>
profilesVars == <<store, codex, notes, doing, job, calls, edits, upset>>

ProfilesInit ==
  /\ store = [i \in Ids |-> NoProfile] /\ codex = StartText
  /\ notes = [k \in Keys |-> 0]
  /\ doing = [c \in Calls |-> "idle"] /\ job = [c \in Calls |-> NoJob]
  /\ calls = 0 /\ edits = 0 /\ upset = {}

At(c, label) == doing[c] = label
Goto(c, label) == doing' = [doing EXCEPT ![c] = label]
Return(c) == Goto(c, "idle") /\ job' = [job EXCEPT ![c] = NoJob]
Upset(causes) == upset' = upset \cup causes

\* A file is replaced by a new one under a temporary name, whole or not at all.
AtomicWrite(ok, old, new) == IF ok THEN new ELSE old

\* Mutant: any profile is saved.
NormalizeNothing(value) == TRUE

\* What a profile is refused for before it is saved.
Normalize(value) == "unusable" \notin value

Overlap == IF \E c \in Calls : doing[c] \notin {"idle", "note"} THEN {"overlap"} ELSE {}

Begin(c, label, work) ==
  /\ At(c, "idle") /\ calls < MaxCalls /\ calls' = calls + 1
  /\ Goto(c, label) /\ job' = [job EXCEPT ![c] = work]
  /\ UNCHANGED <<files, edits>>

----------------------------------------------------------------------------
(* The managed block of a profile                                          *)

\* A marker of a longer id contains the marker of id.
Marks(l, kind, id) == l.kind = kind /\ l.id \in {id} \cup Longer[id]

\* Mutant: the block ends with the last marker of any profile.
BlockGreedy(text, id) ==
  LET begins == {n \in DOMAIN text : Marks(text[n], "begin", id)}
      ends == {n \in DOMAIN text : text[n].kind = "end"}
  IN  IF begins = {} \/ ends = {} THEN <<>> ELSE <<Min(begins), Max(ends)>>

\* The lines from the first begin marker that matches to the first end marker after
\* it; <<>> without such lines.
Block(text, id) ==
  LET begins == {n \in DOMAIN text : Marks(text[n], "begin", id)}
      ends == {n \in DOMAIN text : Marks(text[n], "end", id) /\ n > Min(begins)}
  IN  IF begins = {} \/ ends = {} THEN <<>> ELSE <<Min(begins), Min(ends)>>

\* What follows the marker in its line stays: the rest of a longer id.
RemoveManagedBlock(text, id) ==
  LET b == Block(text, id) IN
  IF b = <<>> THEN text
  ELSE SubSeq(text, 1, b[1] - 1)
       \o (IF text[b[2]].id = id THEN <<>> ELSE <<[text[b[2]] EXCEPT !.kind = "rest"]>>)
       \o SubSeq(text, b[2] + 1, Len(text))

Wants(value) ==
  {m \in Modes : value \cap (IF m = "db" THEN {"base_url", "infobase", "dump"}
                             ELSE {"edt_bridge", "ditrix_url", "git_root"}) # {}}

RenderCodexBlock(id, value) ==
  LET at(kind, mode) == [kind |-> kind, id |-> id, mode |-> mode]
      section(mode) == IF mode \in Wants(value) THEN <<at("server", mode)>> ELSE <<>>
  IN  <<at("begin", "db")>> \o section("db") \o section("edt") \o <<at("end", "db")>>

\* The block of a longer id stands in the way.
InTheWay(text, id) == \E n \in DOMAIN text : text[n].kind = "begin" /\ text[n].id \in Longer[id]

Taken(text, id) == \E n \in DOMAIN text : text[n].kind \in {"server", "own"} /\ text[n].id = id

----------------------------------------------------------------------------
(* setup                                                                   *)

\* What setup fills in itself.
Completed(flags, found) ==
  flags \cup (IF "ditrix_project" \in flags THEN {"ditrix_url"} ELSE {})
        \cup (IF found THEN {"edt_bridge"} ELSE {})

\* The extension is installed first, unless that is skipped; InstallExtension has how
\* this may end.
SetupStart(c) ==
  \E id \in Ids, flags \in Flags, found \in Bridges, register \in BOOLEAN :
    /\ Begin(c, "save", [id |-> id, value |-> Completed(flags, found),
                         register |-> register])
    /\ Upset(Overlap)

\* The file is replaced; only then comes Codex, if at all.
SetupSave(c) ==
  /\ At(c, "save")
  /\ \E ok \in BOOLEAN :
       /\ ok => Normalize(job[c].value)
       /\ store' = [store EXCEPT ![job[c].id] = AtomicWrite(ok, @, job[c].value)]
       /\ IF ok /\ job[c].register THEN Goto(c, "register") /\ UNCHANGED job ELSE Return(c)
       /\ Upset(IF ok /\ ~job[c].register THEN {"unregistered"} ELSE {})
  /\ UNCHANGED <<codex, notes, calls, edits>>

\* The file was read, and is to be replaced by text.
Rewrites(c, label, text) ==
  /\ Goto(c, label)
  /\ job' = [job EXCEPT ![c] = [id |-> job[c].id, read |-> codex, write |-> text]]
  /\ Upset(IF InTheWay(codex, job[c].id) THEN {"longer"} ELSE {})

\* The profile is read again; what became of it meanwhile is not asked, an empty one
\* is refused.  A section of the same name is refused unless the profile has a block.
UpdateRead(c) ==
  LET id == job[c].id IN
  /\ At(c, "register")
  /\ \/ /\ store[id] # NoProfile
        /\ Block(codex, id) # <<>> \/ ~Taken(codex, id)
        /\ Rewrites(c, "write", RemoveManagedBlock(codex, id) \o RenderCodexBlock(id, store[id]))
     \/ Return(c) /\ Upset({"unregistered"})
  /\ UNCHANGED <<files, calls, edits>>

\* A backup of the text read is written, then the whole file replaced; both may fail.
UpdateWrite(c) ==
  /\ At(c, "write")
  /\ \E ok \in BOOLEAN : /\ codex' = AtomicWrite(ok, codex, job[c].write)
                       /\ Upset(IF ok THEN {} ELSE {"unregistered"})
  /\ Return(c) /\ UNCHANGED <<store, notes, calls, edits>>

----------------------------------------------------------------------------
(* profile remove, profile import                                          *)

\* The id may be given in capitals: the file is found all the same.
RemoveStart(c) ==
  \E id \in Ids, exact \in BOOLEAN :
    /\ Begin(c, "deregister", [id |-> id, exact |-> exact])
    /\ Upset(Overlap \cup IF exact THEN {} ELSE {"capitals"})

\* Mutant: the profile's file is looked for, its block is not.
DeregisterReadNot(c) ==
  /\ At(c, "deregister") /\ Goto(c, "forget") /\ UNCHANGED <<files, job, calls, edits, upset>>

\* Without a block under the id as it was given there is nothing to do.
DeregisterRead(c) ==
  LET id == job[c].id IN
  /\ At(c, "deregister")
  /\ \/ /\ job[c].exact /\ Block(codex, id) # <<>>
        /\ Rewrites(c, "rewrite", RemoveManagedBlock(codex, id))
     \/ /\ job[c].exact => Block(codex, id) = <<>>
        /\ Goto(c, "forget") /\ UNCHANGED <<job, upset>>
  /\ UNCHANGED <<files, calls, edits>>

\* Whether this succeeds is not asked.
DeregisterWrite(c) ==
  /\ At(c, "rewrite") /\ Goto(c, "forget")
  /\ \E ok \in BOOLEAN : /\ codex' = AtomicWrite(ok, codex, job[c].write)
                       /\ Upset(IF ok THEN {} ELSE {"refused"})
  /\ UNCHANGED <<store, notes, job, calls, edits>>

RemoveProfile(c) ==
  /\ At(c, "forget") /\ Return(c)
  /\ store' \in {store, [store EXCEPT ![job[c].id] = NoProfile]}
  /\ UNCHANGED <<codex, notes, calls, edits, upset>>

\* Import replaces a profile of the same id, and leaves Codex as it is.
Import(c, id, flags) ==
  /\ At(c, "idle") /\ calls < MaxCalls /\ calls' = calls + 1
  /\ Normalize(flags) /\ store' = [store EXCEPT ![id] = flags]
  /\ Upset(Overlap \cup {"unregistered"})
  /\ UNCHANGED <<codex, notes, doing, job, edits>>

----------------------------------------------------------------------------
(* serve: from the profile to the options of the server                    *)

Options(value, mode) ==
  LET when(cond, options) == IF cond THEN options ELSE {} IN
  (value \cap {"git_root", "dump"})
  \cup when(mode = "db",
            (value \cap {"base_url"})
            \cup when({"platform", "infobase"} \subseteq value /\ "server" \notin value,
                      {"platform", "infobase"}))
  \cup when(mode = "edt",
            (value \cap {"edt_bridge", "external_objects_root"})
            \cup when({"ditrix_url", "ditrix_project"} \subseteq value,
                      {"ditrix_url", "ditrix_project"}))

\* What the server refuses to start with.
Accepted(options) ==
  /\ "ditrix_url" \in options <=> "ditrix_project" \in options
  /\ "edt_bridge" \in options => options \cap {"platform", "infobase"} = {}
  /\ "platform" \in options <=> "infobase" \in options
  /\ "external_objects_root" \in options => {"edt_bridge", "ditrix_url"} \subseteq options

----------------------------------------------------------------------------
(* Notes: memory_put of a session                                          *)

PutRead(c) ==
  \E k \in Keys : Begin(c, "note", [key |-> k, read |-> notes, put |-> calls + 1]) /\ UNCHANGED upset

\* All notes are written as they were read, but for the one put.
PutWrite(c) ==
  /\ At(c, "note") /\ Return(c)
  /\ \E ok \in BOOLEAN :
       notes' = AtomicWrite(ok, notes, [job[c].read EXCEPT ![job[c].key] = job[c].put])
  /\ UNCHANGED <<store, codex, calls, edits, upset>>

----------------------------------------------------------------------------
(* The others                                                              *)

\* A command or a session is killed; a setup between its two files leaves them apart.
Kill(c) ==
  /\ doing[c] # "idle" /\ Return(c)
  /\ Upset(IF doing[c] \in {"register", "write"} THEN {"unregistered"} ELSE {})
  /\ UNCHANGED <<files, calls, edits>>

\* The user, or Codex, adds a section or other text at the end of config.toml, or
\* takes it out again.
Edit(l) ==
  /\ edits < MaxEdits /\ edits' = edits + 1
  /\ IF Contains(codex, l)
       THEN \E n \in DOMAIN codex : codex[n] = l /\ codex' = RemoveAt(codex, n)
       ELSE codex' = Append(codex, l)
  /\ UNCHANGED <<store, notes, doing, job, calls, upset>>

ProfilesNext ==
  \/ \E c \in Calls :
       \/ SetupStart(c) \/ SetupSave(c) \/ UpdateRead(c) \/ UpdateWrite(c)
       \/ RemoveStart(c) \/ DeregisterRead(c) \/ DeregisterWrite(c) \/ RemoveProfile(c)
       \/ \E id \in Ids, flags \in Flags : Import(c, id, flags)
       \/ PutRead(c) \/ PutWrite(c) \/ Kill(c)
  \/ \E l \in [kind : {"own", "text"}, id : Ids, mode : {"db"}] : Edit(l)

ProfilesSpec == ProfilesInit /\ [][ProfilesNext]_profilesVars

----------------------------------------------------------------------------
\* The files hold what can be written to them, and a call that is over no work.
ProfilesTypeOK ==
  /\ store \in [Ids -> (SUBSET (Fields \ {"unusable"})) \cup {NoProfile}]
  /\ codex \in Seq(Line) /\ notes \in [Keys -> 0..MaxCalls]
  /\ doing \in [Calls -> {"idle", "save", "register", "write", "deregister", "rewrite",
                       "forget", "note"}]
  /\ \A c \in Calls : At(c, "idle") => job[c] = NoJob
  /\ calls \in 0..MaxCalls /\ edits \in 0..MaxEdits
  /\ upset \subseteq {"overlap", "unregistered", "longer", "capitals", "refused"}

\* Where config.toml has lines that a command for profile id has no business with.
Others(text, id) ==
  {n \in DOMAIN text : \/ text[n].kind \in {"own", "text"}
                       \/ text[n].kind # "rest" /\ text[n].id \notin {id} \cup Longer[id]}

\* How many of the places are before n.
Rank(places, n) == Cardinality({m \in places : m < n})

\* The other lines of both texts are the same, in the same order.
SameOthers(old, new, id) ==
  /\ Cardinality(Others(old, id)) = Cardinality(Others(new, id))
  /\ \A n \in Others(old, id), m \in Others(new, id) :
       Rank(Others(old, id), n) = Rank(Others(new, id), m) => old[n] = new[m]

\* "Appends or replaces only blocks previously managed by this application": what is
\* in config.toml besides stays as it was and in its order, a section somebody else
\* wrote is not doubled by a profile that had no block, and a note keeps the others -
\* unless the file was changed after it was read.  (Profiles whose id only begins
\* like this one are not spared, see README.)
NothingIsLost ==
  [][\A c \in Calls :
       /\ (doing[c] \in {"write", "rewrite"} /\ doing'[c] # doing[c] /\ codex' # codex
           /\ job[c].read = codex) =>
            LET id == job[c].id IN
            /\ SameOthers(codex, codex', id)
            /\ Block(codex, id) # <<>> \/ ~Taken(codex, id)
       /\ (At(c, "note") /\ doing'[c] # doing[c] /\ notes' # notes /\ job[c].read = notes) =>
            \A k \in Keys \ {job[c].key} : notes'[k] = notes[k]]_profilesVars

\* A server that Codex is told to start has its profile at every moment of every
\* command, unless commands overlapped, the removal was refused by the system or
\* given in capitals, or blocks of longer ids stood in the way.  Between commands
\* the profile asks for the server's mode, unless it was written without registering
\* it.  And the server does not refuse its options, but for a root of external
\* objects without the two connections that takes.
RegisteredIsServed ==
  \A n \in DOMAIN codex :
    LET l == codex[n]
        value == store[l.id]
    IN  l.kind = "server" =>
          /\ upset \subseteq {"unregistered"} => value # NoProfile
          /\ (upset = {} /\ \A c \in Calls : At(c, "idle")) => l.mode \in Wants(value)
          /\ value # NoProfile =>
               \/ Accepted(Options(value, l.mode))
               \/ l.mode = "edt" /\ "external_objects_root" \in value
                  /\ ~({"edt_bridge", "ditrix_url", "ditrix_project"} \subseteq value)

=============================================================================
