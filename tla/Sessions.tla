-------------------------------- MODULE Sessions --------------------------------
(***************************************************************************)
(* The session tree and its files (pig_agent_core/session.py) as the coding*)
(* agent uses them (app_actions.py, agent.py): one process at a time works *)
(* on the sessions of a directory, and may crash.                          *)
(*                                                                         *)
(* An operation is a step: nothing else happens in the process meanwhile,  *)
(* and a crash in the midst of it leaves on disk what a failing save does. *)
(* Entries never change once made, so those of all sessions are kept in one*)
(* sequence.  A message is named by the entry it was first said in; of its *)
(* text only that is kept.  A file is named by the session's id: names,    *)
(* labels and usage are left out.                                          *)
(***************************************************************************)
EXTENDS Naturals, SequencesExt, FiniteSetsExt

CONSTANTS
    MaxEntries,    \* bound: entries there are
    MaxSessions,   \* bound: sessions there are
    Long,          \* the length up to which a path is not compacted: 10
    Recent,        \* the entries a compaction keeps: 5
    Kept,          \* those an overflow recovery keeps at most: 4
    None

ASSUME SessionsAssumption ==
    /\ MaxEntries \in Nat /\ MaxSessions \in Nat \ {0} /\ Long \in Nat /\ Kept \in Nat
    /\ Recent \in 1..Long
    /\ None \notin [has : SUBSET Nat, tip : Nat]
    /\ None \notin [id : Nat, has : SUBSET Nat, tip : Nat]
    /\ None \notin [id : Nat, has : SUBSET Nat, tip : Nat, auto : BOOLEAN]

VARIABLES
    entries,    \* the entries of all sessions, in the order they were made
    files,      \* the file of a session, None if there is none
    open,       \* the session the process works on, None if it does not run
    lag,        \* the last save of the open session failed
    summary,    \* the branch that is being summarised
    copy        \* a session's file that the user has outside of the directory

vars == <<entries, files, open, lag, summary, copy>>

Ids == 1..MaxSessions
Unused == {i \in Ids : /\ files[i] = None
                       /\ open # None => open.id # i
                       /\ copy # None => copy.id # i}
NewId == Min(Unused)

-----------------------------------------------------------------------------
(* The tree.                                                               *)

\* get_path_to_entry
Path(e) ==
    LET path[i \in 0..Len(entries)] ==
          IF i = 0 THEN <<>> ELSE Append(path[entries[i].parent], i)
    IN path[e]

Contents(path) ==
    [i \in DOMAIN path |-> [says |-> entries[path[i]].says, tools |-> entries[path[i]].tools]]

SaysAll(path)  == UNION {entries[e].says : e \in ToSet(path)}
ToolsAll(path) == UNION {entries[e].tools : e \in ToSet(path)}

\* A chain of new entries below p.
Chain(p, contents) ==
    [i \in DOMAIN contents |->
        [parent |-> IF i = 1 THEN p ELSE Len(entries) + i - 1,
         says |-> contents[i].says, tools |-> contents[i].tools]]

NewIds(n) == Len(entries) + 1 .. Len(entries) + n
Room(n) == Len(entries) + n <= MaxEntries

Fresh(i)    == [id |-> i, has |-> {}, tip |-> 0, auto |-> TRUE]
At(s, e)    == [s EXCEPT !.tip = e]
Grown(s, n) == [s EXCEPT !.has = @ \cup NewIds(n), !.tip = Len(entries) + n]

-----------------------------------------------------------------------------
(* Saving.                                                                 *)

Snapshot(s)  == [has |-> s.has, tip |-> s.tip]
\* Session.load
Loaded(i, f) == [id |-> i, has |-> f.has, tip |-> f.tip, auto |-> FALSE]

\* A save of session s; if it fails, undo is open and the operation is over.
Write(s, undo)    == [write |-> s, undo |-> undo]
AutoSave(s, undo) == IF s.auto THEN <<Write(s, undo)>> ELSE <<>>

\* What the files are after the first j saves and, if there are more, one that
\* did not come to its os.replace.  Seeded fault: it was made in place.
After(saves, j) ==
    [i \in Ids |->
        LET mine == {k \in 1..j : saves[k].write.id = i} IN
        IF mine = {} THEN files[i] ELSE Snapshot(saves[Max(mine)].write)]
InPlace(saves, j) ==
    IF j = Len(saves) THEN After(saves, j)
    ELSE LET s == saves[j + 1].write IN
         [After(saves, j) EXCEPT ![s.id] = [has |-> {}, tip |-> s.tip]]
Written(saves, j) == After(saves, j)

\* An operation that makes the new entries.  Its saves succeed, and then `done`
\* is open, or the one after the j-th fails.
Saves(new, saves, done) ==
    /\ \E j \in 0..Len(saves) :
           /\ files' = Written(saves, j)
           /\ IF j = Len(saves)
              THEN open' = done /\ lag' = FALSE
              ELSE LET undo == saves[j + 1].undo IN
                   /\ open' = undo
                   /\ lag' = \/ undo = saves[j + 1].write
                             \/ lag /\ \A k \in 1..j : saves[k].write.id # open.id
    /\ entries' = IF open' = open /\ files' = files THEN entries ELSE entries \o new

-----------------------------------------------------------------------------
(* A session's own operations.                                             *)

Idle == open # None /\ summary = None

\* add_message, add_tool_result.  Each message is taken for a tool's result that
\* activates a tool of its own.
Say ==
    /\ open # None /\ Room(1)
    /\ LET s == Grown(open, 1)
           new == Chain(open.tip, <<[says |-> NewIds(1), tools |-> NewIds(1)]>>)
       IN  Saves(new, AutoSave(s, s), s)
    /\ UNCHANGED <<summary, copy>>

\* branch_to
Move(e) ==
    /\ open # None /\ summary # None /\ e \in open.has
    /\ Saves(<<>>, AutoSave(At(open, e), At(open, e)), At(open, e))
    /\ UNCHANGED <<summary, copy>>

\* Session.compact: the branch is replaced, for the open session, by a new one
\* with the given contents; its root inherits the branch's tools.  A failed save
\* takes all of it back.  Seeded faults: only the tree is taken back, not its
\* tip; the old branches are dropped.
UndoneTree(s)   == [s EXCEPT !.tip = Max(s.has)]
Undone(s)       == s
DropOld(s, n)   == [s EXCEPT !.has = NewIds(n), !.tip = Len(entries) + n]
Compacted(s, n) == Grown(s, n)
Compact(contents, receipts) ==
    LET n == Len(contents)
        s == Compacted(open, n)
    IN  /\ Room(n)
        /\ Saves(Chain(0, [contents EXCEPT ![1].tools = @ \cup ToolsAll(Path(open.tip))]),
                 IF s.auto
                 THEN <<Write(s, Undone(open))>> \o [i \in 1..receipts |-> Write(s, s)]
                 ELSE <<>>, s)
        /\ UNCHANGED copy

\* Overflow recovery, when the retry with the shortened history has succeeded
\* (Agent._handle_resilience_event): its messages are excerpts of the branch and
\* up to Kept of its last ones.  An excerpt does not say what the message said.
\* The receipt is added after the compaction, and saved again.
OverflowRecovered(k) ==
    LET path == Path(open.tip)
        tail == SubSeq(path, Len(path) - k + 1, Len(path))
    IN  /\ Idle
        /\ Len(path) > 1 /\ k < Len(path)
        /\ Compact(<<[says |-> {}, tools |-> {}]>> \o Contents(tail), 1)
        /\ UNCHANGED summary

-----------------------------------------------------------------------------
(* Semantic compaction (Agent.compact_session).  While the provider        *)
(* summarises, an embedding host may go on with the session.               *)

BeginSummary ==
    /\ Idle
    /\ Len(Path(open.tip)) > Long
    /\ summary' = [id |-> open.id, path |-> Path(open.tip)]
    /\ UNCHANGED <<entries, files, open, lag, copy>>

\* Seeded fault: the branch is not looked at again.
SameSession  == open.id = summary.id
StillCurrent == open.id = summary.id /\ Path(open.tip) = summary.path

Summarised ==
    LET path == summary.path
        old  == SubSeq(path, 1, Len(path) - Recent)
        tail == SubSeq(path, Len(path) - Recent + 1, Len(path))
    IN  /\ open # None /\ summary # None
        /\ StillCurrent
        /\ Compact(<<[says |-> SaysAll(old), tools |-> {}]>> \o Contents(tail), 0)
        /\ summary' = None

\* The call fails, its answer is no summary, or the branch has changed.
SummaryDropped ==
    /\ open # None /\ summary # None
    /\ summary' = None
    /\ UNCHANGED <<entries, files, open, lag, copy>>

-----------------------------------------------------------------------------
(* Operations of the application (app_actions.py).  They run between turns.*)

\* label_tree, name_session, reload_resources
Save ==
    /\ Idle
    /\ Saves(<<>>, <<Write(open, open)>>, open)
    /\ UNCHANGED <<summary, copy>>

\* switch_tree
SwitchTree(e) ==
    /\ Idle /\ e \in open.has
    /\ LET s == At(open, e) IN Saves(<<>>, <<Write(open, open)>> \o AutoSave(s, s), s)
    /\ UNCHANGED <<summary, copy>>

\* new_session
NewSession ==
    /\ Idle /\ Unused # {}
    /\ Saves(<<>>, <<Write(open, open)>>, Fresh(NewId))
    /\ UNCHANGED <<summary, copy>>

\* resume_session: the file is read before the open session is saved, which may
\* be its own.
ResumeSession(i) ==
    /\ Idle /\ files[i] # None
    /\ Saves(<<>>, <<Write(open, open)>>, Loaded(i, files[i]))
    /\ UNCHANGED <<summary, copy>>

\* import_session: what is loaded is saved first, over the file of the session that
\* has the same id, if there is one.
ImportSession ==
    /\ Idle /\ copy # None
    /\ LET s == Loaded(copy.id, copy) IN Saves(<<>>, <<Write(s, open), Write(open, open)>>, s)
    /\ UNCHANGED <<summary, copy>>

\* Session.fork: the entries of a path are added one by one to a new session,
\* which saves itself after each if the old one does.
Forked(n, auto) == [id |-> NewId, has |-> NewIds(n), tip |-> Len(entries) + n, auto |-> auto]
ForkSaves(n) ==
    IF open.auto
    THEN [i \in 1..n |-> Write(Forked(i, TRUE), open)]
    ELSE <<>>
CanFork(path) == path # <<>> /\ Room(Len(path)) /\ Unused # {}

\* fork_tree_entry, fork_session
ForkTree(e) ==
    LET n == Len(Path(e))
        s == Forked(n, open.auto)
    IN  /\ Idle /\ e \in open.has
        /\ CanFork(Path(e))
        /\ Saves(Chain(0, Contents(Path(e))), <<Write(open, open)>> \o ForkSaves(n) \o <<Write(s, open)>>, s)
        /\ UNCHANGED <<summary, copy>>

\* clone_session
CloneSession ==
    LET n == Len(Path(open.tip))
        s == Forked(n, open.auto)
    IN  /\ Idle
        /\ CanFork(Path(open.tip))
        /\ Saves(Chain(0, Contents(Path(open.tip))), ForkSaves(n) \o <<Write(s, open), Write(open, open)>>, s)
        /\ UNCHANGED <<summary, copy>>

-----------------------------------------------------------------------------
(* The process, and its user.  Entries that are in no file go with it.     *)

Trees == ({files[i] : i \in Ids} \cup {open, copy}) \ {None}
InTrees == UNION {s.has : s \in Trees}

Starts(s) ==
    /\ open' = s
    /\ UNCHANGED <<files, lag, summary, copy>>

StartNew ==
    /\ open = None /\ Unused # {}
    /\ Starts(Fresh(NewId))
    /\ UNCHANGED entries

StartResume(i) ==
    /\ open = None /\ files[i] # None
    /\ Starts(Loaded(i, files[i]))
    /\ UNCHANGED entries

\* The fork of a loaded session does not save itself, and nobody else does.
StartFork(i) ==
    /\ open = None /\ files[i] # None
    /\ CanFork(Path(files[i].tip))
    /\ Starts(Forked(Len(Path(files[i].tip)), FALSE))
    /\ entries' = entries \o Chain(0, Contents(Path(files[i].tip)))

\* _finalize_interactive_session
Exit ==
    /\ Idle
    /\ open' = None /\ lag' = FALSE
    /\ UNCHANGED <<files, summary, copy>>
    /\ entries' = SubSeq(entries, 1, Max(InTrees' \cup {0}))

Crash ==
    /\ open # None
    /\ open' = None /\ lag' = FALSE /\ summary' = None
    /\ UNCHANGED <<files, copy>>
    /\ entries' = SubSeq(entries, 1, Max(InTrees' \cup {0}))

\* The user copies a file to another place.  Bound: one copy.
CopyFile(i) ==
    /\ copy = None /\ files[i] # None
    /\ copy' = [id |-> i, has |-> files[i].has, tip |-> files[i].tip]
    /\ UNCHANGED <<entries, files, open, lag, summary>>

-----------------------------------------------------------------------------
\* The user may have the file of a session of another directory.  Bound: one
\* message.
Init ==
    /\ \/ entries = <<>> /\ copy = None
       \/ /\ entries = <<[parent |-> 0, says |-> {1}, tools |-> {1}]>>
          /\ copy = [id |-> 1, has |-> {1}, tip |-> 1]
    /\ files = [i \in Ids |-> None]
    /\ open = None /\ lag = FALSE
    /\ summary = None

Next ==
    \/ \E e \in 1..Len(entries) : Move(e) \/ SwitchTree(e) \/ ForkTree(e)
    \/ \E k \in 0..Kept : OverflowRecovered(k)
    \/ Say \/ BeginSummary \/ Summarised \/ SummaryDropped
    \/ Save \/ NewSession \/ CloneSession \/ ImportSession
    \/ StartNew \/ Exit \/ Crash
    \/ \E i \in Ids : ResumeSession(i) \/ StartResume(i) \/ StartFork(i) \/ CopyFile(i)

Spec == Init /\ [][Next]_vars

-----------------------------------------------------------------------------
(* Properties.                                                             *)

\* Whatever is open or on disk is a whole tree: its tip and the parents of its
\* entries are there (session.py 627-653), and a crash or a failing write at any
\* moment leaves it so.
Whole(s) ==
    /\ s.has \subseteq 1..Len(entries)
    /\ s.tip \in s.has \cup {0} /\ (s.tip = 0 <=> s.has = {})
    /\ \A e \in s.has : entries[e].parent \in s.has \cup {0}
TreesWhole ==
    /\ \A e \in DOMAIN entries : entries[e].parent \in 0..e - 1
    /\ \A s \in Trees : Whole(s)

\* Between operations the file of a session that saves itself is the session,
\* unless the last message could not be saved: a failing compaction leaves both
\* as they were (pi-parity-matrix.md:28).
AutoSaved ==
    open # None /\ open.auto /\ open.has # {} /\ ~ lag => files[open.id] = Snapshot(open)

\* What was said in a session is not lost by going on, turning to another session,
\* branching or compaction, and what was saved not by any step at all, a crash or a
\* failing save included, but in two cases: an import is put over the session's
\* file; or the session that is open is older than its file, and saved.  A session
\* comes to be older than its file only by an import, or when the open one is
\* resumed.
Saved(i) == IF files[i] = None THEN {} ELSE UNION {entries[e].says : e \in files[i].has}
Known(i) ==
    Saved(i) \cup
    IF open # None /\ open.id = i THEN UNION {entries[e].says : e \in open.has} ELSE {}
Older(i) ==
    /\ open # None /\ open.id = i /\ files[i] # None
    /\ ~ files[i].has \subseteq open.has
NothingIsLost ==
    [][\A i \in Ids :
         \/ /\ Saved(i) \subseteq Saved(i)'
            /\ open' # None => Known(i) \subseteq Known(i)'
            /\ Older(i)' => open # None /\ open.id = i /\ ResumeSession(i)
         \/ Older(i)
         \/ ImportSession /\ copy.id = i]_vars

\* A compaction forgets no activated tool; and a semantic one forgets nothing that
\* was said on the branch, up to the moment it takes effect, and keeps the last
\* messages as they were.
Replaced ==
    /\ open # None /\ open' # None /\ open'.id = open.id /\ open.has # {}
    /\ \E e \in open'.has : e > Len(entries) /\ entries'[e].parent = 0
LastSays(path) ==
    [i \in 1..Recent |-> entries[path[Len(path) - Recent + i]].says]
CompactionKeepsBranch ==
    [][Replaced =>
         /\ ToolsAll(Path(open.tip)) = ToolsAll(Path(open.tip))'
         /\ summary # None =>
              /\ SaysAll(Path(open.tip)) = SaysAll(Path(open.tip))'
              /\ LastSays(Path(open.tip)) = LastSays(Path(open.tip))']_vars

\* A session is in its file when the program says "Session saved" and ends
\* (interactive_mode.py 119).
SavedAsTold ==
    [][Exit /\ open.has # {} /\ ~ lag =>
         files[open.id] # None /\ open.has \subseteq files[open.id].has]_vars
=============================================================================
