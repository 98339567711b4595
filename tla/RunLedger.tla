------------------------------ MODULE RunLedger ------------------------------
(***************************************************************************)
(* How the run store keeps one run in SQLite (run_integrity/store.py): an  *)
(* append-only table of evidence rows, keyed by sequence number, and a     *)
(* materialised projection, used by several connections of different       *)
(* processes.  RunStore says what the events mean; here an event is only   *)
(* an identifier, and a projection is the sequence of rows it was folded   *)
(* from, which is all that replay, digests and sequence numbers can tell.  *)
(*                                                                         *)
(* A transaction holds the write lock from BEGIN IMMEDIATE on, sees its    *)
(* own writes, and ends in a commit or a rollback.  Everyone else reads    *)
(* the last committed state (WAL).  rebuild_projection reads the evidence  *)
(* before its transaction begins (store.py 1085).                          *)
(***************************************************************************)
EXTENDS Sequences, Naturals

CONSTANTS
    Connections, NoConnection,
    Evidence, NoEvidence         \* event ids; the bound on what is appended

ASSUME LedgerAssumption ==
    /\ NoConnection \notin Connections
    /\ NoEvidence \notin Evidence

VARIABLES
    log,        \* the table run_evidence: sequence number |-> row
    proj,       \* the row of run_projections, << >> if there is none
    lock,       \* the connection that holds SQLite's write lock
    mode,       \* what each connection is doing
    work,       \* its uncommitted log and projection
    replayed    \* the projection a rebuild is about to write

vars == <<log, proj, lock, mode, work, replayed>>

Row   == [id : Evidence, previous : Evidence \cup {NoEvidence}]
Store == [log : Seq(Row), proj : Seq(Row)]

IdsOf(rows) == {rows[n].id : n \in DOMAIN rows}
LastId(p)   == IF p = << >> THEN NoEvidence ELSE p[Len(p)].id
Committed   == [log |-> log, proj |-> proj]
NoWork      == [log |-> << >>, proj |-> << >>]

Init ==
    /\ log = << >> /\ proj = << >>
    /\ lock = NoConnection
    /\ mode = [c \in Connections |-> "idle"]
    /\ work = [c \in Connections |-> NoWork]
    /\ replayed = [c \in Connections |-> << >>]

-----------------------------------------------------------------------------
(* Transactions: any number of appends between BEGIN and COMMIT.           *)

Begin(c) ==
    /\ mode[c] = "idle"
    /\ lock = NoConnection
    /\ lock' = c
    /\ mode' = [mode EXCEPT ![c] = "writing"]
    /\ work' = [work EXCEPT ![c] = Committed]
    /\ UNCHANGED <<log, proj, replayed>>

\* _append_locked takes the sequence number and the previous digest from the
\* projection.  UNIQUE (run_id, sequence) refuses a number that is taken.
\* Seeded fault: the number follows the log, not the projection.
SequenceOfLog(w) == Len(w.log) + 1
NextSequence(w) == Len(w.proj) + 1
NewRow(w, e)    == [id |-> e, previous |-> LastId(w.proj)]
\* Seeded fault: no uniqueness of (run_id, sequence).
NeverTaken(w)   == FALSE
Taken(w)        == NextSequence(w) \in DOMAIN w.log
Inserted(w, e)  ==
    [log  |-> [n \in DOMAIN w.log \cup {NextSequence(w)} |->
                  IF n = NextSequence(w) THEN NewRow(w, e) ELSE w.log[n]],
     proj |-> Append(w.proj, NewRow(w, e))]

AppendRow(c, e) ==
    /\ mode[c] = "writing"
    /\ e \notin IdsOf(work[c].log)
    /\ ~ Taken(work[c])
    /\ work' = [work EXCEPT ![c] = Inserted(@, e)]
    /\ UNCHANGED <<log, proj, lock, mode, replayed>>

Commit(c) ==
    /\ mode[c] = "writing"
    /\ log' = work[c].log
    /\ proj' = work[c].proj
    /\ lock' = NoConnection
    /\ mode' = [mode EXCEPT ![c] = "idle"]
    /\ work' = [work EXCEPT ![c] = NoWork]
    /\ UNCHANGED replayed

\* An exception (of the kernel, of the caller, sqlite3.IntegrityError)
\* rolls the transaction back; so does the death of the process.
\* Seeded fault: the projection is written outside the transaction.
ForgetKeepingProjection(c) ==
    /\ lock' = IF lock = c THEN NoConnection ELSE lock
    /\ mode' = [mode EXCEPT ![c] = "idle"]
    /\ proj' = IF mode[c] = "writing" THEN work[c].proj ELSE proj
    /\ work' = [work EXCEPT ![c] = NoWork]
    /\ replayed' = [replayed EXCEPT ![c] = << >>]
    /\ UNCHANGED log
Forget(c) ==
    /\ lock' = IF lock = c THEN NoConnection ELSE lock
    /\ mode' = [mode EXCEPT ![c] = "idle"]
    /\ work' = [work EXCEPT ![c] = NoWork]
    /\ replayed' = [replayed EXCEPT ![c] = << >>]
    /\ UNCHANGED <<log, proj>>
Rollback(c) == mode[c] = "writing" /\ Forget(c)
Crash(c)    == mode[c] # "idle" /\ Forget(c)

\* commit() itself raises (a full disk): _transaction does not roll back, so
\* the connection keeps the lock, and cannot begin again, until it is closed.
CommitFails(c) ==
    /\ mode[c] = "writing"
    /\ mode' = [mode EXCEPT ![c] = "stuck"]
    /\ UNCHANGED <<log, proj, lock, work, replayed>>

-----------------------------------------------------------------------------
(* The projection is disposable.                                           *)

\* Somebody deletes the row of run_projections.
DropProjection(c) ==
    /\ mode[c] = "idle"
    /\ lock = NoConnection
    /\ proj # << >>
    /\ proj' = << >>
    /\ UNCHANGED <<log, lock, mode, work, replayed>>

\* rebuild_projection: replay the committed evidence, ...
RebuildRead(c) ==
    /\ mode[c] = "idle"
    /\ log # << >>
    /\ replayed' = [replayed EXCEPT ![c] = log]
    /\ mode' = [mode EXCEPT ![c] = "rebuilding"]
    /\ UNCHANGED <<log, proj, lock, work>>

\* ... then write the result in a transaction.
RebuildWrite(c) ==
    /\ mode[c] = "rebuilding"
    /\ lock = NoConnection
    /\ proj' = replayed[c]
    /\ mode' = [mode EXCEPT ![c] = "idle"]
    /\ replayed' = [replayed EXCEPT ![c] = << >>]
    /\ UNCHANGED <<log, lock, work>>

-----------------------------------------------------------------------------
Next ==
    \/ \E c \in Connections :
         \/ Begin(c)
         \/ Commit(c)
         \/ Rollback(c)
         \/ Crash(c)
         \/ CommitFails(c)
         \/ DropProjection(c)
         \/ RebuildRead(c)
         \/ RebuildWrite(c)
    \/ \E c \in Connections, e \in Evidence : AppendRow(c, e)

Spec == Init /\ [][Next]_vars

-----------------------------------------------------------------------------
(* Properties.                                                             *)

Mode == {"idle", "writing", "stuck", "rebuilding"}

\* The types, and the lock: it is held exactly by the connection that is
\* inside a transaction, or could not end one.
TypeOK ==
    /\ Committed \in Store
    /\ lock \in Connections \cup {NoConnection}
    /\ mode \in [Connections -> Mode]
    /\ work \in [Connections -> Store]
    /\ replayed \in [Connections -> Seq(Row)]
    /\ \A c \in Connections : mode[c] \in {"writing", "stuck"} <=> lock = c

Chained(rows) ==
    /\ \A n \in DOMAIN rows :
         rows[n].previous = IF n = 1 THEN NoEvidence ELSE rows[n - 1].id
    /\ \A m, n \in DOMAIN rows : rows[m].id = rows[n].id => m = n

\* The evidence stream is one chain without gaps, forks or repeated events
\* (kernel.py verifies it on replay): whatever the connections, crashes and
\* rebuilds do, replay of the committed log never raises.
LogIsChain == Chained(log)

Prefix(p, rows) == Len(p) <= Len(rows) /\ \A n \in 1..Len(p) : p[n] = rows[n]

\* The projection is always what some prefix of the log replays to: readers
\* may see an old state of the run, never one it was not in.
ProjectionIsPrefix == Prefix(proj, log)

\* The log only grows, and only over a current projection: an append by a
\* connection whose projection is behind is refused, it neither forks the
\* chain nor overwrites a row (store.py 111, 214-227).
AppendsKeepProjection ==
    [][/\ Prefix(log, log')
       /\ log' # log => proj = log /\ proj' = log']_vars

\* store.py 77-79: the projection is "transactionally maintained" and "can be
\* rebuilt from the evidence stream at any time".
RebuildIsCurrent ==
    [][(\E c \in Connections : RebuildWrite(c)) => proj' = log']_vars

-----------------------------------------------------------------------------
(* The inductive invariant: a transaction under way extends the committed  *)
(* state, on top of a projection that is current if anything was added.    *)

WorkExtends(c) ==
    /\ Chained(work[c].log)
    /\ Prefix(log, work[c].log)
    /\ Prefix(work[c].proj, work[c].log)
    /\ work[c].log # log => proj = log /\ work[c].proj = work[c].log
    /\ work[c].log = log => work[c].proj = proj

LedgerInv ==
    /\ TypeOK
    /\ LogIsChain
    /\ ProjectionIsPrefix
    /\ \A c \in Connections : mode[c] = "writing" => WorkExtends(c)
    /\ \A c \in Connections : mode[c] = "rebuilding" => Prefix(replayed[c], log)
=============================================================================
