--------------------------- MODULE RunLedgerProofs ---------------------------
(***************************************************************************)
(* RunLedger for any number of connections and events: the committed       *)
(* evidence is one chain, the projection is a prefix of it, and only a     *)
(* current projection can be appended to.  The argument is the invariant   *)
(* LedgerInv: what a transaction has not yet committed extends the         *)
(* committed state, because it holds the lock.                             *)
(***************************************************************************)
EXTENDS RunLedger, TLAPS

\* A prefix of a prefix, and antisymmetry, for sequences of rows.
LEMMA PrefixTransitive ==
    ASSUME NEW p \in Seq(Row), NEW q \in Seq(Row), NEW r \in Seq(Row),
           Prefix(p, q), Prefix(q, r)
    PROVE  Prefix(p, r)
BY DEF Prefix

LEMMA PrefixReflexive ==
    ASSUME NEW p \in Seq(Row)
    PROVE  Prefix(p, p) /\ Prefix(<< >>, p)
BY DEF Prefix

\* INSERT into the table and into the projection: when the sequence number
\* after the projection is free, the projection was the whole log, and both
\* grow by the same row, which continues the chain.
LEMMA InsertExtends ==
    ASSUME NEW w \in Store, NEW e \in Evidence,
           Chained(w.log), Prefix(w.proj, w.log),
           e \notin IdsOf(w.log), ~ Taken(w)
    PROVE  /\ w.proj = w.log
           /\ Inserted(w, e) \in Store
           /\ Inserted(w, e).proj = Inserted(w, e).log
           /\ Prefix(w.log, Inserted(w, e).log)
           /\ Len(Inserted(w, e).log) = Len(w.log) + 1
           /\ Chained(Inserted(w, e).log)
<1> DEFINE k == Len(w.log) + 1
           row == NewRow(w, e)
           new == Append(w.log, row)
<1>1. w.log \in Seq(Row) /\ w.proj \in Seq(Row)
  BY DEF Store
<1>2. Len(w.proj) = Len(w.log)
  BY <1>1 DEF Taken, NextSequence, Prefix
<1>3. w.proj = w.log
  BY <1>1, <1>2 DEF Prefix
<1>4. row \in Row
  <2>1. LastId(w.proj) \in Evidence \cup {NoEvidence}
    <3>1. CASE w.proj = << >>
      BY <3>1 DEF LastId
    <3>2. CASE w.proj # << >>
      <4>1. Len(w.proj) \in 1..Len(w.proj)
        BY <3>2, <1>1
      <4>2. w.proj[Len(w.proj)] \in Row
        BY <4>1, <1>1
      <4> QED BY <4>2, <3>2 DEF LastId, Row
    <3> QED BY <3>1, <3>2
  <2> QED BY <2>1 DEF NewRow, Row
<1>5. new \in Seq(Row) /\ Len(new) = k /\ DOMAIN new = 1..k
  BY <1>1, <1>4
<1>6. \A n \in 1..k : new[n] = IF n = k THEN row ELSE w.log[n]
  BY <1>1, <1>4
<1>7. Inserted(w, e).log = [n \in DOMAIN w.log \cup {k} |-> IF n = k THEN row ELSE w.log[n]]
  BY <1>2 DEF Inserted, NextSequence
<1>8. DOMAIN w.log \cup {k} = 1..k
  BY <1>1
<1>9. Inserted(w, e).log = [n \in 1..k |-> IF n = k THEN row ELSE w.log[n]]
  BY <1>7, <1>8
<1>10. new = [n \in 1..k |-> IF n = k THEN row ELSE w.log[n]]
  BY <1>1, <1>4, <1>5, <1>6
<1>11. Inserted(w, e).log = new
  BY <1>9, <1>10
<1>12. Inserted(w, e).proj = new
  BY <1>3 DEF Inserted
<1>13. Prefix(w.log, new)
  BY <1>1, <1>5, <1>6 DEF Prefix
<1>14. Chained(new)
  <2>1. row.id = e /\ row.previous = IF k = 1 THEN NoEvidence ELSE w.log[k - 1].id
    BY <1>1, <1>3 DEF NewRow, LastId
  <2>2. \A n \in 1..(k - 1) : n \in DOMAIN w.log /\ w.log[n].id # e
    BY <1>1 DEF IdsOf
  <2>3. \A n \in 1..k : new[n].previous = IF n = 1 THEN NoEvidence ELSE new[n - 1].id
    <3> SUFFICES ASSUME NEW n \in 1..k
                 PROVE  new[n].previous = IF n = 1 THEN NoEvidence ELSE new[n - 1].id
      OBVIOUS
    <3>1. CASE n = k
      BY <3>1, <2>1, <1>6, <1>1
    <3>2. CASE n # k
      BY <3>2, <1>6, <1>1 DEF Chained
    <3> QED BY <3>1, <3>2
  <2>4. \A m, n \in 1..k : new[m].id = new[n].id => m = n
    BY <1>1, <1>6, <2>1, <2>2 DEF Chained
  <2> QED BY <1>5, <2>3, <2>4 DEF Chained
<1>15. Inserted(w, e) \in Store
  BY <1>5, <1>11, <1>12 DEF Inserted, Store
<1> QED BY <1>1, <1>3, <1>5, <1>11, <1>12, <1>13, <1>14, <1>15

-----------------------------------------------------------------------------
\* The invariant holds initially ...
LEMMA InitLedger == Init => LedgerInv
BY LedgerAssumption
   DEF Init, LedgerInv, TypeOK, LogIsChain, ProjectionIsPrefix, Chained, Prefix,
       Committed, NoWork, Store, Mode

\* ... and every action of every connection preserves it.
LEMMA StepLedger == LedgerInv /\ [Next]_vars => LedgerInv'
<1> SUFFICES ASSUME LedgerInv, [Next]_vars PROVE LedgerInv'
  OBVIOUS
<1> USE LedgerAssumption
<1>t. /\ log \in Seq(Row) /\ proj \in Seq(Row) /\ lock \in Connections \cup {NoConnection}
      /\ mode \in [Connections -> Mode] /\ work \in [Connections -> Store]
      /\ replayed \in [Connections -> Seq(Row)]
      /\ \A c \in Connections : mode[c] \in {"writing", "stuck"} <=> lock = c
      /\ Chained(log) /\ Prefix(proj, log)
      /\ \A c \in Connections : mode[c] = "writing" => WorkExtends(c)
      /\ \A c \in Connections : mode[c] = "rebuilding" => Prefix(replayed[c], log)
      /\ NoWork \in Store
  BY DEF LedgerInv, TypeOK, LogIsChain, ProjectionIsPrefix, Committed, Store, NoWork
<1>1. ASSUME NEW c \in Connections, Begin(c) PROVE LedgerInv'
  <2>1. work' = [work EXCEPT ![c] = Committed] /\ Committed \in Store
        /\ UNCHANGED <<log, proj, replayed>> /\ lock = NoConnection /\ lock' = c
        /\ mode' = [mode EXCEPT ![c] = "writing"]
    BY <1>1, <1>t DEF Begin, Committed, Store
  <2>2. WorkExtends(c)'
    BY <2>1, <1>t, PrefixReflexive DEF WorkExtends, Committed
  <2>3. \A d \in Connections : mode'[d] = "writing" => WorkExtends(d)'
    BY <2>1, <2>2, <1>t
  <2>4. TypeOK'
    BY <2>1, <1>t DEF TypeOK, Committed, Store, Mode
  <2> QED BY <2>1, <2>3, <2>4, <1>t DEF LedgerInv, LogIsChain, ProjectionIsPrefix
<1>2. ASSUME NEW c \in Connections, NEW e \in Evidence, AppendRow(c, e) PROVE LedgerInv'
  <2>1. /\ mode[c] = "writing" /\ work' = [work EXCEPT ![c] = Inserted(work[c], e)]
        /\ UNCHANGED <<log, proj, lock, mode, replayed>>
        /\ e \notin IdsOf(work[c].log) /\ ~ Taken(work[c]) /\ work[c] \in Store
        /\ WorkExtends(c)
    BY <1>2, <1>t DEF AppendRow
  <2> DEFINE new == Inserted(work[c], e)
  <2>2. /\ work[c].proj = work[c].log /\ new \in Store /\ new.proj = new.log
        /\ Prefix(work[c].log, new.log) /\ Len(new.log) = Len(work[c].log) + 1
        /\ Chained(new.log)
    BY <2>1, InsertExtends DEF WorkExtends
  <2>3. work[c].log \in Seq(Row) /\ new.log \in Seq(Row) /\ new.proj \in Seq(Row)
    BY <2>1, <2>2 DEF Store
  <2>4. Prefix(log, new.log) /\ proj = log /\ new.log # log
    <3>1. Prefix(log, work[c].log)
      BY <2>1 DEF WorkExtends
    <3>2. Prefix(log, new.log)
      BY <3>1, <2>2, <2>3, <1>t, PrefixTransitive
    <3>3. Len(log) < Len(new.log)
      BY <3>1, <2>2, <2>3, <1>t DEF Prefix
    <3>4. proj = log
      BY <2>1, <2>2 DEF WorkExtends
    <3> QED BY <3>2, <3>3, <3>4, <1>t, <2>3
  <2>5. work'[c] = new
    BY <2>1, <1>t
  <2>6. WorkExtends(c)'
    BY <2>1, <2>2, <2>3, <2>4, <2>5, PrefixReflexive DEF WorkExtends
  <2>7. \A d \in Connections : mode'[d] = "writing" => WorkExtends(d)'
    BY <2>1, <2>6, <1>t
  <2>8. TypeOK'
    BY <2>1, <2>2, <1>t DEF TypeOK, Committed, Store
  <2> QED BY <2>1, <2>7, <2>8, <1>t DEF LedgerInv, LogIsChain, ProjectionIsPrefix
<1>3. ASSUME NEW c \in Connections, Commit(c) PROVE LedgerInv'
  <2>1. /\ mode[c] = "writing" /\ log' = work[c].log /\ proj' = work[c].proj
        /\ lock' = NoConnection /\ mode' = [mode EXCEPT ![c] = "idle"]
        /\ work' = [work EXCEPT ![c] = NoWork] /\ replayed' = replayed
        /\ work[c] \in Store /\ WorkExtends(c)
    BY <1>3, <1>t DEF Commit
  <2>2. /\ log' \in Seq(Row) /\ proj' \in Seq(Row) /\ Chained(log') /\ Prefix(proj', log')
        /\ Prefix(log, log')
    BY <2>1 DEF WorkExtends, Store
  <2>3. \A d \in Connections : mode'[d] # "writing"
    BY <2>1, <1>t DEF Mode
  <2>4. \A d \in Connections : mode'[d] = "rebuilding" => Prefix(replayed'[d], log')
    BY <2>1, <2>2, <1>t, PrefixTransitive
  <2>5. TypeOK'
    BY <2>1, <2>2, <1>t DEF TypeOK, Committed, Store, Mode
  <2> QED BY <2>2, <2>3, <2>4, <2>5 DEF LedgerInv, LogIsChain, ProjectionIsPrefix
<1>4. ASSUME NEW c \in Connections, Forget(c), mode[c] # "idle" PROVE LedgerInv'
  <2>1. /\ UNCHANGED <<log, proj>> /\ lock' = IF lock = c THEN NoConnection ELSE lock
        /\ mode' = [mode EXCEPT ![c] = "idle"] /\ work' = [work EXCEPT ![c] = NoWork]
        /\ replayed' = [replayed EXCEPT ![c] = << >>]
    BY <1>4 DEF Forget
  <2>2. \A d \in Connections : mode'[d] = "writing" => WorkExtends(d)'
    BY <2>1, <1>t DEF WorkExtends
  <2>3. \A d \in Connections : mode'[d] = "rebuilding" => Prefix(replayed'[d], log')
    BY <2>1, <1>t
  <2>4. TypeOK'
    BY <2>1, <1>t DEF TypeOK, Committed, Store, Mode
  <2> QED BY <2>1, <2>2, <2>3, <2>4, <1>t DEF LedgerInv, LogIsChain, ProjectionIsPrefix
<1>5. ASSUME NEW c \in Connections, CommitFails(c) PROVE LedgerInv'
  <2>1. TypeOK'
    BY <1>5, <1>t DEF CommitFails, TypeOK, Committed, Store, Mode
  <2>2. \A d \in Connections : mode'[d] = "writing" => WorkExtends(d)'
    BY <1>5, <1>t DEF CommitFails, WorkExtends
  <2> QED BY <1>5, <2>1, <2>2, <1>t DEF CommitFails, LedgerInv, LogIsChain, ProjectionIsPrefix
<1>6. ASSUME NEW c \in Connections, DropProjection(c) PROVE LedgerInv'
  <2>1. TypeOK'
    BY <1>6, <1>t DEF DropProjection, TypeOK, Committed, Store
  <2>2. \A d \in Connections : mode'[d] # "writing"
    BY <1>6, <1>t DEF DropProjection
  <2>3. Prefix(<< >>, log)
    BY <1>t, PrefixReflexive
  <2> QED BY <1>6, <2>1, <2>2, <2>3, <1>t
          DEF DropProjection, LedgerInv, LogIsChain, ProjectionIsPrefix
<1>7. ASSUME NEW c \in Connections, RebuildRead(c) PROVE LedgerInv'
  <2>1. TypeOK'
    BY <1>7, <1>t DEF RebuildRead, TypeOK, Committed, Store, Mode
  <2>2. \A d \in Connections : mode'[d] = "writing" => WorkExtends(d)'
    BY <1>7, <1>t DEF RebuildRead, WorkExtends
  <2>3. \A d \in Connections : mode'[d] = "rebuilding" => Prefix(replayed'[d], log')
    BY <1>7, <1>t, PrefixReflexive DEF RebuildRead
  <2> QED BY <1>7, <2>1, <2>2, <2>3, <1>t DEF RebuildRead, LedgerInv, LogIsChain, ProjectionIsPrefix
<1>8. ASSUME NEW c \in Connections, RebuildWrite(c) PROVE LedgerInv'
  <2>1. TypeOK'
    BY <1>8, <1>t DEF RebuildWrite, TypeOK, Committed, Store, Mode
  <2>2. \A d \in Connections : mode'[d] # "writing"
    BY <1>8, <1>t DEF RebuildWrite
  <2>3. \A d \in Connections : mode'[d] = "rebuilding" => Prefix(replayed'[d], log')
    BY <1>8, <1>t DEF RebuildWrite
  <2> QED BY <1>8, <2>1, <2>2, <2>3, <1>t
          DEF RebuildWrite, LedgerInv, LogIsChain, ProjectionIsPrefix
<1>9. CASE UNCHANGED vars
  BY <1>9 DEF vars, LedgerInv, TypeOK, Committed, LogIsChain, ProjectionIsPrefix, WorkExtends
<1> QED BY <1>1, <1>2, <1>3, <1>4, <1>5, <1>6, <1>7, <1>8, <1>9 DEF Next, Rollback, Crash

\* For any number of connections and events, whatever they crash, roll back,
\* drop or rebuild: the log is one chain and the projection a prefix of it.
THEOREM LedgerInvariant == Spec => []LedgerInv
BY InitLedger, StepLedger, PTL DEF Spec

\* Replay of the committed log never raises (kernel.py replay, store.py 1076).
THEOREM OneChain == Spec => []LogIsChain
<1>1. LedgerInv => LogIsChain
  BY DEF LedgerInv
<1> QED BY <1>1, LedgerInvariant, PTL

\* Readers never see a state the run was not in.
THEOREM ReadersSeeThePast == Spec => []ProjectionIsPrefix
<1>1. LedgerInv => ProjectionIsPrefix
  BY DEF LedgerInv
<1> QED BY <1>1, LedgerInvariant, PTL

\* A step that adds evidence starts from a current projection and leaves it
\* current; no step removes or changes a row.
THEOREM AppendsAreFenced == Spec => AppendsKeepProjection
<1>1. LedgerInv /\ [Next]_vars =>
        [Prefix(log, log') /\ (log' # log => proj = log /\ proj' = log')]_vars
  <2> SUFFICES ASSUME LedgerInv, Next
               PROVE  Prefix(log, log') /\ (log' # log => proj = log /\ proj' = log')
    OBVIOUS
  <2>1. log \in Seq(Row) /\ Prefix(log, log)
    BY PrefixReflexive DEF LedgerInv, TypeOK, Committed, Store
  <2>2. CASE log' = log
    BY <2>1, <2>2
  <2>3. CASE log' # log
    <3>1. PICK c \in Connections : Commit(c)
      BY <2>3 DEF Next, Begin, Rollback, Crash, Forget, CommitFails, DropProjection,
                  RebuildRead, RebuildWrite, AppendRow
    <3>2. WorkExtends(c) /\ log' = work[c].log /\ proj' = work[c].proj
      BY <3>1 DEF LedgerInv, Commit
    <3> QED BY <2>3, <3>2 DEF WorkExtends
  <2> QED BY <2>2, <2>3
<1> QED BY <1>1, LedgerInvariant, PTL DEF Spec, AppendsKeepProjection
=============================================================================
