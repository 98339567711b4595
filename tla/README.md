# Verification of pig-mono

TLA+ models of the parts of pig-mono where steps of several actors, crashes, time
and partial failures decide what happens, the TLC runs that check them on small
instances, and TLAPS proofs of the properties that matter most, for every value of
the constants. `PROJECT.json` maps each definition to the lines it models; paths
below are relative to the repository's `packages/`.

## Inventory

| Component | State | Operations | Interacts with | What is hard | What makes it correct |
|---|---|---|---|---|---|
| Run integrity: kernel (`pig-agent-core/.../run_integrity/kernel.py`, `models.py`) | the projection of a run: statuses of run, operations, attempts, and the boundaries recorded for them | one transition per evidence type, each of which may be refused | a pure function, used by the store on append, replay and rebuild | long sequences of legal events, retries, late events | no retry past an effect; a known outcome only over confirmed effects; closed things stay closed |
| Run integrity: store (`run_integrity/store.py`) | the SQLite tables `run_evidence` and `run_projections`, the lease | create, begin, transition, leases, operations, attempts, finalize, recover | called by authorities of several processes | multi-event transactions, lease expiry, recovery, concurrent connections, a disposable projection | the log is one chain, the projection a past of it; recovery is accepted wherever an owner died |
| Run integrity: authority (`run_integrity/adapters.py`) | the active turn, current operations, `partial_output` | begin_turn, record provider and tool phases, finish_turn, fail_turn | wraps the agent loop's external calls, writes through the store | crash between evidence, effect and receipt; a lease lost in a call; an error while closing | evidence before effect; a call in flight is never written off; every turn can be closed |
| Agent loop (`pig-agent-core/.../agent.py`, `message_queue.py`) | history, steering and follow-up queues, round budget | respond, respond_stream, steer, follow_up, cancel | model runtime, tool registry, authority, hooks, session | messages that arrive during a call, cancellation inside a batch of tool calls, the budget's end | every tool call has one result; a queued message is neither lost nor used twice |
| Resilience (`resilience/retry.py`, `profile.py`) | profile cooldowns, failure counts, the active profile | retry, rotate, compact, fall back | shared by concurrent calls | a stream that fails after output; one call's failure moves the profile under another | no retry after visible output; termination; a cooling profile is not chosen |
| Tool registry (`tools/registry.py`) | registered tools, executions in flight | execute, with timeout, retry, cancellation; parallel batches | agent loop, authority, hooks | the timeout races the result; a thread outlives its timeout | one result per call, in the order of the calls |
| Sessions (`session.py`, `session_manager.py`, `compaction.py`) | a tree of entries, its file | append, branch, compact, save, load | agent loop, host | a crash while saving, a failed compaction | a saved session is an old or a new one, never a torn one |
| Turn lifecycle (`pig-coding-agent/.../turn_lifecycle.py`, used by `interactive_mode.py`, `app_actions.py`) | the kind, owner and generation of the lease, the cancel event | begin, end, transition (re-entrant), request_cancel, cancel_and_wait | tasks and threads of the interactive mode | stale tokens, a cancellation that reaches a later turn | turns and transitions exclude each other; cancel hits the captured turn only |
| Coding agent host (`pig-coding-agent/.../agent.py`, `cli.py`) | the agent, its authority | run_once_result | authority, agent loop | an exception at each place of the turn | the turn ends in finish_turn or fail_turn |
| Permissions and trust (`permissions.py`, `project_trust.py`, `operations.py`) | decisions of the user | decide | tool registry | precedence of rules | a denied action is not done |
| Messenger (`pig-messenger/.../manager.py`, `state.py`) | in Redis: dedup keys, agent locks with TTL, follow-up lists, dead letters; in memory: background tasks | handle_event, the background task, drain, dead letters | several bot processes share Redis; the agent; platform adapters | everything between two Redis commands: expiry, another task, a crash | one agent per channel, one answer per message, nobody releases another's lock, the drain ends |
| Messenger adapters and bot | connections | receive, post | platforms | platform quirks | formatting |
| Model runtime and providers (`pig-llm`) | the catalogue, the credentials, a shared refresh task | list, refresh, stream | agent loop | refreshes that overlap | translation of protocols |
| `pig-tui`, `pig-web-ui` | widgets, HTTP sessions | render, serve | host | - | layout |

Not in the table: the memory, usage, context and extension helpers of the agent
core (files and counters without concurrency of their own), and examples.

## Modules

    RunOutcome                     what run integrity promises       (abstract)
      ^ refined by RunStore, and by RunAuthority for the tools that really ran
    RunKernel <- RunCommands <- RunStore          one run, any caller
                             <- RunAuthority      one governed turn
    RunLedger                                     the log under several connections
    MessageFate                    what a channel promises           (abstract)
      ^ refined by Messenger                      one channel, several tasks
    TurnLifecycle                                 the lease of turns and transitions
    ToolCalls <- AgentLoop                        a conversation, round by round, and its tool calls
    ResilientCalls                                provider calls that share credentials
    Sessions                                      session trees and their files

The agent loop calls `ResilientCalls` for each request (a step of AgentLoop from "request" is what such a
call gave back), fills the turns that TurnLifecycle keeps apart, and writes the entries that Sessions
saves. The components are composed where they share state: AgentLoop extends ToolCalls, the two share
the cancel event; RunAuthority and RunStore share RunCommands.

**RunKernel** is `kernel.py`: a snapshot is a record, and each evidence type has an
operator `Accepts...` (the kernel does not raise) and one for the projection it
returns. An attempt's operation and an operation's kind, key and turn are constants,
because identifiers are fresh. Effect and partial-output flags are kept per
attempt; the kernel sets the operation's flag in the same event.

**RunCommands** composes kernel events into the multi-event transactions of
`store.py`: begin_run, the ownership check and renewal of owned_transaction,
finalize_run, recover_expired. The walks of recovery and of the end of a turn over
the unfinished operations are single updates: events on different operations do
not read each other's state.

**RunStore** lets anyone call every public command that appends evidence, in any
order; a command is one step, since it runs under BEGIN IMMEDIATE and a raised
exception rolls it back. Observation events leave the projection unchanged and are
left out; so are `verify` and the lookups over several runs.

**RunAuthority** is a host (`run_once_result`, or an embedder) that drives one turn.
The loop makes a provider call (`Request`, `Retry`) or hands a `Batch` of tool calls to one gather, whose
members begin one by one (`BeginCall`), each behind its preflight. A call is
recorded (`StartAttempt`), made (`Execute`), answered (`Answer`), and recorded again, for a tool with a receipt after which a
fallback may be called (`CompleteTool`); the handlers of a batch overlap (`open`), the authority's commands do not. A gather
waits for all its members before it raises what one of them raised (`Gathered`); an interrupt (`Raise`) leaves it at once,
and threads at work behind it. The turn ends in `FinishTurn` or `FailTurn`. A command has two steps, the clock
reading of `_owned` and its transaction, because the code reads the clock before it
waits for the lock. `world` is the set of calls really made: the properties compare it
with the ledger. Next to the host live recovery, another owner, the clock, and a
crash in every state. `begin_turn` is one step. `finalize_run` inside `finish_turn` reads the
clock once more; its refusal is `CommandRaises`.

**RunLedger** looks inside the transactions: several connections begin, append, commit,
roll back, die, fail to commit, delete the projection and rebuild it. An event is an
identifier and the identifier of its predecessor, which stands for the digest.

**Messenger** is one channel: a delivery becomes a task, which takes the agent lock and
answers its message and then the follow-ups in rounds, or queues its message. Each Redis
command or Lua script is a step. Locks, queues and dedup keys may expire at any time,
tasks may die at any step; `Init` lets other processes have seen some of the events.
A follow-up is named by the task that brought it. `overrun` is a history variable: the
tasks whose lock expired while they worked. A dead letter is recorded by two commands (`RecordDeadLetter`, `TrimLetters`).
Not modelled: creation of
conversations, cancel flags (the manager does not use them), streaming, failures of
Redis itself, replay of dead letters.

**TurnLifecycle** is the lease of `turn_lifecycle.py` together with who uses it: an actor (an
asyncio task or a thread) runs turns as `run_once_result` and `run_turn` do, one writing step for the user's message
and one for its answer, or opens transitions and switches the session as `app_actions.py` does. A block
under the lease's mutex is one step; setting a cancel event, completing a turn and waking a waiter are
steps of their own, and others act in between. A generation names a turn's token and its two
events. `EndAgain` is the public `end` repeated with an earlier token. The event loops that carry a completion
to a waiter of another thread are abstracted to its waking. Of the
interactive mode only the turn and the switch are modelled, not its commands or its display.

**ToolCalls** is `tools/registry.py`: `Execute`, `Preflight`, attempts under a timeout, `Retry` with a
backoff, a fallback tool (`leg` 2), `CancelRunning`, and the order of `execute_batch` (`Before`, `EnterBatch`,
`Stopped`). Its variables are the calls of the present batch and the cancel event. A result is
reduced to what callers look at: ok, failed, or one that ends the batch (`stop`), the turn (`end`), or both (`denied`).

**AgentLoop** is `agent.py` with `message_queue.py`: the entry point (`run`, `arun` or `respond_stream`), hooks and
queue mode of a conversation are chosen by `Init`. A turn is `StartTurn`, then `Round`, a request that fails
(`ProviderError`), is aborted, answers (`FinalAnswer`) or asks for tools (`CallsRequested`), and a batch:
all at once (`Enter`, `BatchReturns`), one by one with hooks (`HookDecides`, `OneCall`, `OneResult`, `CallsDone`), or
without registry as `run` does (`RunTool`). The entry points differ in when the assistant's message reaches the history
(`Live`), whether they steer at the end of an answer, and whether they look at the event between calls (`Leaves`). Of a
transcript only the protocol's obligation is kept: which calls are open, and whether an earlier one lacks a
result or has two. The nested calls that answer follow-ups do nothing after their own follow-ups, so they are the list
`todo`. A message is in `queue`, `todo`, `taken` or `lost`. `cut` is a history variable: the cases in which
the code itself leaves a transcript that is not well formed.

**ResilientCalls** is `retry.py` over a shared `ProfileManager`: which client a call begins with (`BeginActive`,
`BeginElsewhere`, `BeginHost` are the branches of `_active_llm`), and what a failure does (`Blame`, then `GiveUp`, `Rotate`
or `GoOn`, which is overflow, model fallback and backoff). A profile stands for its key. A step is what happens between two
awaits, so calls of other agents come in between; the blocking variants are the case in which none does.
The list order of the manager is the order of the numbers (`Distance`, `Failover`). `Legacy` profiles were configured
without a provider and learn it from the host's client. Every client is one of pig-llm, which can be rebuilt with another
profile; a host's own client that cannot, and with which a rotation is declined (477-482), is left out. Which errors blame a profile, and whether one is an overflow, is
nondeterministic. Cooldowns end at any time.

**Sessions** is `session.py` with the operations of `app_actions.py`, the start and the end of the program. All entries are
in one sequence, and a session or a file is the set of those it has, and its tip. An operation is one step with
a list of saves: `Saves` lets all succeed, or the j-th fail, after which the operation is over and what the code
leaves in memory is open (`undo`); a crash in the midst of it leaves on disk the same files, so `Crash` needs to happen only
between steps. Compaction by a provider's summary is two steps, and an embedding host may go on with the session
in between (`BeginSummary`, `Summarised`). `says` is what an entry says, by the entries in which it was first said; `tools` the
activations that `available_tool_names_at` finds on a path. `lag` says that the last save of a message failed. `copy` is what
the user has to import: the file of a session of another directory (`Init`), or a copy of one of these, taken at any moment
(`CopyFile`) and imported when its session may have gone on, or never been here (`ImportSession`); imports of files whose
entries clash, or that no session wrote, are left out. Left out: names, labels, usage receipts, the heuristic for
legacy files, several processes on one directory.

**Seeded faults.** Operators commented so (`RetryOfUnknown`, `KeptQueue`, ...) are not part of
a specification. Each is a plausible bug of the definition it stands before;
`PROJECT.json` lists which property finds it.

## Runs

| Run | Question | Instance | Result |
|---|---|---|---|
| RunStore | Can any sequence of legal commands break the projection or the promise? | a tool operation with two attempts, a provider operation with one, one owner, clock 0..1 | holds |
| RunAuthority | Does the protocol of a turn survive crashes, lost leases, recovery and a second owner? | a provider call with one retry, two tool calls, lease of 2, clock 0..4 | holds |
| RunLedger | Is the log one chain and the projection a past of it? | 4 connections, 5 events | holds |
| Messenger | Is a message answered once, by one agent at a time, and does each task end? | 3 deliveries of one event, queue limit 2, 2 rounds, 1 dead letter | holds |
| TurnLifecycle | Does the lease keep turns and transitions apart, and does a cancellation reach its turn only? | 2 actors, 2 sessions, 3 leases, transitions nested twice | holds |
| AgentLoop | Do queued messages, tool calls and an interrupt come out right in every entry point? | 2 calls per batch, one with a fallback, 2 attempts, 1 iteration or none bounded, 2 messages | holds |
| ResilientCalls | Do concurrent calls keep keys and cooldowns apart, and end? | 2 agents, 4 profiles of 2 providers (1 legacy), 1 retry | holds |
| Sessions | Is every tree and file whole, and when is something lost that was said? | 4 entries, 2 sessions, 1 copy, compaction of paths longer than 1, keeping 1 | holds |
| RunAuthority_stale | Does an expired owner write? | as RunAuthority, clock 0..5 | violated |
| RunLedger_rebuild | Is a rebuilt projection current? | 2 connections, 2 events | violated |
| Messenger_dedup | Are duplicates dropped, and new events processed? | as Messenger | violated |
| Sessions_exit | Is a session saved when the program says so? | 3 entries, 2 sessions | violated |

Properties of the passing runs:

- `LedgerInv` / `SnapshotInv`: types; boundaries in order; receipts exactly for confirmed
  operations; at most one attempt running, succeeded or unknown; terminal runs settled.
- `KnownOutcomeIsConfirmed`, `AtMostOneEffect`, `ClosedStaysClosed`: what the rules of
  single events mean over a history. No two attempts of an operation take effect or show output. What is closed is a terminal
  run, a closed operation with its dispatch, receipt and attempts, and an attempt that has finished, with its boundaries,
  though its operation be open; and no recorded boundary is taken back.
- `RecoveryNeverRejected`: recovery appends many events in one transaction, and one refusal
  would make it raise for ever. A governed turn reaches no state in which it does. Through the bare store commands
  there are two: a run that is still pending with an unsafe operation, and an attempt finished as
  outcome_unknown without an effect boundary.
- `KeepsPromise`: refinement of RunOutcome. In RunStore an effect begins with its evidence; in
  RunAuthority with the call of the tool's handler.
- `EffectsAreAnnounced`, `InFlightNotWrittenOff`, `TurnCanEnd`: evidence before effects; whoever ends the run calls a call in
  flight unknown at most, be it that of another member of the batch or one an interrupt left behind; an owner with a good
  lease can end its turn.
- `ResumableRunsAreQuiet`: recovery leaves a run resumable (waiting) only if its old owner, dead or slow, has no call under way or
  about to be made, each tool that ran has its receipt, and each provider call its outcome.
- `LogIsChain`, `ProjectionIsPrefix`, `AppendsKeepProjection`: no fork, no gap, no repeated event;
  readers see a past state; an append over a projection that is behind is refused.
- `OneAtATime`, `OnlyOwnerReleases`, `AnsweredAtMostOnce` (refinement of MessageFate), `TasksEnd`.
- `OneHolder`, `TurnStaysInSession`: turns and transitions exclude each other through nesting, repeated ends and
  refused requests, so that a question and its answer are in one session. `OnlyAskedAreCancelled`: a cancel event that
  is set late is that of the captured turn. `WaitersSeeTheEnd`, `WaitersReturn`: cancel_and_wait returns, and only when
  that turn has let go.
- `MessageFlow`, `InOrder`: a queued message is in one place, is lost only with an exception in the mode "all", and is
  not overtaken by one of its kind. `RequestsWellFormed`: the provider sees one result per call, but for the listed
  cuts. `SequentialRunsAlone`, `NothingStartsAfterCancel`, `CancelEndsTurn`: the order of a batch, and what an interrupt
  does to attempts, retries, fallbacks, prompts and nested follow-ups.
- `KeysStayHome`, `BlamesTheKeySent`, `ChoosesAvailable`, `EveryCallEnds`: credentials under rotation by several callers. A key
  is blamed in the step in which the request that carried it fails, by the call that sent it.
- `TreesWhole`, `AutoSaved`: no dangling parent or tip in memory or on disk; a failing save leaves a compaction undone, in
  memory too. `NothingIsLost`: what was said is lost in exactly two ways, an import put over the file of the session that has
  the same id, and a save of an open session that is older than its file; and a session comes to be older than its file only
  by an import, or when it is resumed while it is open. Any other step, a failing save or a crash included, keeps what
  is in a file, and what was said in the open session unless the process ends. `CompactionKeepsBranch`: a summary takes the place of the branch it was made from, keeps the recent tail
  and the activated tools.

**Why the bounds are enough.** Two attempts of one operation are needed for a retry past an
effect, and a second operation for an outcome that mixes confirmed and unconfirmed effects;
events on different operations do not interact otherwise. One owner suffices in
RunStore since only the comparison of owners matters to the commands that check it; RunAuthority
has two. Its two tool calls are one after the other, members of one gather, or a call and its fallback. Its clock starts with
the turn and reaches a lease's expiry, a take-over and that lease's expiry: nobody starts
anything after time 2 (`LastCommand`), a lease lasts 2, and 4 lets the last one expire. Four
connections are a writer, a stuck one, a rebuild and one that drops the projection. Three deliveries
are a holder, a follow-up pushed before its last check and one pushed after, or a second holder
after an expiry with a late one still at work. Three leases are
a captured turn, its successor and a transition, in any order; a third actor could only wait. `MaxTime`, `LastCommand`, `MaxGeneration`, `MaxDepth`, the set `Evidence` and the
set of deliveries are bounds of the models. Two calls are a sequential one and one it waits for or that waits for it; two attempts a
retry; one iteration the bound's last round, next to unbounded turns. Two messages are two of a kind, or one of each. Three
profiles of a provider are the one that failed and two to choose from in order, the fourth is the foreigner; two callers one
that moves the manager under the other. In Sessions four entries are a path and its compaction, a fork of a branch, or an imported session next
to the open one and what is said in both; two sessions the open and another. The thresholds 10, 5 and 4 of the code are constants of the module
(`Long`, `Recent`, `Kept`), smaller in the run; `MaxEntries`, `MaxSessions`, one copy at a time that is never replaced, and the one message of a foreign file are bounds. `MaxPending`, `MaxRounds`, `MaxLetters`, `MaxIterations`, `MaxAttempts` and `MaxRetries` are settings of the code.

**Deadlock.** RunLedger and ResilientCalls are checked for it. RunStore may stop (a terminal run at the end of
the bounded clock), RunAuthority stops when its turn is over, Messenger when all deliveries ended,
TurnLifecycle when its leases are used up. AgentLoop's conversation goes on for ever unless the model's bounds are
reached, and Sessions' process may stay closed once its entries are used up.

**Fairness.** RunStore, RunAuthority, RunLedger and Sessions have none: a host may hang anywhere, users do as they like, and nothing in the
repository calls `recover_expired` by itself, so that a run whose owner died may stay leased for ever (a hazard without a
property). Messenger's `FairSpec`
assumes that event loops run ready tasks and that agents and platforms answer or fail; expiry and
crashes are not fair, nothing relies on them. TurnLifecycle's `FairSpec` assumes that a turn comes to its end
(strongly fair, since its own code may ask for transitions or cancellations any number of times in between, and each
answer interrupts it) and that what an event loop or thread has to do after the mutex is done.
AgentLoop's `FairSpec` is weak fairness of `Progress` as a whole: the code is one task, which goes on since providers answer or
fail, tools end or time out, and prompts are answered; the user's steps are not fair. ResilientCalls' is weak fairness
of `Ends` for each caller: an attempt ends, if only by the HTTP client's timeout, and a sleeper wakes. That cooldowns
expire is not assumed.

## Proofs

All are for any finite or infinite sets of operations, attempts, leases, connections, events and
tasks, under the named assumptions of the modules (`IdentityAssumption`, `CommandAssumption`,
`AuthorityAssumption`, `LedgerAssumption`, `MessengerAssumption`, `LifecycleAssumption`,
`CallAssumption`, `LoopAssumption`, `ResilienceAssumption`, `SessionsAssumption`): constants have their types, there may be a session,
markers like `NoLease` and `None` are no members, a compaction keeps at least one entry and no more than makes a path long, and in RunAuthority every operation is a provider's or a tool's
and the leases it builds are in `Leases`.

- **RunKernelProofs**: each kernel event, and each composition in RunCommands, keeps `SnapshotInv`.
  The bare safety properties are not inductive: that a known outcome is confirmed needs that a
  receipt exists exactly for confirmed statuses, which needs that a completed operation has a succeeded
  attempt and no unknown one, which needs that attempts and boundaries come in order.
- **RunStoreProofs**: `LedgerInvariant`, and from it `KnownOutcome`, `OneEffectPerOperation`, the action property
  `ClosedForGood` (what is kept is shown event by event, `ClosedStep` puts it together for a command) and the refinement `StoreKeepsPromise`: each command is invisible to RunOutcome, begins effects, or ends the run.
- **RunAuthorityProofs**: `HostInvariant` over `HostInv`, which adds to `SnapshotInv` what the ledger knows of the attempt
  the host works on and of those whose calls are under way, and which calls may be under way together (`Company`: no call
  beside a provider's, and none behind a turn that returns in order, unless it was abandoned); `AuthorityTypes`, `EvidenceBeforeEffects`, `CallsAreNotWrittenOff` follow. The key lemma is
  that recovery and a cancelling owner keep the boundaries: what was dispatched stays so, and a running dispatched attempt
  becomes unknown, or the run waits; and that the end of a turn writes no such attempt off.
  `RecoveryIsAccepted` and `OwnerCanEnd` do not follow from it, as the kernel's invariant allows snapshots that recovery
  refuses (see above). `TurnInvariant` adds what rules them out: a turn's run is never pending, only provider calls have
  partial output, an attempt is unknown only in an unknown operation (`Orderly`); as long as all goes well no attempt
  runs but those under way (`Undisturbed`); and only a member of a gather raises before its end (`RaisedInGather`).
  `ResumptionIsQuiet` rests on `Quiet`, which says of a waiting run that all its attempts have ended, with their receipts where the tool ran:
  recovery makes it so (`RecoveredIsQuiet`), since it allows resumption only if no operation is unsafe; no command of
  an owner leaves a run waiting (`OwnerNeverWaits`), and no other step disturbs a waiting run (`QuietKept`).
  `AuthorityKeepsPromise` is the refinement of RunOutcome: a receipt next to a handler that ran means success, so a step
  leaves effects and outcome alone, confirms one effect, begins one (`Execute`), or ends the run.
- **RunLedgerProofs**: `LedgerInvariant` over RunLedger's `LedgerInv`, which adds that a transaction under way
  extends the committed state, on a current projection if it appended anything. `OneChain`, `ReadersSeeThePast`,
  `AppendsAreFenced`.
- **MessengerProofs**: `LockInvariant` (who works holds the lock or overran it), hence `MutualExclusion` and `OwnersRelease`.
  `PlaceInvariant` (a message is unread, in the queue, or in one batch, and an answered one nowhere), hence
  `EachMessageAtMostOnce`, the refinement of MessageFate: each step obeys `Lawful`, which is what
  MessageFate's moves allow.
- **HostProofs**, of sessions: `SessionsInvariant` over `SessInv`, which is the types, `TreesWhole` and `AutoSaved`. Every operation is a list of saves, any of which may be the one that
  fails. `SavesKeep` shows once, for lists of any length, that the invariant stays and nothing said is lost if the list is
  `Harmless`: each save writes a whole tree that covers its file; what is open when one fails is the open session as it was, in
  step with its file if an earlier save touched that, or what the save was to write; and the last save of what is open at the end wrote
  just that. `Harmless` exempts a set of sessions from covering their files, and `SavesKeepBut` gives the conclusion for all others: the set is the
  open session if it is older than its file, and for an import the session that is imported too. Then each operation's
  list is shown to be harmless, a fork's with a save per entry included. A session that is resumed while it is open needs an
  argument of its own (`ResumedIsSaved`): it becomes older than its file, and the file has just got all of it. `TreesAreWhole`,
  `SavedByItself` and `NothingSaidIsLost` follow. `CompactedBranchSaysTheSame` needs what `Path` computes: that it exists and is the
  parent's path and the entry (`PathExists`, `PathStep`), and is the new entries in order where these are a chain from a
  root (`NewPath`), by induction.
- **HostProofs**, of the lease (TurnLifecycle, whose `TurnInit`, `TurnNext` and `TurnSpec` stand beside Sessions'):
  `LeaseInvariant` over `LeaseInv`: the lease says who is in a turn or how many blocks are open
  (`Held`); tokens and completions are of the past, and never of the turn that is active (`Past`); what is about
  to be set was captured (`Asked`). `Exclusion`, `OneSessionPerTurn`, `CancellationIsAimed` and `WaitingIsSafe` follow. That `end`
  compares generations is what `Past` needs: an old token is less than the active one.
- **AgentLoopProofs**: `OrderInv` says that a call of a batch that was entered found all calls before it done
  (`Ordered`), and that calls made one by one have results only when they are done (`Reported`); `SequentialAlone`
  follows, since of two active calls one comes before the other. `NothingStarts` needs no invariant but the types: each
  of the places where something starts looks at the event in the same step. `CleanInv` adds what the
  open calls of history and session are in each place of the loop, unless `cut`; `WellFormedRequests` follows.
  `MessagesFlow` and `MessagesInOrder` rest on `FlowInv`: the queue is increasing and without repeats, the places of a message exclude
  each other, every number sent is in one, follow-ups are under way only in a call, and what a kind has in the history comes before what
  it has elsewhere. What a filtered sequence is (`OnlyPicks`: the image of the sequence under an increasing choice of
  positions) is proved by induction over its length. `TypeCorrect` bounds the attempts and the iterations.
- **ResilientCallsProofs**: `IndInv`, the types and: a profile's known provider is its key's (`Located`), the manager's
  client is the active profile's (`BoundToActive`), a call under way uses a client at home and would blame that client's key
  (`Holding`), who sleeps has an attempt left (`Rested`). `KeysStayHomeHolds` is not inductive without `Located` and
  `BoundToActive`: a client is rebuilt from what the manager remembers. `BlameHolds` and
  `ChoosesAvailableHolds` are action properties from the same invariant.

Induction. The library's induction theorems take an operator for a parameter, which the provers cannot instantiate. Where a
recursive function is reasoned about, a lemma `Induction` states the principle for sets of numbers, and is proved from the
pigeonhole principle: were n not in a set with 0 and all successors, the successor would map the set's part up to n into
itself without 0. The same induction gives the greatest and the least element of a bounded set, on which `Max` and `Min`
of Sessions rest.

Only model-checked: the liveness properties `TasksEnd`, `WaitersReturn`, `CancelEndsTurn` and
`EveryCallEnds` (liveness is outside the proof system's reach). Every other property of the passing runs is a theorem.

## Findings

1. **Expired owners write** (`adapters.py` 220; run RunAuthority_stale). The clock is read before BEGIN IMMEDIATE, which
   may wait for another writer; the lease is validated against the old reading. docs/roadmap.md 105-106.
2. **A rebuild may be stale when written** (`store.py` 1085; RunLedger_rebuild). The evidence is read outside the
   transaction; an append in between blocks the run's appends until another rebuild.
3. **Deduplication is inverted** (`manager.py` 171, `state.py` 79; Messenger_dedup). New events are dropped, redeliveries
   processed; the manager's tests use a mock of the opposite meaning.
4. **A resumed session is not saved** (`session.py` 678; Sessions_exit). `Session.load` switches saving off, nothing switches
   it on again or saves at the end, and a fork made at startup inherits that; the program ends with "Session saved"
   (`interactive_mode.py` 120).

Seen while modelling, without a run of their own:

- A failed end leaves the authority active (`adapters.py` 613-646): `finish_turn` and `fail_turn` reset `_active` on success
  only, and the authority then refuses every later turn, whereas line 181 says `is_active` tells whether a turn owns it.
- No lock renewal in the messenger (`manager.py` 201): an agent that runs longer than its lock is joined by a second,
  whereas `state.py` 5 promises renewal. `OneAtATime` excepts such agents.
- A follow-up pushed after the holder's last check waits for the next message or expires; the queue may exceed its limit,
  since the length check and the push are two commands; a message that meets a full queue is acknowledged and lost.
- Calls without results: an interrupt or `abort_batch` between the calls of a batch with hooks (`agent.py` 1565, 1656; 797 and
  1065 in run and arun), and overflow recovery, which keeps the last four messages whatever they are (pig-coding-agent
  `agent.py` 111). A hook `on_tool_end` that raises makes a second result for its call (1658-1678).
- Only in respond_stream does a tool's own `abort_batch` end the batch; in run and arun only that of a hook does. arun does not
  pass `cancel` to the calls that answer follow-ups (1189, 1223), and an unbounded turn's follow-ups are bounded (1462).
- In the mode "all" an exception in a nested follow-up loses the others that were taken, and follow-ups pulled by a nested call
  are answered before older ones. Queued messages are not added to the session, so a rebuilt history lacks them.
- A prompt for permission is not raced with the event. A handler in a thread that timed out goes on next to its retry
  (`registry.py` 776; the docstring at 924 says so). A provider that reuses a tool_call_id meets a closed operation (`agent.py` 186).
- A profile's model overrides the one the user chose (`retry.py` 370); a client the manager kept survives a change of model; a
  later, shorter cooldown overwrites a longer one (`profile.py` 115, 342); a failure after output blames no profile; a
  retry after a backoff stays on its cooling profile even if another has become available.
- Resuming the session that is open reads the file, then saves the newer tree, and goes on from the older one, which the
  next save puts over the newer (`app_actions.py` 531, 416); importing an old copy overwrites the file of the same id (598-606).
  These are the two exceptions of `NothingIsLost`, and the only ones.
- "Durable" compaction checkpoints (docs/pi-parity-matrix.md 28, 30) are not durable in a session that does not save itself. The
  messenger's sessions are loaded the same way. Manual `/compact` does not rebuild the agent's history (`interaction_routes.py`
  56), only automatic compaction does (`interactive_mode.py` 202), and after its transition is over. `fork_tree_entry` leaves the
  agent's usage ledger with the old session.

## Not modelled

- **User interfaces** (`pig-tui`, `pig-web-ui`, the views and commands of `pig-coding-agent`): rendering, key handling and
  argument parsing, with no state that another component depends on.
- **Providers, model runtime and catalogue** (`pig-llm`) and **platform adapters** (`pig-messenger`): translation of wire
  formats, where what could go wrong is the format itself. `_models_generated.py` is data. These, with the user
  interfaces, are close to half of the implementation's lines, which is why the map covers a modest share of it.
- **Permissions and trust**: a chain of decisions over paths and commands, without state of its own during a turn.
- **Profile management that only a library user can reach** (`add_profile`, `remove_profile`, `get_next_profile`), error
  classification, delays, message data and the choice of models.
- **Parts of modelled components**: `verify` and lookups over several runs (store), observation events and usage snapshots
  (authority), hosts that share a session directory, labels and names, usage and billing, extensions.

## Plan

1. The shared refresh of the model runtime (one task awaited by several callers, credentials that change meanwhile), and
   permissions as pure operators.
2. RunAuthority and ToolCalls composed: the authority under each attempt of the registry, with its timeouts and retries.
3. Sessions of several processes, and `/compact` next to the agent's history.
4. Theorems about what comes with these; and safety parts of the liveness properties, such as a measure that
   decreases with each step of a drain or an attempt loop.
