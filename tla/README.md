# Formal models of hoga-ops

This directory holds TLA+ models of the parts of hoga-ops (Ticklane) whose
correctness depends on interleaving, crashes and the order of events, the TLC
configurations that check them, and proofs checked by TLAPS. Line numbers in
comments, and in `PROJECT.json`, refer to the sources of the commit they were
written from. `PROJECT.json` lists every run, its properties, the lines each
definition models, and for each property a mutant of a modelled definition that
violates it.

    tlc -workers 2 -config Toss.cfg MCTossTrading       # one run
    tlapm WhiteboardSessionProof.tla                    # one proof

## 1. The system

hoga-ops captures Korean stock order books, replays them, and trades. A Python
server (`hoga/`, asyncio, one event loop, plus worker threads and one collector
process) serves a TypeScript frontend (`frontend/`); an Electron shell
(`desktop/`) starts and stops the servers.

| Component | Source | State it keeps | Interacts with | Hard behaviour |
| --- | --- | --- | --- | --- |
| Command journal | `trading/service.py`, `trading/commands.py` | one sqlite row per command id: payload, state, result, creation order | both command paths | written before a request leaves; read after a crash |
| Toss command path | `trading/service.py`, `toss.py` | running tasks, order locks, key locks, modification and cancel slots, modifications a create waits for | journal, broker (HTTP) | nested locks, lost answers, crash, resumed bulk |
| Kiwoom gate | `trading/kiwoom_admission.py` | queue of tickets, active epoch, fence of identity proofs, grants, admission state | Kiwoom command path | FIFO with cohorts, wakeups, freezing on uncertainty |
| Kiwoom command path | `trading/multi_broker.py`, `kiwoom.py` | running tasks and bulks | gate, journal, broker | durable mark inside the HTTP call, five kinds of end |
| Paper account | `trading/paper.py` | one JSON document: cash, holdings, orders, books with available liquidity, commands | live book feed | liquidity accounting, reservations, midnight, retries |
| Snapshots and events | `trading/service.py`, `kiwoom.py`, `multi_broker.py` | display caches with a revision, observed orders, connection | broker REST and websocket, frontend | stale answers, lost frames |
| Capture queue | `api/captures.py`, `capture_queue_runtime.py`, `captures_persistence.py` | queue, active and done items, in-flight paths, pause, fail streaks, durable manifest | collector, parser, ownership, websocket events | workers, wakeup, pause and resume, crash recovery |
| Whiteboard session | `frontend/src/whiteboard/session.ts`, `drafts.ts`; `api/whiteboards.py` | document, generation, pending request, two timers; drafts in a store of all tabs | the server's conditional write, other tabs | edits during a save, lost answers, recovered drafts |
| Server manager | `desktop/src/server/controller.ts`, `processes.ts` | services, held children, the operation under way | child processes, servers of others, the user | a stop during a start, a start that fails halfway |
| Live feed | `frontend/src/api/ws.ts`, `sharedLiveSeries.ts`, `liveSeries.ts`; `live/delivery.py`, `buffer.py`, `api/ws.py` | bounded deliveries; socket, subscriptions; shared series with a snapshot, gaps and a retained book | live buffer, REST | reconnection, dropped entries, late answers |
| Order view | `frontend/src/api/tradingRefresh.ts`, `trading.ts` | query cache of orders, overrides and completed orders of events, revisions | snapshots and events, the order window | events against late reads, replacements |
| Window workspace | `frontend/src/state/workspace.ts` and the navigations | windows, groups, links, pins, orphaned snapshots, what each chart remembers; storage of each tab | charts, order and execution windows, presets | commands in any order, reload, new tabs |
| Order identities, registry | `trading/accounts.py`, `contracts.py`, `models.py` | sqlite table of references and lineage | Kiwoom command path | recorded after the answer |
| Executions, ranges, pre-open | `trading/executions.py` and siblings | none | broker REST | paging |
| Ownership | `api/ownership.py` | locks of this process on resources of the data directory | capture queue, scheduler | hand-over between processes |
| Coalescers, single flight, pools | `api/slice_coalescer.py`, `request_coalescer.py`, `live/single_flight.py`, `compute_executor.py` | shared futures, bounded queues | API handlers | cancellation of a waiter, failure of the leader |
| Scheduler, watchlist, heatmap, calendar | `api/scheduler.py` and siblings | versioned JSON documents, next run times | capture queue | missed and doubled runs |
| Screener | `api/screener*.py` | run registry, daily store | compute pools | cancelled runs, atomic commit |
| HTTP and websocket API | `api/app.py`, `routes.py`, ... | connected clients | everything | fan-out |
| Collector | `collector/` | pages already fetched | upstream site | resume, stagnation |
| Live sessions, collector process | `live/kiwoom_*.py`, `lifecycle.py`, `collector_*.py` | registrations, capacity, tokens, child process | broker websocket, live storage | reconnect, slot reuse, crash of the child |
| Live storage | `live/promote.py`, `second_trade_store.py`, ... | parquet files | sessions, API | flush against promotion |
| Parsers, tables, utilities | `parser/`, `tables/`, `util/` | none, or a cache | - | pure |
| Chart loading | `frontend/src/live/useLiveBundle.ts`, `useViewportBackfill.ts`, `LiveChartRoot.tsx` | React effects, refs, query cache | REST, live feed | effects and late pages |
| Chart drawing, other pages | `frontend/src/chart/`, `watchlist/`, ... | presentation | API | - |

The components with the most at stake are the ones that send orders: an order
sent twice, or reported as refused when it was taken, costs money and no unit
test reaches the interleavings that cause it. Next are the stores of what cannot be
had again (the capture queue, whose upstream keeps a day for some eighteen hours, and
the whiteboard, which is the user's own work), then what the user acts on: the
orders and prices that a tab shows, and the windows they are shown in.

### What makes each modelled component correct

* Journal and dispatch: a command id is submitted at most once, and what its row
  says is what the broker did, through retries, crashes, lost answers and manual
  review.
* Toss command path: a create is never at the broker beside a create or modify of
  its account and code whose outcome is in doubt; an order has at most one
  operation that is not over; a bulk cancel freezes its targets before the first
  cancel and answers for all of them; no chain of locks and slots blocks.
* Gate: whoever shares an epoch is independent of the others; tickets enter in
  order; a closed epoch drains; no sleeping ticket could enter.
* Kiwoom command path: the same promises, and: nothing is at the broker that the
  journal shows as never sent; nobody joins an epoch behind an unknown outcome.
* Paper account: solvent, adds up, trades in price and time order, never trades
  liquidity that was not shown, trades each command once.
* Snapshots: an answer has seen what its revision says, and nobody is shown a past
  that the service knew to be over.
* Capture queue: a (code, date) is captured once at a time; an accepted item is not
  lost by a pause, a resume or a crash; the manifest restores the
  queue; no queued item is left lying while a worker sleeps.
* Whiteboard: an edit is never lost without a word; what is dirty is on its way; no
  save takes away what its session has not seen; a session never conflicts with a
  repetition of its own save.
* Server manager: whoever starts, stops or ends in whatever order, the children of
  a failed start and of the manager's end are terminated and awaited; a server of
  others is signalled only as it was confirmed; every operation ends.
* Live feed: data the tab lacks is known to be lacking and is fetched; the book that
  is shown in the end is the newest; the server's subscriptions follow the tab.
* Order view: the tab is never ahead of the broker, an order that has ended does not
  come back, locks are held as long as an operation is in doubt, and what is shown
  becomes true.
* Workspace: a chart remembers nothing of another symbol or frame; what a reload
  restores is what was shown; a pinned window keeps its symbol; an execution window
  whose order window closes keeps showing the same account and symbol.

## 2. The modules

| Module | Models | Used by |
| --- | --- | --- |
| `CommandJournal` | class `CommandJournal`: what a row answers | `TossTrading`, `KiwoomTrading` |
| `SingleSubmission` | the abstract promise of a command: submitted at most once, told as it happened | refined by `TossTrading`, `KiwoomTrading` |
| `TossTrading` | `TradingService.execute`, `_execute`, `_submit`, `cancel_all`, `review`, restart | `MCTossTrading`, `TossTradingProof` |
| `KiwoomCodeGate` | `KiwoomCodeGate`, `AmendmentLease` | `KiwoomTrading` (EXTENDS), `MCKiwoomCodeGate`, `KiwoomTradingProof` |
| `KiwoomTrading` | `BrokerTradingService._dispatch_kiwoom`, `_execute`, `cancel_all`, `review`, restart | `MCKiwoomTrading`, `KiwoomTradingProof` |
| `PaperAccount` | `PaperTradingService` | `MCPaperAccount` |
| `TradingSnapshots` | the display caches of `TradingService` (and of the Kiwoom adapter), `changed`, `order_event`, `_events_loop` | `MCTradingSnapshots`, `TradingSnapshotsProof` |
| `CaptureQueue` | the queue, workers and routes of `captures.py`, the manifest, `CaptureQueueRuntime` | `MCCaptureQueue` |
| `WhiteboardSession` | `WhiteboardSession`, `drafts.ts`, the opening of a board, the server's `write` | `MCWhiteboardSession`, `WhiteboardSessionProof` |
| `ServerManager` | `ServerController`, the processes it starts and signals | `MCServerManager`, `ServerManagerProof` |
| `LiveFeed` | deliveries of the server composed with the socket, the shared series and its REST reads | `MCLiveFeed`, `LiveFeedProof` |
| `OrderView` | the merge of order lists and order events in a tab, composed with a broker and a service | `MCOrderView`, `OrderViewProof` |
| `Workspace` | the store of windows, its storage, and the navigations made of its setters | `MCWorkspace`, `WorkspaceProof` |

### How actions correspond to the code

asyncio runs one task at a time and switches only at an `await`, and so does a
browser's or Electron's event loop. An action is what a task does between two
awaits, with the helpers it calls; where a module has tasks, `pc` says at which await
each is suspended. `asyncio.Lock` serves waiters in FIFO order and no command task is
ever cancelled (callers wait on `asyncio.shield`), so a lock is the sequence of its
owner and waiters.

`TossTrading`: `Dispatch` is `dispatch_command` for a new id (a known id changes
nothing); `TakeOrderLock`, `Register`, `TakeKeyLock`, `PassBarrier` are the exit
stack of `_execute`; `CheckCreate`, `CheckOrder`, `ReadOrder`, `ReadPrior`, `Post`
and `Answer`, `LoseAnswer`, `Refuse` are `_submit` and the ends of `_execute`;
`Die` is an exception that is not a `TradingError` (the row stays "sending").
`BulkBegin` ... `BulkDie` are `cancel_all` and `_cancel_all`. `Crash` forgets every
variable that is memory and keeps `journal`, `begun`, `targets`.

`KiwoomTrading`: a ticket is the command that holds it. `StartCommand` dispatches
and queues the ticket, `WaitTurn` is the gate's loop, `CheckUnresolved` and
`ReadOrder` the preflight, `MarkSending` the callback that the HTTP client runs
just before the request and `Post` the request, `Answer`, `LoseAnswer`, `Refuse`,
`LoseRecord` the except clauses (the last is the one whose own record fails).
The account's other codes appear only through what they can do to this one: wait
times that end in the deadline.

`KiwoomCodeGate`: `Enter`, `Grant`, `Sleep`, `Expire`, `Exit` are `enter`;
`ObserveLeader`, `ObserveFollower` are `observe`; freezing (`complete`) and leaving
are one step because nothing is awaited between them. Waking is `Notify`, which
puts every sleeper back to evaluating its turn.

`PaperAccount`: an operation runs under one lock on a copy of the document and
publishes it atomically, so it is one action on `doc`; what can change while the
book is awaited is the date. A reconciliation reads the date once, before it awaits the
book (`paper.py:162`), so what it expires is what was over then; `DayOrders` speaks of
the day at which an operation began and does not tell a midnight inside the await from
one after it. `Reconcile` is the loop and `state()`, and any command
that fails after its reconciliation was saved.

`TradingSnapshots`: a task is the coroutine of a call, or the one it starts for the
holdings inside the balances. `Call` queues at the entry's lock, `Hit` and `Fetch`
are the two sides of the cache check (`Fetch` notes the revision and sends the
requests), `Serve` is the broker reading the account for one request, `Finish`
builds, caches and returns the answer, `Fail` is a failed request (a nested
coroutine whose caller failed goes on, as `asyncio.gather` leaves it). `Changed` is
`changed()`; it is called by `LocalChange` (the end of a command), by `Receive` for
every frame and by `Disconnect`. The account is a version that grows; `at`
and `called` are history variables.

`CaptureQueue`: the sections under `_lock` contain no `await`, so each is one step,
and the work before and after it up to the next suspension belongs to it. `Take`
and `Park` are the two sides of `_worker_loop`; `Finish` is the end of a run with
`_finalize_item`, `CookieExpired` the same with `_handle_cookie_expired` before it.
`Enqueue`, `Retry`, `Unblock`, `CancelQueued`, `CancelActive`, `CancelAll`, `Resume`
and `DismissDone` are the routes. `Persist` is the save at the end of a section, and
may fail. `Activate` is the owner's restore and start; a process that does not own
the queue (contended, restoring, failed) is "waiting", and its predecessor, which
owns the queue, is the previous life of the same variables. `accepted`, `dropped`
and `told` are history. The branch of `_worker_loop` that puts back an item whose
pair is in flight cannot be reached while `OneRowPerPair` holds, so it has no action.

`WhiteboardSession`: `Change` is `changed()`, the end of every edit; `DraftTimer`,
`SaveTimer`, `Online` (the network is back, or the user tries again) and `Unmount` (the
editor is left or another board chosen, which stores a draft in any state but "saved",
a conflict included: `KeepDraft`) call `persistDraft` and `flush`; `Send` ... `EndSave` are the
stretches of `save()` between its awaits (the draft stored, the request, the cleared
draft); `SaveFails` and `Lose` its catch clauses. `local` is the order in which
IndexedDB ends what a tab began; `Stored` is `putDraft`, `clearDraft` with its token,
and the wipe of a key. `Serve` and `ServeStray` are the server's `write`, the second
for a request whose client no longer waits. `Trash`, `TrashFlushed`, `TrashOk`,
`TrashFails`, `Retire` are `moveToTrash`. `Fetch` and `Build` are the opening of a
board with `findDraft`, `Close` a page that is left. `Copy`, `CopyMade` and `CopyFails` are
the user's way out of a conflict: `fork` takes what the session contains and awaits the
server, and the page then discards the session with whatever it contains by now.
`held` (what has been at the server, on this board or as a copy), `forgiven` (left by a
user who was asked), `outrun` (made while a copy was made, and discarded with it) and
`mixed` are history.

`ServerManager`: `start`, `stop`, `prepareStop`, `confirmStop` and the end of the
manager are operations with a place each at their awaits; a process is alive, ended
or deaf (it has not met its signal yet), and `held` are the children that the
controller has in its map. Servers of others are seen through their ports.

`LiveFeed`: a publication goes through the delivery of the buffer's subscription and
the delivery of the socket (`delivery.py`), each of which drops its oldest entry when
full and counts it; `ws.ts` connects, resends its subscriptions and falls behind;
`sharedLiveSeries.ts` keeps one series of all charts of a key, fetches a snapshot
when the first chart opens, when it is told of dropped entries and after a
reconnection, and merges what comes meanwhile. Sequence numbers begin anew with a new
server process; times may tie and go back (`delivery.py:40`). The server may refuse a
subscription: the allowance of 512 codes of a tab is used up (`ws.py:210`), or the
upstream has no room, and then it keeps the code (`ws.py:220`); the tab keeps the code
among its own in both cases, is told by an event and marks it (`limited`). Such an
outcome counts as a fault. `get_buffer()` is the module's one buffer and never None
(`lifecycle.py:230`), so the branch of `ws.py:208` is left out. A socket whose address
cannot be read is not tried again by itself (`AddressFails`), until something else
subscribes (`Listen`, `Mount`). An invalidation after a gap replaces the request under
way, unless that is the first of its query, which has no cached answer and is kept
(`Joins`; the query library's rule, quoted in `eventStream.ts:153`).

`OrderView`: the broker changes orders (fills, ends, modifications and cancels, which
replace an order by another); the service sends an event and a revision; the tab
begins reads of the open and of the closed orders and of a single command, in any
number the bounds allow, and their answers come late. `Fill`, `StartReplace`,
`EndReplace`, `RejectReplace`, `StartCancel` and `EndCancel` are the broker; `Deliver`,
`LoseStream`, `ResumeStream` and `Restart` the service with its event stream; `Poll`,
`ReadOpen` and `ReadClosed` a read of the tab and its two requests; `OnEvent`,
`Receive` and `Acknowledge` the merging functions of `tradingRefresh.ts` for an event,
an answer and the result of a command (`Modify`); `Disconnect` and `Reconnect` the
tab's own socket.

`Workspace`: a setter of the store is one action with the persistence it performs. A
navigation (`OpenExecutions`, `OpenSecondRange`, `OpenTrade`, `OpenSaved`, `Activate`,
`Transfer`) is composed of the operators of its setters in the order of the code, which
is how intermediate states are written to the storage; `ShowExecutions`, `Inspect`,
`Trades`, `PickSaved` and `Click` are the commands that call them. `Reload` and
`FollowLink` read the storage back through `ReadStorage`, `Hydrated` and `Seeded`, the
normalisations of a stored layout; `Heal` is the effect that normalises a US window.
`Bind` and `Unbind` choose an order window for an execution window, or none.
`ClickInVain` is a click when every window is pinned: it puts up a notice (`toast`),
and `ReleaseAll` is the notice's offer to unpin them all, whatever has become of the
windows meanwhile. What a chart remembers (the panned date, the minute date, the range,
the disk source) is represented by the view it was made for, so that `FreshView` can
compare.

The broker, its answers and the book feed are external and may do anything their
API allows at any time: take or refuse a request, reject an operation it had
taken, show any snapshot.

## 3. The runs

All sets are of model values; every bound is a CONSTANT.

| Run | Instance | Properties |
| --- | --- | --- |
| `Toss` | five sets of commands of one account and code, out of 2 creates, 3 modifies, 2 cancels and a bulk cancel; 1 slot each, 1 crash, resumption | `WritesSound` `ImplementsPromise` `EveryTaskEnds` |
| `Kiwoom` | 3 modifies, 2 of one family; or a create, a modify, a cancel and a bulk cancel of one order; real account, 3 grants, 1 crash | `SentIsOnRecord` `WritesSound` `JoinInCertainty` `EveryTaskEnds` `ImplementsPromise` |
| `KiwoomGate` | 5 tickets, 4 orders (2 of one family), 2 grants | `Independent` `NoLostWakeup` `NoOvertaking` `TicketIsServed` |
| `Paper` | 2 codes, 3 prices, 3 commands, quantities 1 and 2, resets, 2 days | `AccountSound` `BookSound` `PriorityKept` `DayOrders` |
| `TradingSnapshots` | orders (two requests, may be read past the cache), balances with the holdings nested in them; 2 calls, 1 change of the account, 2 changes known to the service, no lag of REST | `LabelIsTrue` `AnswerIsRecent` `QuietMeansCurrent` |
| `CaptureQueue` | 2 pairs, 3 items, 2 workers, cap 1, one crash, shutdown or failed write | `OneRowPerPair` `RestoreIsFaithful` `EndsAreRight` `QueuedIsTaken` |
| `Whiteboard` | 2 tabs (symmetric), 2 edits, 1 fault, 2 openings, 1 trash, a server that refuses a content or none | `EditsAreSafe` `ConflictIsReal` `NothingOverwritten` |
| `Servers` | 2 services of 2 children each, a server of others, 2 stops with or without a plan, the end of the manager, one process that fails | `ChildrenAreFollowed` `OnlyConfirmed` `OperationsEnd` |
| `LiveFeed` | 3 publications, the second of an earlier time, deliveries of one entry, 2 failures or refusals, 2 openings of a chart | `LossIsKnown` `DropsAreRecovered` `BookConverges` `SubscriptionFollows` |
| `OrderView` | one order and what replaces it, quantity 2, 2 changes, commands or faults, one event on each channel, any number of reads | `NotAhead` `NoResurrection` `Converges` |
| `Workspace` | 4 commands from four layouts of 2 or 3 windows, at most 3 open when one more is added, 2 groups, a domestic and a US symbol | `FreshView` `ReloadRestores` `PinHolds` `FillsKeepLast` |
| `WhiteboardConflict` (violated) | 2 tabs, 3 edits, no fault | `NeverOverwritten` |

Several properties are conjunctions of named parts, which the modules state and
comment one by one: `WritesSound` of `CreateAlone` (or `WriteAlone` and
`FamiliesApart`), `OneOperationPerOrder`, `FrozenBeforeCancel` and, for Toss,
`BulkAnswersForAll`; `AccountSound` of `Solvent`, `AccountBalances`, `EffectOnce` and
`ReplacedByAnother`; `BookSound` of `NoMintedLiquidity` and `FullyMatched`;
`RestoreIsFaithful` of `AcceptedIsKept` and `ManifestIsCurrent`; `EndsAreRight` of
`OnlyTheUserDrops` and `DrainIsTold`; `EditsAreSafe` of `EveryEditIsKept` and
`DirtyIsScheduled`; `ChildrenAreFollowed` of `NothingLeftBehind` and
`StartIsUndone`; `NotAhead` of `LocksHold` and `EndsAreTrue`.

The runs spend their properties on what could go wrong. The type invariants of the two
command paths, the gate, the snapshots, the whiteboard, the server manager, the live feed
(`FeedTypeCorrect`), the order view (`ViewTypeCorrect`) and the store of the workspace are
proved (section 4;
`ServerManagerProof` and `WorkspaceProof` state their own); those of the other modules
(`TypeOK`) hold at the same bounds as the runs, to be seen by adding them to the
`INVARIANTS` of the configuration.

`WhiteboardConflict` shows where the code and its document differ.
`docs/whiteboard.md:45` says that what another window saved first is not overwritten
by itself. A session that recovers a draft of an older revision begins in conflict
with the new document and the old content; an edit in that state, or no more than
leaving the editor (`BoardEditor.tsx:228`), stores a draft that carries the new revision
with the old content (`session.ts:137`), and after a reload
the draft passes for an edit of the present revision and is saved. `NothingOverwritten`
excepts exactly the sessions that stored such a draft and those that recovered it
(`mixed`), and is proved for all others.

### Bounds

A conflict between commands is between two of them and needs a third only to change
what the second sees (the previous operation of an order, the member whose leaving
empties an epoch), so three commands of one account and code, on one or two orders,
contain the cases; one modification slot and one cancel slot make the slots
contended; one crash shows both what a restart finds and, because commands may be
retried and bulks resumed after it, what it does with it (a second crash repeats the
first; two of the five sets of the Toss run are checked without one). The gate has one
more order than a cohort holds, and a family of two. In the paper account three prices
are the smallest book with two crossing levels on one side and a spread that can move;
`MaxShown` bounds what the feed ever adds at one price. In `TradingSnapshots` two
calls are what it takes for one to find the cache, the nested entry or the lock of
the other; one version of the account tells old from new; two revisions let a
change come before and after a request leaves. Its proof covers every other size.
In `CaptureQueue` two workers are one that meets the expired cookie and one that is
interrupted by it, the third item is a second one of a pair (a retry, or an enqueue
over a finished row), and a cap of one blocks a pair after one failure; one fault is
a crash in any state, or a manifest that is stale until it is written again.

Two tabs and two edits are one session and the one that saves in between; a trash
numbers requests of its own. In `Servers` two services are one that is up when the
other fails, two stops are one and the one by force of what outlived it, and the
server of others takes the port of a child that has gone. In `LiveFeed` deliveries of one entry overflow with the second
publication, and the third comes after the tab has been told; the second has an
earlier time than the others; two failures lose a connection and the answer that would
have repaired it, or refuse a subscription again. In `OrderView` one order is
filled, replaced and ended while reads of before, between and after are under way. In
`Workspace` the layouts are two charts, one of them pinned, an order window, and an
execution window linked to it; four commands are two that set a view up and two that
meet it. The layouts use the identifiers below `FirstId` = 4, and two more (to `MaxId` = 5)
can be handed out.

Larger instances were checked once: `OrderView` with three changes, or two and a fault
(1.2 and 5.8 million states), and `Workspace` with five commands (2.2 million) to the
end; simulation of the invariants and action properties of `Whiteboard` with 4 edits, 5
openings and 2 faults (67 million states), of `Servers` with 3 children, 2 servers of
others, 4 stops and 3 faults (50 million) and of `LiveFeed` with 6 publications, 4 faults
and 3 openings (195 million).
None of them violated a property.

Every run but `OrderView` has `CHECK_DEADLOCK FALSE`: the systems stop when all their
commands are over, and the workspace has no activity of its own. What must not get
stuck is stated as liveness instead (`EveryTaskEnds`, `TicketIsServed`,
`QueuedIsTaken`, `OperationsEnd`, `BookConverges`, `Converges`).

### Fairness

`TossTrading` and `KiwoomTrading` assume weak fairness of every step of every task
and of every bulk cancel: the event loop runs each ready task and every HTTP call
ends, since the clients have timeouts. Locks need no more than weak fairness because
they are FIFO. Nothing obliges a client to send, an operator to review, the broker to
act, an exception or a crash to come. The gate assumes that tickets take their turns
and that members leave, never that a deadline comes. `CaptureQueue` assumes that each
worker is scheduled and that each capture ends (its requests have timeouts), never
that somebody resumes a paused queue or that an owner appears. `ServerManager` assumes
that the steps of an operation are run, that deadlines pass, and that a child obeys SIGTERM and
is then reported in the end (the code waits for it without a deadline), never that the
user confirms or starts anything. `LiveFeed` assumes that the server's tasks and the
callbacks and timers of the socket run, and that a lost connection is tried again until
it stands (`ws.ts` retries with a growing delay and no limit). A tab that could never
read the address of its server is the exception (`Stranded`): nothing obliges anybody to
subscribe again, and `BookConverges` promises it nothing. `OrderView` assumes the
same of its streams, that the tab polls at its interval and each request is answered or
fails, and that the broker decides every modification and cancel it has accepted (an
order whose operation is never decided is rightly shown as locked for ever). Failures
are bounded; nothing obliges the publisher to publish or the user to act. `TradingSnapshots`, `PaperAccount`, `WhiteboardSession` and
`Workspace` state safety only and assume no fairness.

## 4. The proofs

`TossTradingProof` proves, for every set of commands, orders, slots and crashes:
`TypeCorrect`, `SubmittedOnce`, `ToldTruly` and the refinement `PromiseKept`
(`Spec => Promise!Init /\ [][Promise!Next]_Promise!vars`). Neither
`AtMostOnePost` nor `OutcomeIsTrue` is inductive: a state where a task is about to
post a command that was posted before satisfies both. `SubmissionInv` adds what the
place of a task and its row say of the requests sent: a task has a row "sending"; a
row "unknown" was sent; a task that is not past `Post` has not sent; a command that
was not sent is unknown to the broker. It is inductive together with `TypeOK`; the
refinement follows step by step from it: every action is a step of
`SingleSubmission` or a stutter.

`KiwoomTradingProof` begins with the gate on its own (`GateSpec`, which knows nothing of
the command path) and proves for every gate: `GateTypeCorrect`,
`CohortIndependent`, `ClosedMeansClosed`, `FirstComeFirst`, `Woken`. The inductive
invariant is `GateInv`: the queue holds each waiting ticket once (`QueueInv`, from
which overtaking is excluded), an empty gate has no grants left over and a full
epoch is not open (`EpochInv`, which makes `granted` stay within its type), and
`Independent`.

`TradingSnapshotsProof` proves, for any entries, calls, lag and losses:
`LabelledTruly`, `AnsweredRecently` and `QuietIsCurrent`, from the inductive
`TypeOK /\ FetchInv /\ CacheInv` (`SnapshotsAreKept`). The properties speak of
finished answers; `FetchInv` says what a fetch under way has seen: all that had
changed when its coroutine noted the revision, and that a nested coroutine noted
its own no earlier than its caller did, which is why the caller's label is true of
the holdings it contains. `CacheInv` says that a cached entry is of the current
revision, that the account is never older than a revision, and that the two agree
while a subscription stands with nothing under way.

`WhiteboardSessionProof` proves, for any tabs, edits, faults, openings and trashes:
`TypeCorrect` and `SavesOverwriteNothing` (`NothingOverwritten`). What a write takes
away depends on what its request contains, which may have been made long before and
recovered from a draft, so the invariant `SaveInv` follows a content from the document
to the request that comes back to it. `FreshInv`: sessions, requests, drafts, drafts on
their way to the store and documents being opened contain what the server holds if
they carry its revision, unless their session is `mixed` or began in conflict and
stored no draft. That a session stays so when its save is answered needs `ClaimInv`: what
is said to be the content of a session (by itself, by a request, by the server) grows
with the generation and is the same for the same generation, so a repeated request
finds its own content and a later edit contains it. `OwnInv` says whose a request is
and that a session in conflict has none under way; `BoundInv` keeps the counters in
their types. Every step is quiet (no document changes), an edit, the good end of a
write, or a new session (`QuietSteps`), which is how the cases are organised.

`TossTradingProof` goes on from there to prove `WritesAreSound` (`WritesSound`): a
create is never at the broker beside a doubtful write of its key, an order has one
operation at a time, bulk cancels answer for what they froze. The argument is the
ownership of the locks. `LockInv`: the queue of a lock holds exactly the tasks that
asked for it and have not ended, only its head is past it, and every modification of a
key that is registered is in what a create at its barrier waits for. `RowsInv` and
`FifoInv`: the rows of the journal are in the order of the order lock's queue, and the
operations on an order end in that order, which is why the latest accepted row is the
operation that was sent last. `DoubtInv`: what a task has read (no row in doubt, the
order as it is) stays true while it holds its lock. None of these holds without the
others.

`KiwoomTradingProof` goes on to prove the same of the Kiwoom path, and more: `KiwoomTypeCorrect`,
`NothingUnrecorded` (`SentIsOnRecord`), `WritesAreSound`, `JoinsInCertainty` and the
refinement `KiwoomKeepsPromise`. It takes from the theorems of the gate that members of an
epoch are independent (every step of the service but a crash is a step of the gate or
leaves it alone, `GateMoves`), and adds what the service makes of it: a task past the
gate is a member (`TaskInv`), a follower or a proven member has passed the check of the
account or joined behind one that has (`MemberInv`), a row in doubt without a task
either cannot touch what a checked member touches or is of a failed member of its own,
frozen cohort (`DoubtInv`), and the accepted operations before the one that was read are
over (`PriorInv`).

`WhiteboardSessionProof` builds on that invariant to prove
`EditsAreKept` (`EditsAreSafe`). That every edit is kept is not inductive: a draft may be
overwritten or cleared by an operation that was begun long before. `StoreInv`: what a
tab has begun in the store replaces its draft, and each other's, by more, up to what has
been at the server or was given up (`Chain`), since a session only grows; `TokenInv`: a
clear carries the token of a content that is known, and the draft that a session
recovered says no more than the session; both need `ClaimInv`, by which a token stands
for one content. A copy that is made makes its content known, and what the session
contains beyond it is `outrun`. `HeldInv`: what was answered, read or shown as saved has been at the
server. `ScheduleInv` strengthens `DirtyIsScheduled` by the places a save and a trash can
be at. Then a session whose page asks goes on to ask, or what it says is known or is its
draft (`SafeSteps`), and a draft is replaced by more or what it says is known
(`DraftStays`).

The same module proves `ConflictsAreReal` (`ConflictIsReal`). `TurnInv` has to follow the
last mutation of the server through the requests of its session: at one revision a
session has one request that was not refused, the pending one (`RequestsInTurn`); if it
wrote last, it knows the revision, or its pending request is what was written, or is
newer than that (`WriterKnows`); a conflict is answered only to a request that can do
nothing more (`AnswerInTurn`, `ConflictInTurn`). It rests on the freshness of answers (`FreshInv`) and on `ClaimInv`, by which a refused content is not the
server's (`RefusedIsNotWritten`). The property and the invariant speak of the time before
anybody tries a trash, which is not repeated under its own id.

`ServerManagerProof` proves `ServerTypeCorrect`, `ChildrenEnd` (`ChildrenAreFollowed`)
and `SignalsAreConfirmed` (`OnlyConfirmed`). `HeldInv`: a child that has not closed is the
one held for its service, unless its service was started over a held one (`doubled`, the
exception that the property states); `StartInv` and `StopInv` say which operation awaits
a child that nobody has kept; `TargetInv` follows what a stop may signal from the plan
that the user confirmed to the second signal.

`LiveFeedProof` proves `FeedTypeCorrect`, `SubscriptionsFollow` (`SubscriptionFollows`),
`LossesAreKnown` (`LossIsKnown`) and `DropsComeBack` (`DropsAreRecovered`), for any number
of publications, sizes of deliveries, times, openings and failures. `Linked` says that a server
that has not accepted the connection has nothing of the tab. `Queued`: the commands under
way alternate, a subscription that is the first of them is new to the server and the last
is what the tab shows; with none under way, what is shown and not subscribed is known to
be over the limit or is being told. This alone makes the subscription follow. `FromHolds`: a series that
has been subscribed for the first time is shown, and while no mark is set or about to be
its subscription has come through, which is why every publication since then went to the
server's delivery (`LossIsKnown` is inductive with it). `DropsAreRecovered` speaks of the
end of a recovery; `Recovering` says of every dropped entry where its recovery is: in the
buffer, to be told by a mark on its way, waiting for the gap timer, or in a request that
the server has not read, has read with the entry in it, or that failed. An entry above the
largest one of a batch is found by induction on the natural numbers (`Least`, `Greatest`).

`WorkspaceProof` proves `ViewsAreFresh` (`FreshView`), `ReloadsRestore`
(`ReloadRestores`), `PinsHold` (`PinHolds`) and `FillsKeep` (`FillsKeepLast`), for any
windows, groups, symbols and seeds, and for any number of commands. The invariant is of a
store and not of the state (`Good`), since a navigation makes several stores in one event
that nobody sees: the parts have their types and identifiers are below `next` (`StoreOK`;
without it a window of a stored layout could meet a new one of the same identifier), every
chart remembers what is of its view (`Fresh`), and the storage holds the windows of the
store, or windows that a load normalises into them (`Stored`; a load does not write what
it has normalised). Every setter has a lemma, from a good store to a good store; those of
the navigations follow from their setters'. For the pins, `Extends` says of two stores
that no window is gone and no pin has changed and composes along a navigation; `Pins`
says the latter of the windows that are left. `SetWindowGroup` keeps a pinned chart's
memory without looking at its frame, which is right only for a chart that fits its symbol:
the proof needs that a command comes after the chart's own effect (`Unfit`), or that the
window is new and not pinned.

`OrderViewProof` proves `ViewTypeCorrect` and `TabNotAhead` (`NotAhead`) for any number of
orders, changes and faults and any lengths of the queues. What a tab shows is made of rows
that were told or read at different times, so the invariant speaks of all the places where
a row can be. `Truth`: each was once true of its order (`Faithful`: not ahead of the
broker in operations and fills; what is ended is what the broker ended; a replacement
that is in force says that its original was replaced), and a read also shows an operation
under processing (`ReadFaithfully`). That gives the half about orders that have ended, but
not the one about locks: a true row may be an old one. `Chain` adds the order of things:
rows of one order come over stream and wire no earlier than the one that is kept
(`Ordering`, `Pending`), an answer is at least as new as all events up to its label
(`Labels`; this fails after a restart, as the revisions begin anew, hence `outdated`), the
next answer is at least as new as the last (`Freshness`), and an order whose operation was
shown holds the event that shows it, or a newer answer and no event (`LockInv`). Orders
that the tab was acknowledged as replacements are excepted: the acknowledgement permits a
resting row to end their processing, and a later operation inherits the permission
(section 6, `NoInheritedUnlock`).

The same module proves `EndsStay` (`NoResurrection`). `Truth` already says that an order
is not shown as ended too early; that it stays so is about steps, and fails where the
events that say so are outdone by an older answer, or where nothing but such an answer
says it. `EndsInv` characterises what is shown: an order is gone just when its event is
terminal, or no event is kept of it and the answer has it among the closed orders, and not
also among the open ones (an order may end between the two reads of an answer), unless the
event of its replacement, itself ended, takes it off the list (`Final`). `Ends` is what
keeps this: every answer after one that knows an end knows it too (`NextKnows`), and until
then no event of the order is taken that the answer would have to beat (`EndsKnown`).
Behind the event of a replacement in force, the end of the original is all that follows,
over both queues (`Told`, `RetiredTruly`), also while that event waits for its
acknowledgement, when no read may be under way and the answer does not know the end yet
(`Alone`).

The assumptions are the ASSUMEs of the modules, which TLC evaluates in the runs: how
payloads relate (`PayloadAssumption`), positive slots, a ticket of a modification names
an order, tickets are the single commands and only modifies of a real account run in
parallel, an order is related to itself (`KiwoomAssumption`), nesting of entries is one
level deep (`SnapshotAssumption`), a server of others is not a child of the manager
(`ServerAssumption`), `None` is none of the values that it stands beside
(`NoneAssumption`), sizes are positive (`FeedAssumption`, which says nothing of the order of the times), there is an order,
a quantity and room for an event (`ViewAssumption`), domestic
and US symbols differ (`WorkspaceAssumption`), and a seed holds windows whose identifiers were handed
out before this tab's (`SeedsAssumption`; in the code they are random, `FirstId` is where the
model's begin).

Only model-checked:

* Liveness (`EveryTaskEnds`, `TicketIsServed`, `QueuedIsTaken`, `BookConverges`, `Converges` and `OperationsEnd`, all under fairness) and
  ENABLED, which are out of the prover's reach. Where a proof needs "in the end", as
  `DropsComeBack` does, it is the safety half: what is recorded that a later step acts on.
* `PaperAccount` (`AccountSound`, `BookSound`, `PriorityKept`, `DayOrders`): a state is the
  fold of a recursive function over sorted sequences of orders, and its amounts are sums over
  sets. What such a function computes for every input needs an induction over data, whose
  theorems take an operator as a parameter.
* `CaptureQueue` (`OneRowPerPair`, `RestoreIsFaithful`, `EndsAreRight`): the queue is
  filtered with `SelectSeq` and counted with `Cardinality`, for which the same is true.

An induction that is needed inside a proof (`LiveFeedProof`: the last publication below a bound)
is done with the least element of a set of numbers, for which `WFMin` takes only sets.

## 5. Abstractions

* Prices, quantities, messages and HTTP status codes of orders are left out of the
  command paths: all checks of content are one refusal (`Refuse`), possible at the
  places where the code can raise.
* A payload is fixed per command id; the same id with another payload is refused
  by the journal without an effect.
* A Kiwoom identity proof is a constant of its order: number, date, route and
  recorded ancestry never change for a reference.
* Two keys never share a lock in the Toss path; one key is modelled. Across codes
  only the slots are shared, which the runs make scarce instead.
* A snapshot's content is the version of the account it was read at; an answer of
  several requests counts as old as the oldest. REST may lag by `Lag` versions
  (a constant of the proofs, 0 in the run). Frames have kinds only; a frame of
  another account or topic does nothing and is left out. Each call is made once.
* In the paper account averages and costs are left out (they follow from the
  amounts), times are small numbers, and a stale or one-sided snapshot is one that
  is passed over.
* In `CaptureQueue` a skipped item counts as done (only the counters of the drained
  event tell them apart), the attempt number is left out, and a retry of several
  items is several retries. A capture thread that outlives its worker task at a
  shutdown is not modelled: the lock is released while it may still write, and the
  next process may begin the same capture.
* In `WhiteboardSession` a board is the set of its edits, and a deletion is one more
  edit; `findDraft` and the building of the session are one step; the upload of
  images is part of sending; a mutation id is the session, its generation and the
  number of a trash; the mark "deleted" of a board is left out. A draft that is the last
  thing stored is not stored again (`AsStored`); a copy is made one at a time (the
  page's `busy` flag), and the two store operations of a discard are begun together.
* In `ServerManager` the refresh of the display, logs and ports of services that are
  not started are left out; a plan that expires is one that is not confirmed.
* In `LiveFeed` one code, venue and kind is followed; retention by time, US stocks and
  the grouping of updates for rendering are left out.
* In `OrderView` one account is followed; balances and the form of the order window
  are left out, and an order that is rejected or expires, which the tab treats as one
  that is cancelled (`tradingRefresh.ts:32`), ends as "CANCELED".
* In `Workspace` rectangles, always-on-top, the scopes of settings and indicators,
  the second viewport, sector navigation and the migration of old pixel layouts are
  left out; a passive effect of React runs before the next event of the user. How long
  the notice of a click in vain stays is left open (`toast`; the code takes it away after
  some six seconds, `PinnedActivationToastHost.tsx:5`).

## 6. Seen on the way

Behaviour that the models show and no run reports. Definitions that state such an
expectation are marked "Not kept by the code, see the README" in their modules; they
fail when they are added to a configuration.

* `CaptureQueue.CancelAllIsFinal`: an item that is still active at a cancel-all keeps
  the mark of the pause, so a resume brings it back
  (`captures.py:1328`, `1371`; the design of the range capture,
  `2026-05-21-capture-range-redesign-design.md:837`, says otherwise).
* The daily scheduler calls `enqueue_items_core` without the ownership check of the
  routes (`scheduler.py:318`); an item enqueued before the queue is owned is replaced
  by `activate`, and the scheduler has already settled it
  (`capture_queue_runtime.py:4`, `CONTEXT.md:756` say that mutations wait).
* A resume before an item has seen the signal of the pause leaves that item parked in
  a queue that is not paused; `dismiss_done` does not write the manifest, so dismissed
  rows that were parked come back at the next start; `cancel_item` of the last queued
  item publishes no drained event when no worker has taken anything (`DrainIsTold`
  excepts it); `_retry_items` does not look at the fail streak, though
  `CONTEXT.md:619` says that both ways to retry are gated by it.
* What is edited while a copy of a board in conflict is under way is discarded with the
  session and is in no copy (`outrun`, the exception of `EveryEditIsKept`):
  `LegacyWhiteboard.tsx:425` and `ReviewNotes.tsx:171` discard after the await of `fork`,
  which took the content before it, and the editor stays open meanwhile;
  `docs/whiteboard.md:46` says that my edits are stored on a board of their own first.
* A whiteboard save that is refused for another reason than its content keeps its
  request and repeats it for ever; the draft of a tab that is alive may be recovered
  by another tab, and the two then conflict over the same edits.
* `ServerManager.LeavesNoChild`: a child that does not end while it is held is doubled
  by the next start, and the end of either deletes whichever entry is held
  (`controller.ts:170`, `178`).
* `LiveFeed.NothingTwice`: an entry that comes by the socket and in the snapshot that
  was fetched meanwhile may be handed to a chart twice (`sharedLiveSeries.ts:158`,
  against its comment at 53). What is published between a REST read and the moment the
  subscription stands is missing without a mark (`delivery.py:3`: loss is explicit). A
  gap that is told while the first request of a series is answered but not yet received
  asks for nothing new, so what was dropped after the answer stays out until the next
  refresh (`overlooked`, the exception of `DropsAreRecovered`; `eventStream.ts:125`, where
  `refreshAfterReconnect` would cancel the request first). A tab whose address could not
  be read schedules nothing (`Stranded`; `ws.ts:99`).
* `OrderView.NoInheritedUnlock`, `FillsGrow`: with three orders a late row can unlock a
  replacement whose predecessor was locked, and with two a fill that was shown can
  shrink until the next answer (`tradingRefresh.ts:103`, `159`). A read labelled with
  the revision of its start but with newer content loses against a later event of an
  older state; after a restart of the service an old answer's larger revision outranks
  events until the first new answer; an order that ends between the reads of the closed
  and of the open orders is absent from one answer.
* `Workspace.UnlinkKeeps`: the choice that ends the link of an execution window reads
  "link ended, last account kept" while a window is linked, and it deletes the account
  and the symbol (`ExecutionHistoryWindow.tsx:28`, `35`); they are kept when the order
  window is closed (`FillsKeepLast`).
* `Workspace.SecondsCommand`: the seconds chart is opened with a timeframe command
  before its symbol is pinned (`secondChartNavigation.ts:23`), so for a minute chart
  pinned to a domestic stock in a group of a US stock the command is refused and a
  daily chart without a range is left. A tab that only inherited the seed and reloads
  reads a seed that may have changed; a reload of a tab with `?code` activates the
  symbol of its URL again; unpinning does not normalise a US window until an effect
  does; the pins of a transfer to a view that does not exist are not restored; windows
  of other tabs lose indicator scopes of the same identifier when one closes.

## 7. Not modelled, and what is left

* The watermark of observed orders (`_event_orders`, `_observed_orders`) that the
  target of a command is validated against, to be checked with a REST that lags behind
  the events (`kiwoom.py:516`); the capture threads that outlive a worker
  (`captures.py:1613`).
* Coalescers, single flight, compute pools, the collector's page loop, the Kiwoom
  session and its capacity, the collector process, promotion, the screener's runs:
  small concurrent components of the server, next in line.
* `useLiveBundle`, `useViewportBackfill`, `LiveChartRoot`: their state is spread over
  effects, refs and the query cache, and a faithful model would have to contain the
  scheduling of React and of the query library.
* Chart rendering, drawing tools, panes and the other pages (presentation and
  geometry), the windows of the desktop shell, parsers and tables (pure
  transformations), routes and response shaping. This is most of the frontend, and
  with it most of the implementation's lines.
* Proofs: what section 4 lists as only model-checked.
