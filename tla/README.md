# Codex Switch Guard in TLA+

A verification project for the plugin in `src/`: TLA+ models of its route state store, its
interceptor, what it reads of requests and takes from them, its reporting, its persistence and
its life in the host process, TLC runs on small instances, and TLAPS proofs for every
instance. `PROJECT.json` lists the runs, the lines of the source that each definition stands
for, the hazards, the findings and the theorems.

## The system

A native plugin of the CLIProxyAPI host. Codex requests carry encrypted items (reasoning,
compaction) and a `previous_response_id` that are only of use on the route (credential and
model) that created them. The host selects a route for a request, asks the plugin, sends the
body the plugin returns upstream, may select another candidate and ask again, and reports the
outcome. The plugin remembers per conversation which route committed last, and removes
what does not belong to the selected route, or rejects the request. Each decision is logged
and counted, and logged again when the host reports how the request ended.

| Component | State it keeps | Operations | Modelled in |
| --- | --- | --- | --- |
| Route state store, `state.go` | `sessions` (route, sequence, taint, retired items), `pending` (latest candidate of a request), `pendingBySession` (counts per route), `sequence`, `nextPurge` | `prepare`, `complete`, `discardPending`, `snapshot`, purge, eviction | `RouteState` |
| Interceptor, `interceptor.go` | none of its own | `InterceptRequestAfterAuth`, `HandleRequestComplete` | `SwitchGuard`, `SafeForwarding`, `Interception`, `ClientRequest` |
| Inspection and sanitizing, `sanitize.go` | none | what a body contains, how an item is named, what is removed | `Sanitize`, `ClientRequest` |
| Session identity, `session.go` | none | request fields to a conversation key | `SessionIdentity`, `ClientRequest` |
| Persistence, `persistence.go` | the state file, key file, `persistenceWake`, `persistenceStop`, `persistenceDone`, last error, warning | load, validate, writer goroutine, debounce, snapshot, save, stop | `Persistence` |
| ABI and lifecycle, `abi.go`, `main.go` | the current plugin, `shuttingDown`, `inFlight` | init, register, reconfigure, call, shutdown | `PluginLifecycle` |
| Configuration, `config.go` | none | parsing, defaults, bounds | `Config` |
| Diagnostics, `diagnostics.go` | `pending`: a record per request that was acted upon, bounded | `beginRequest`, `action`, `complete`, trim | `Interception` |
| Metrics, `metrics.go` | counters | count, read | `Interception` |
| Management, registration, metadata | constants | read | not modelled |
| Release tooling, `.github/scripts` | none | packaging, smoke tests | not modelled |

How they interact. Host threads call the plugin concurrently; each call takes a reference to
the current plugin (`beginPluginCall`) and its store's one mutex once or twice. Every method
of the store that may have changed something sends to the wake channel (capacity one, never
blocking). A goroutine per store waits for a wake, debounces, copies the maps under the mutex,
marshals and writes without it. A reconfiguration builds a new store, which loads the file,
swaps it in, and then stops the old one; a shutdown waits for the calls in flight and
stops the last. A stop waits for the goroutine's last save.

What is hard here: completions and candidates of one conversation in any order; retries that
replace candidates; state decided in `prepare` and used in `complete`; entries that expire or
are evicted while their request runs; two bounded maps that evict into each other; an index
maintained beside the map it summarises; a snapshot that shares maps with the live store;
two stores over one file; shutdown against everything else; crashes; a reporter with a bounded
map of its own beside the store's; a body that is decoded twice, in two ways, to inspect it
and to strip it; a conversation named in any of 31 places.

What makes each component correct:

- store: its bounds and index hold; no decision rests on expired state; no rollback to an
  older route; ambiguity taints; taint goes only with a lone clean request; barriers last.
- interceptor and store: what goes upstream on a route was created there.
- inspection and identity: stripping leaves no bound state and takes nothing else; a
  conversation is named by the strongest names there are, and apart from its other threads.
- diagnostics and metrics: the log tells of each action once, and its end; counters balance.
- persistence: what is loaded was held at one instant; a healthy quiet writer owes nothing.
- lifecycle: a completed shutdown has saved everything; shutdowns and reconfigurations end.

## The modules

`RouteState` is the store. A method holds the mutex from beginning to end, so it is one action:

| Code | Action or definition |
| --- | --- |
| `prepare`, no key or no route | `PrepareUntracked`, `PrepareUnknown` |
| `prepare`, known route | `PrepareRejected`, `PrepareAnonymous` (no request ID), `PrepareTracked` |
| decision, `retiredItemMatches`, stripping | `Rejects`, `Strips`, `BlockedItems`, `Forwarded` |
| `complete` by outcome | `CompleteSucceeded`, `CompleteFailed`, `CompleteInvalid` |
| `discardPending` | `DiscardPending` |
| `maybePurgeExpiredLocked` | `Sweep`, then `ExpirePending` once per expired request, mutex held (`sweep # {}`) |
| `retireItemsLocked`, `markRetiredOverflow` | `RetireItems`, `MarkRetiredOverflow` |
| `trimSessionsLocked`, `trimPendingLocked` | `TrimSessions`, `Track` |
| index maintenance | `IndexAdd`, `IndexRemove`, `RouteMismatch` |
| `persistNow` | `Save` |
| `newPersistentRouteStateStoreWithRoot`, `load`, validation | `Load`, `Restored`, `Persistable`; `Reopen` with any content that was saved, or none |

Fingerprints, digests and session keys are model values; a Go map entry that does not exist is
`Absent`, and reading it gives `Blank`. `RetiredItems` and `RetiredItemRoute` are one function
(`NotRetired`, `AnyRoute` or a route). `saved` has all the contents that the state file ever
had. A load may find any of them: the file lags behind memory by the debounce, which every
change prolongs, by saves that fail, and for good if the process is killed, and the store of
a reconfiguration loads before the one before it is flushed. Which save it is in fact is what
`Persistence` and `PluginLifecycle` are about; no property of the store depends on it. Bounds of
the model only: `MaxSequence`, `MaxTime`, `MaxSaves`.

`SwitchGuard` EXTENDS `RouteState` and adds the environment: a client's history (`held`,
`last`), who created an item (`owner`), what runs upstream (`call`). `Intercept` is
`InterceptRequestAfterAuth` as one step; `Finish` is `HandleRequestComplete`; `Persist` is a save,
at any moment, also in the middle of requests. `NewStore` is the store of the next plugin object,
after a restart (`Restart`, a crash or not) or a reconfiguration (`Reconfigure`): it starts from
any save or from nothing, and has no requests in flight. `cover` notes with each save what its
store had been told of by then. `Freedoms` names what the environment may do beyond the ordinary
(overlapping turns, failover, late failures, forgetful clients, unknown routes, restarts, ...), so
that a run says under which circumstances a promise holds. `MaxDuration` bounds how long a
request runs. Calls that are inside the plugin at a swap still reach the old store, and are taken
to end before it.

`SafeForwarding` is the abstract specification: what a known route created goes upstream only
there, and to an unknown route nothing goes. Two things nobody vouches for, and their creator
becomes `NoRoute`: what a client kept of a request that failed after all (`Abandon`; `Disown` in
`SwitchGuard`), and, when the plugin starts anew, whatever the save it starts from does not know
of (`Record` and `StartAnew`; `Persist` and `NewStore`). `SwitchGuard!KeepsPromise` is the
refinement, with `call` mapped to what goes upstream and `kept` to what the saves know.

`Interception` has the same two handlers in the steps between which other calls can come, and
keeps of the store only which requests it tracks:

| Code | Action |
| --- | --- |
| `InterceptRequestAfterAuth`: counter, `beginRequest`, inspection and `prepare` and outcome | `Observe`, `BeginRequest`, `Decide` |
| `discardPending` after failed sanitizing | `Discard` |
| `diagnosticReporter.action`: the line, then the record with its trim | `LogAction`, `Remember` |
| `HandleRequestComplete`: store, reporter's record, line and counter | `Tell`, `Take`, `LogCompletion` |
| a request that expires in the store or is evicted | `Forget` |
| another plugin object | `Reconfigure` |

`trail` is the log, as lines about a request's candidates. `excused` has the requests whose
action may stay without an end: trimmed from the reporter, reported to another plugin object
than the one that recorded them, or reported while their interceptor call still ran.

`Sanitize` and `SessionIdentity` are operators. A body is a shape, a `previous_response_id` or
none, and items with the members that the code reads; the inspection (`Bound`, `Fingerprints`)
decodes the id of an item and the stripping (`StripAll`, `StripRetired`) need not. The loops of
the code that filter an input are one recursive function, `Only`. The names of a
conversation are a function from pairs of a place and a name; a digest is the tuple of what it
is made of. `ClientRequest` EXTENDS both: a client edits a request, the plugin
inspects and strips it (`Unparseable`, `PassOn`, `Strip`, `SelectItems`, the decision left
open as far as the inspection allows it), and `NextCandidate` has the request as it was or as
it became.

`Config` has what `parsePluginConfig` accepts and what it gives, and the sweep interval.

`Persistence` abstracts what a store holds to numbered changes (`commits`, copied by a
snapshot; `retired`, in the maps a snapshot shares) and has the writer goroutine statement by
statement: `Wake`, `Coalesce`, `Elapse`, `TimerFires`, `SeeStop` (which take the snapshot),
`Tag` (the first marshalling), `Encode` (the second), `Save`, `SaveFails`; and `Open` (load),
`Commit`, `Retire`, `Touch`, `Stop`, `Kill`. The maps that a snapshot shares with the store are
read without the mutex: what is inserted meanwhile may be found or missed (`Found`).

`PluginLifecycle` EXTENDS `Persistence` with `abi.go`: `Build`, `Swap`, `StopPrevious`,
`PreviousStopped` (registration and reconfiguration), `Begin`, `Work`, `End` (calls),
`BeginShutdown`, `StopLast`, `LastStopped`, `Exit`.

The `MC` modules define the symmetry sets and the items of `ClientRequest`; the `.cfg` files
give the constants. Symmetry is used for safety runs only. The theorems are in
`RouteStateProofs`, `RouteSafetyProofs`, `GuardProofs`, `PersistenceProofs`,
`LifecycleProofs`, `InterceptionProofs`, `RequestProofs` and `Config`.

A definition with a suffix (`Commits_AnyOrder`) is the definition of the same name with a
plausible mistake in it. Nothing uses it; put in the place of the right one, it makes the
property that `PROJECT.json` pairs it with fail.

## The runs

Runs that pass:

| Run | Instance | What it shows |
| --- | --- | --- |
| `caps` | block policy, 2 conversations and 2 requests, room for 1 and 1; 1 route; TTL 2, clock to 3; 1 save | types; `Bounded`, `IndexExact`, `FreshBindings` through rejection, eviction, replacement, expiry and the opening of a store with the save, however old, or nothing |
| `strip` | strip policy, 1 conversation, 3 requests (2 pending), 2 routes, a reasoning and a compaction item, barrier of 1; a store that is opened is empty | `AmbiguityTainted`, `IndexExact`, `NoRollback`, `TaintClearedAlone`, `BarrierKept` |
| `turns` | 1 conversation, turn after turn, 2 routes and the unknown one, an item, failover, invalidation, late failures, restarts and reconfigurations at any moment that find the one save, however old, or nothing; TTL 1, clock to 2, requests of up to 2 | `KeepsPromise`: `SwitchGuard` implements `SafeForwarding` |
| `overlap` | 2 overlapping requests of a conversation, 2 routes, 2 items, `previous_response_id`, late failures, items and responses that clients forget | `KeepsPromise`; `ReusableOnlyAlone` |
| `observe` | 2 requests, 2 plugin objects, 2 candidates, 3 completions, a reporter of 1 record | types; `Ledger`, `CompletedOnce`, `ReporterBounded`, `RecordIsLatest`, `TrailOnce`, `Reported` |
| `requests` | 9 kinds of items, 31 fields of which 2 are filled in, 2 names, 2 callers, 3 edits and any number of candidates | types; `StripsClean`, `NeverUnchanged`, `OnlyRetired`, `DataKept`, `KeyOfStrongest`, `ThreadsApart`, `MetadataAnywhere` |
| `restarts` | 2 processes, 2 changes, endless polling, failing saves, crashes | types; `LoadsOneInstant`, `ShutdownSaves`, `QuietIsSaved`, `EventuallySaved` |
| `progress` | 2 stores, 2 host threads, reconfiguration, endless polling, failing saves | `ShutdownReturns`, `SetupReturns` |

Why the bounds are enough. Three requests on two routes are the least that let two others
disagree while a third is replaced, evicted or expires; a cap of one conversation, or of one
request, makes every second one evict; a barrier of one item overflows at the second. Three
candidates (`MaxSequence` of `turns`) create an item, have it retired on another route and replay
it there; `overlap` has four. One save is enough for a store that starts from the past: it is made
at any moment, and loaded as often as the host starts anew, so that what it has is older than
what it replaces by any number of commits, taints and retirements.
A TTL of two with a sweep interval of two lets an entry expire strictly between two scheduled
sweeps, which is what `FreshBindings` is about. In `turns` one item stands for all: a barrier is
a function from items, and what happens to one does not depend on another until they are too
many; `overlap` has two, and `PromiseKept` proves the promise of `turns` for any number.

In `observe` two candidates are a retry, perhaps on another plugin object, or two requests; of
three completions two are a duplicate, and the others cross; a reporter of one record trims
at the second. The theorems of `InterceptionProofs` are for any number of each. In `requests`
three edits put two items into a body and name its response, or name its conversation at two
places and its caller, or have turn metadata that is too long with a name that stands in. Two
filled-in fields are enough since `FirstOf` takes the first that is there, so that which
counts is a matter of two at a time; `KeyOfStrongestCorrect` proves it for all fields at once.

Two changes are enough for one before a save or after it and one during it, which is what tears
a document. `progress` has none: the writer does not look at what it saves, and polls wake
it as changes do. Its two host threads have a call in flight while another ends. Two stores are
a reconfiguration, or a restart.

Where a property holds only under a condition, the condition is part of the run:

- `AmbiguityTainted` needs room for every conversation: an evicted one loses its taint.
- `NoRollback`, `TaintClearedAlone` and `BarrierKept` speak of a store in use. A store that is
  opened goes back to what was saved: to an older route, less taint, a smaller barrier.
- `KeepsPromise` is, across a restart or a reconfiguration, about what had been created, and
  reported as a success, by the save that the next store starts from.
- `turns` has no overlap: a conversation's next turn begins when the last has ended. It has no
  named responses and one save. `PromiseKept` proves the promise for all freedoms at once
  but `overlap`, with any number of saves: that a response is not named across a restart is
  shown there only.
- `overlap` has one candidate per request, no invalidation, no restart or reconfiguration, and
  nothing that expires: its time stands still. That a conversation does not become reusable while
  a request which was retried, or invalidated another, or ran for a while still runs, is shown by
  the theorem `ReusableAlone` only, which has all freedoms but `unknown`, which breaks
  `ReusableOnlyAlone` (see below).
- `Reported` leaves out the requests in `excused`.
- `ReusableOnlyAlone` is about the requests that the present store has seen.
- `ShutdownSaves` and `QuietIsSaved` are for processes that are not reconfigured. `QuietIsSaved`
  says nothing of a store whose last save failed: it waits for the next call.
- `EventuallySaved` has its conditions (no reconfiguration, traffic pauses, the last save
  succeeds) in the formula. Without the pause it is false, see below.

Fairness (`LifecycleFairness`): weak fairness of each writer goroutine as a whole, since Go
schedules it but a `select` with a wake and a stop both ready may choose either; of the
steps of a running reconfiguration and shutdown, which are straight-line code; and of the
end of each call, since host threads run their calls to the end. Nobody has to begin a call,
a change, a reconfiguration, a shutdown or a crash. `CHECK_DEADLOCK FALSE` is in the
`MCPluginLifecycle` configurations because stores are numbered and run out, in
`MCInterception` because candidates and completions do, in `MCClientRequest` because a client
may be done with editing, and in some of `MCSwitchGuard` because a host need not send another
request.

Runs in which TLC finds a violation, each of what a document or a comment says:

| Run | What happens |
| --- | --- |
| `rejected` | block policy: a rejected candidate takes the barrier that held on the other route over to its own, the first, and an item of the first is replayed to the other |
| `stale_clear` | a request allowed to clear an old taint clears a newer one, set by an invalidation that also unbound the conversation |
| `unreadable` | a success on an unknown route, after its conversation was evicted, stores a zero `UpdatedAt`; the next process refuses the whole file |
| `reloaded` | the store of a reconfiguration loads the file before the old store is flushed, and later overwrites what the old one saved |

Also met while modelling. The first five are differences between the code and what is said of
it; the others are reachable in `SwitchGuard` with the freedoms named, and are the reason why
the passing runs leave those freedoms out or the promise leaves those creations open:

- Under the block policy, reasoning and `previous_response_id` are stripped on a changed route
  and the request goes on; only compaction items cause a rejection (`Rejects`, `Strips`).
  `README.md:64` and `CHANGELOG.md:25-28` say that it rejects before anything is removed.
- An item retired during a save gets into the document through the map that the snapshot shares
  (`persistence.go:374`), and the next load refuses the file (`persistence.go:237`).
- `README.md:250` names `execution_session_id` as the first identity; the code has the host's
  canonical one before it (`session.go:31`).
- The conversation pair is made of `Session-Id` and `Thread-Id`, or `session_id` and
  `thread_id`. `X-Codex-Thread-Id`, `sessionId` and `threadId` count alone, after them: threads
  told apart by those only share a key if a session ID is there.
- An item whose id is not a text is not seen by the inspection, and goes upstream unless
  something else in the body is seen and stripped; then it is stripped too.
- `restart`, `reconfigure`: the file has a conversation bound to one route, clean. A turn commits
  another and its client keeps what that created. The process is killed, or the plugin is
  reconfigured, before the save: the next store trusts the first route, and what the other
  created goes there. `README.md:262-263` says that route commits survive normal restarts; a
  reconfiguration is one (see `reloaded`), a crash is not. Continuous traffic makes the window as
  long as it lasts.
- `late`, `restart`, `reconfigure`: what a request created whose client kept part of the answer,
  but which was never reported as a success, no barrier names. The committed route stays trusted
  and may get it. `README.md:263-264` says that requests in flight are treated
  conservatively after a restart.
- `unknown`: the same is true of what an unknown route created.
- `overlap` with `retry`: an overlapping turn without items fails over and commits a new
  route untainted; nothing was retired, and the conversation's items are replayed to it.
  A body retried after its route was committed by another turn keeps the
  `previous_response_id` of a third.
- `overlap` with a `MaxDuration` beyond the TTL: a request that was purged still runs when the
  next turn clears the taint the purge left. The same with more requests than `MaxPending`, where
  it was evicted, and with `unknown`, where a request that had nothing stripped was never tracked.
- `overlap` on a single route: a turn that is prepared before the completion of the first is
  stripped, and its items stay retired.
- endless polling within the debounce postpones a save for ever.
- The lower clamp of the sweep interval, a second, is never reached: a sixteenth of the least
  TTL is more.

## The proofs

`RouteStateProofs`, for all values of the constants that satisfy the assumptions of
`RouteState` (finite sets, distinct markers, positive caps, a sweep interval within the TTL):

- `TypeCorrect`: `Spec => []TypeOK`. `TypeOK` is inductive; one lemma per action.
- `Freshness`: `Spec => []FreshBindings`. `FreshBindings` speaks of the moments when no purge
  is due, and is not inductive: it says nothing of when the next purge is. The invariant
  `FreshInv` says that `nextPurge` is at most the first instant at which an entry can be
  expired, for entries that matter, and that a purge in progress holds all that have
  expired; each action keeps it because an update only moves an entry's
  time forward to `now`, and `now + StateTTL` is not before `nextPurge` because the sweep
  interval is within the TTL. That assumption is `config.go`'s lower bound of a minute:

`Config` proves `AcceptedBounds`: whatever the document says, a configuration that
`parsePluginConfig` accepts, defaults included, satisfies the assumptions of `RouteState` on its
caps, its TTL and the sweep interval made from it.

`RouteSafetyProofs` EXTENDS `RouteStateProofs`. `StepForms` puts every step of the store into one
of seven forms (nothing, a request forgotten, a candidate tracked, a rejection, a completion
or expiry, a sweep, a reopening), so that the lemmas after it are about forms and not about
actions:

- The invariants hold of every save as well (`SavedBounded`, `SavedNumbered`), since a store may
  start from any. `SavedForm` says that a step saves what the store holds or nothing.
- `IndexCorrect`: `IndexExact` is inductive beside `TypeOK`. The lemmas say how the two
  cardinalities of a conversation change when a request comes or goes.
- `BoundedCorrect`: `Bounded` is inductive. What is stored beyond a cap is trimmed, and what a
  trimmed request leaves behind in the other map is already in it.
- `NoRollbackCorrect`, as the other two action properties, is about a store in use. It needs
  `Numbered`: a pending request has a number of its own that no conversation is bound by
  yet, so that a commit which passes the code's `>=` is a strict step.
- `TaintClearedCorrect` rests on `IndexExact`: `complete` asks the index whether it is alone,
  the property asks the requests.
- `AmbiguityCorrect`, for stores with room for every conversation (`Room`; an evicted one loses
  its taint, so the hypothesis is necessary): `AmbiguityTainted` is inductive beside the exact
  index and `Attached`, by which the conversation of a pending request is in the store and
  cannot expire before it.
- `BarrierKeptCorrect`, with `Room` and the strip policy (the run `rejected` shows the other
  policy breaking it). A late success on another route would move the items of its own
  conversation to its route; `Outranked` says that such a request, older than the
  binding, finds the conversation tainted.

`GuardProofs` EXTENDS `SwitchGuard` and `RouteSafetyProofs`. What it says of the interceptor over
its store holds for any number of clients, requests, routes and items, with any caps:

- `PromiseKept`: `GuardSpec => KeepsPromise`, with the strip policy and without `overlap`, and
  whatever else is in `Freedoms`. Both hypotheses are needed: the run `rejected` breaks the
  promise with the block policy, and `overlap` with `retry` does it with an overlapping turn (see
  above). Room for conversations is not needed: a conversation whose client waits for the end of
  its turn is evicted only when it is idle, or loses its trust (`KeepsActive`).
- `GuardKept`: the invariant behind it, `GuardInv`. The promise is not inductive, because it
  speaks of what goes upstream, and what goes upstream depends on what the store was told before.
  The heart is `Guarded`: in a conversation that the store trusts, all that the client holds, its
  last response, and what its turn was begun with is fit for the bound route or barred. That
  holds at the moment a success commits a route because of what the turn had stripped then
  (`Bars`), and it would fail between an answer and its completion, when the client holds what
  the store has not heard of: `Making` and `Answering` are that exception, which `Created`
  closes (what the client holds beyond what it sent, the turn made) when the success binds the
  conversation to the maker, or the failure disowns it. `Unfinished` says what keeps that from
  being too late: a turn that the store lost has cost the conversation its trust (`LostOne`), a
  commit in flight outranks the session (`Newest`). `Tracked` and `OneTurn` tie the store's
  requests to the calls that run. And a store may start from any save, at any later moment, so
  `Covered` says of each save what `Guarded` says of memory: whatever clients can still send of
  what had been reported by then is fit for the routes it binds, and barred if it is not. It
  stays so because clients gain nothing older than the save (`FadesCovers`, `InterceptCovers`,
  `AnswerCovers`), and it is so of a new save because it is so of memory, in the middle of a
  request too, whose creations the save leaves out (`FreshCover`).
- The proof that the steps keep it speaks of the store through `Calm`: a step leaves other
  requests as they were, or the conversation loses its trust; and lets no other conversation
  gain trust. A lemma per action follows, and one per action again for the mapping
  (`InterceptForwards`, `AnswerAnswers`, `FinishEnds`, `PersistRecords`, `ReplacingStarts`,
  `ForgetForgets`). They use `AbsentCallAssumption`: that there is no call is not a call.
- `ReusableAlone`: `GuardSpec => ReusableOnlyAlone`, with any policy and with overlap, under
  `NothingLost`: no route without a name, `MaxDuration` within the TTL, room for every request.
  Each of the three is needed (see above). `Remembered` says that whatever runs is in the store, as
  old as it is, so that no purge finds it; `StepTaintCleared` of `RouteSafetyProofs` then says that
  taint went when the store had nothing left, and so nothing ran.

`PersistenceProofs`, for any number of stores and changes:

- `PersistenceTypes`: `PersistenceSpec => []PersistenceTypeOK`.
- `LoadedIsHeld`: `PersistenceSpec => []LoadsOneInstant`.

Neither is inductive. A store gets its content from the file, so its type depends on what the
file can hold, and what can be loaded depends on the documents in the making. `HeldInv` says
of each of those that its snapshot was a content of the past, and that whatever the shared
maps gained since carries a number beyond the snapshot's sequence, so that a document with
more than the snapshot fails `Valid`. Both theorems follow from it; one lemma per action. They
use `NoFileAssumption`: that there is no file is not a document.

`LifecycleProofs`, for any number of processes, host threads, stores and changes:

- `LifecycleImplements`: every step of `PluginLifecycle` is one of `Persistence` or leaves its
  variables alone, so that `LifecycleLoadsHeld` is `LoadedIsHeld` of the plugin in its host.
- `LifecycleTypes`: `LifecycleTypeOK`, beside `HeldInv`.
- `ShutdownLosesNothing` and `QuietLosesNothing`, with `~Reloads`, that is, for processes that are
  not reconfigured (`reloaded` shows what happens to the others). A change can be in memory
  only, in a snapshot, in the bytes being written, or in the file, and the properties speak
  of the end. `SavedInv` speaks of all of it: a process has one store (`OneStore`), to which
  the plugin, the calls and the shutdown refer (`Owned`), and which is stopped after the last
  call only (`StopsLast`); the store has every change that is owed; what its writer is about to
  save is all the store holds, or a wake is pending for another round (`AllTaken`; the
  last round after a stop has no other); and a writer with nothing to do has saved it
  (`AllSaved`).

`InterceptionProofs`, for any number of requests, candidates, completions and plugin objects:

- `TypeCorrect`: `Spec => []TypeOK`, with `TypeInv`, which adds that a completion under way
  belongs to a request and that candidates are numbered as they are tried.
- `LatestCorrect`: `RecordIsLatest` is inductive beside `TypeInv`: `beginRequest` is what makes it
  so, since a candidate that passes writes no record over the last.
- `TrailCorrect`: `TrailOnce` is not inductive. Whether a completion may write its line depends
  on where the record it holds came from.
  `TrailInv` says of every record, kept by a reporter (`RecordsOwed`) or taken by a completion
  (`TakenOwed`), that the line of its action is written and its completion line is not, and that
  no two hold the same title (`OneHolder`); `LinesOld` says that a line speaks of a candidate
  already tried. What is taken is gone from the reporter, which is what keeps `OneHolder`.
- `LedgerCorrect` and `CompletedOnceCorrect`: `Ledger` and `CompletedOnce`. `CountInv` says that
  the requests a store tracks, the completions that found one and those counted (`Titles`) are
  at most as many as the calls that came to an outcome: each is paid for by a `Decide`, and no
  `Decide` is used twice. The lemmas on cardinality say how such a set changes when one request
  or completion moves.

- `BoundCorrect`: `ReporterBounded` is inductive, because a trim removes the oldest record of a
  reporter that has too many. That there is an oldest one is the least element of a set of
  natural numbers, from the well-foundedness of `<`.
- `ReportCorrect`: `Reported`. `ReportInv` follows the title to a completion line: once a
  request has acted and its call has returned, its completion line is written (`Logged`), or a
  completion holds its record (`InHand`), or the reporter does (`InReporter`), and in that case a
  completion that can take it is still to come. Requests in `excused` are left out, and each
  step that would break this for a request puts it there.

`RequestProofs`, for bodies of any length, any identifiers, callers and items, and any number of
edits and candidates, has all that the run `requests` checks:

- `RequestKept`: `RequestInv`, the invariant behind the rest: the result is the request itself,
  or what one of the two ways to strip made of it for something the inspection saw in it.
  That makes `RequestTypes`.
- `StripsCleanCorrect`, `NeverUnchangedCorrect`, `OnlyRetiredCorrect`, `DataKeptCorrect`. They rest
  on what `Only` keeps: a sequence of the right type (`OnlyRange`: exactly the items in
  the set), and the same whether one filters for less at once or after another filter
  (`OnlyTwice`). Those are inductions over sequences. There is no rule for that which the provers
  can use, so `BySequence` states it for sets of sequences instead, and is proved from
  the well-foundedness of `<`; so is that the recursive function exists (`KeepsExists`).
  `NeverUnchanged` is where the two decoders of the code meet: an item that the inspection
  counted as bound is of a bound type, so `stripRouteBoundState` removes it as well.
- `KeyOfStrongestCorrect`, `ThreadsApartCorrect`, `MetadataAnywhereCorrect`.
  `IdentityParts` takes the nested lookups of the code apart: the identity is the first of ten
  parts, one for each rank, which depend only on what is found in the fields of their
  rank (`PartSame`) and are empty exactly if nothing usable is there (`PartNone`). `Found` is
  what makes metadata that is too long the same as metadata that is missing. Then `Led`: the
  identity is the part of the rank of the strongest usable field. A thread is the last
  component of such a part (`ThreadLast`), and the parts of the turn metadata do not say in which
  place it stood (`TurnRank`).

Only model-checked: the refinement of `SafeForwarding` for turns that overlap, in the instance of
the run `overlap`; and all liveness, which is out of the prover's reach.

## Not modelled

JSON, YAML, digests and HMAC; the fields of a log line, the level `debug` and the texts of
answers; the key file and file permissions; the C buffers and envelopes of the ABI; the
management page, which reads a snapshot (its purge and its dirty mark are in `RouteState` and
`Persistence`); registration and metadata, which are constants; the release tooling. None of them
decides what is forwarded. A disabled plugin and requests to other providers than Codex pass
the interceptor at once.

Renaming is outside the promise: an item that a client rewrites gets another fingerprint, and an
identity that changes between turns is another conversation, with another key.

## Plan

Done: the store and its first theorems; the interceptor over it with the abstract promise, also
under restarts and reconfigurations; the two handlers statement by statement with their log and
counters, and the theorems about those; the inspection, sanitizing and identity of requests; the
configuration; persistence; the lifecycle.

Next, modelling:

1. The key file: created, found damaged, and replaced under a state file of the old key.
2. `SwitchGuard` with items named by `Sanitize`, so that items without an id, which share a
   fingerprint or lose theirs, meet the barrier.
3. Overlapping turns with failover, once the committed route and the barrier agree there.

Next, proofs: the refinement for turns that overlap but have one candidate each, where an item
may be trusted although another turn committed last.
