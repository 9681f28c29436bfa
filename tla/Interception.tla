---------------------------- MODULE Interception -----------------------------
(***************************************************************************)
(* The two handlers of interceptor.go, statement by statement where other  *)
(* calls can come in between, with what they leave for the operator: the   *)
(* log lines and pending records of diagnostics.go (level actions) and the *)
(* counters of metrics.go.  A plugin object has a store, a reporter and    *)
(* counters of its own; a reconfiguration puts another object in its       *)
(* place, and calls go on with the object they began with.                 *)
(*                                                                         *)
(* Of the store only the requests it tracks are kept (RouteState has the   *)
(* rest).  Requests are enabled, on Codex, and have an ID.                 *)
(*                                                                         *)
(* A definition with a suffix is the one after it with a mistake in it,    *)
(* and is not used.                                                        *)
(***************************************************************************)
EXTENDS Integers, FiniteSets, Sequences

CONSTANTS
    Requests,       \* request IDs
    Plugins,        \* plugin objects, the first and those of reconfigurations
    First,          \* the first of them
    Notices,        \* bound: the completions the host reports
    Nobody,         \* not a request
    NoRecord,       \* not a key of diagnosticReporter.pending
    MaxRecords,     \* diagnosticReporter.maxPending
    MaxCandidates   \* bound: the candidates the host tries, over all requests

ASSUME InterceptionAssumption ==
    /\ IsFiniteSet(Requests) /\ IsFiniteSet(Plugins) /\ IsFiniteSet(Notices)
    /\ First \in Plugins /\ Nobody \notin Requests
    /\ MaxRecords \in Nat \ {0} /\ MaxCandidates \in Nat \ {0}

\* How InterceptRequestAfterAuth ends: "pass" is any of its three ways to leave the
\* request alone, "strip" strip_route_state or strip_retired_items, "block"
\* block_compaction or reject_unparseable_state, "fail" reject_sanitize_failure.
Outcomes == {"pass", "strip", "block", "fail"}

Record == [n : 1..MaxCandidates, at : Nat]
ASSUME NoRecordAssumption == NoRecord \notin Record

VARIABLES
    plugin,     \* switchSafeABIState.plugin
    tracked,    \* plugin object -> the requests its store has pending
    records,    \* plugin object -> request -> record, or NoRecord
    counters,   \* plugin object -> requestsObserved, the sum of the eight counters of
                \* outcomes, and the sum of the five of completions
    icall,      \* request -> its InterceptRequestAfterAuth: the statement it is at, its
                \* plugin object, the number of its candidate (0: none yet), its outcome
    ccall,      \* notice -> its HandleRequestComplete, for request r
    host,       \* request -> open, refused by the plugin, or over
    tried,      \* the candidates the host has tried
    clock,      \* time.Now() of the records
    trail,      \* history: request -> the action and action_complete lines in the log
    excused     \* history: requests whose trail may end without action_complete

vars == <<plugin, tracked, records, counters, icall, ccall, host, tried, clock, trail, excused>>

InterceptRec ==
    [at : {"idle", "observed", "begun", "failing", "counted", "logged"},
     p : Plugins, n : 0..MaxCandidates, outcome : Outcomes, stamp : Nat]
CompleteRec ==
    [at : {"idle", "told", "taken", "done"}, r : Requests \cup {Nobody}, p : Plugins,
     was : BOOLEAN, record : Record \cup {NoRecord}]
Line == [complete : BOOLEAN, n : 1..MaxCandidates]
NoCall == [at |-> "idle", r |-> Nobody, p |-> First, was |-> FALSE, record |-> NoRecord]
Over == [at |-> "done", r |-> Nobody, p |-> First, was |-> FALSE, record |-> NoRecord]

NoCounts == [observed |-> 0, outcomes |-> 0, completed |-> 0]

\* The call of a request gets to its next statement.
Goes(r, at, outcome, stamp) ==
    [icall EXCEPT ![r] = [at |-> at, p |-> icall[r].p, n |-> icall[r].n,
                          outcome |-> outcome, stamp |-> stamp]]

Working(r) == icall[r].at # "idle"

-----------------------------------------------------------------------------
(* InterceptRequestAfterAuth.                                              *)

\* The host tries a candidate; the call counts it.
Observe(r) ==
    /\ host[r] = "open"
    /\ ~Working(r)
    /\ tried < MaxCandidates
    /\ icall' = [icall EXCEPT ![r] = [at |-> "observed", p |-> plugin, n |-> tried + 1,
                                      outcome |-> "pass", stamp |-> 0]]
    /\ tried' = tried + 1
    /\ counters' = [counters EXCEPT ![plugin].observed = @ + 1]
    /\ UNCHANGED <<plugin, tracked, records, ccall, host, clock, trail, excused>>

\* beginRequest: what an earlier candidate was recorded for is forgotten.
BeginRequest_Keeping(r) ==
    /\ icall[r].at = "observed"
    /\ icall' = Goes(r, "begun", "pass", 0)
    /\ UNCHANGED <<plugin, tracked, records, counters, ccall, host, tried, clock, trail, excused>>
BeginRequest(r) ==
    /\ icall[r].at = "observed"
    /\ icall' = Goes(r, "begun", "pass", 0)
    /\ records' = [records EXCEPT ![icall[r].p][r] = NoRecord]
    /\ UNCHANGED <<plugin, tracked, counters, ccall, host, tried, clock, trail, excused>>

\* inspectPayload and prepare.  A body that cannot be parsed does not reach the store,
\* and a candidate that is rejected is not tracked.
Tracks(outcome, before, r) ==
    {before, before \ {r}} \cup IF outcome = "block" THEN {} ELSE {before \cup {r}}

\* The outcome is counted; a pass returns then.
After(outcome) ==
    CASE outcome = "pass" -> "idle" [] outcome = "fail" -> "failing" [] OTHER -> "counted"

Decide_Twice(r) ==
    LET p == icall[r].p IN
    /\ icall[r].at = "begun"
    /\ \E outcome \in Outcomes :
        /\ icall' = Goes(r, After(outcome), outcome, 0)
        /\ counters' = [counters EXCEPT ![p].outcomes = IF outcome = "fail" THEN @ + 2 ELSE @ + 1]
        /\ \E after \in Tracks(outcome, tracked[p], r) :
            tracked' = [tracked EXCEPT ![p] = after]
    /\ UNCHANGED <<plugin, records, ccall, host, tried, clock, trail, excused>>
Decide(r) ==
    LET p == icall[r].p IN
    /\ icall[r].at = "begun"
    /\ \E outcome \in Outcomes :
        /\ icall' = Goes(r, After(outcome), outcome, 0)
        /\ counters' = [counters EXCEPT ![p].outcomes = @ + 1]
        /\ \E after \in Tracks(outcome, tracked[p], r) :
            tracked' = [tracked EXCEPT ![p] = after]
    /\ UNCHANGED <<plugin, records, ccall, host, tried, clock, trail, excused>>

\* discardPending, when sanitizing failed.
Discard(r) ==
    /\ icall[r].at = "failing"
    /\ icall' = Goes(r, "counted", icall[r].outcome, 0)
    /\ tracked' = [tracked EXCEPT ![icall[r].p] = @ \ {r}]
    /\ UNCHANGED <<plugin, records, counters, ccall, host, tried, clock, trail, excused>>

\* action(): the line is written first, without the mutex, and the record gets its time
\* afterwards.
LogAction(r) ==
    /\ icall[r].at = "counted"
    /\ trail' = [trail EXCEPT ![r] = Append(@, [complete |-> FALSE, n |-> icall[r].n])]
    /\ icall' = Goes(r, "logged", icall[r].outcome, clock)
    /\ clock' = clock + 1
    /\ UNCHANGED <<plugin, tracked, records, counters, ccall, host, tried, excused>>

\* trimPendingLocked: the oldest record goes.
Recorded(recs) == {r \in Requests : recs[r] # NoRecord}
Trimmed_OneTooMany(recs) ==
    IF Cardinality(Recorded(recs)) <= MaxRecords + 1 THEN {}
    ELSE {r \in Recorded(recs) : \A q \in Recorded(recs) : recs[r].at <= recs[q].at}
Trimmed(recs) ==
    IF Cardinality(Recorded(recs)) <= MaxRecords THEN {}
    ELSE {r \in Recorded(recs) : \A q \in Recorded(recs) : recs[r].at <= recs[q].at}

\* The record is kept for the completion, and the call returns.
Remember(r) ==
    LET p == icall[r].p
        recs == [records[p] EXCEPT ![r] = [n |-> icall[r].n, at |-> icall[r].stamp]]
    IN /\ icall[r].at = "logged"
       /\ records' = [records EXCEPT ![p] =
                        [q \in Requests |-> IF q \in Trimmed(recs) THEN NoRecord ELSE recs[q]]]
       /\ excused' = excused \cup Trimmed(recs)
       /\ icall' = Goes(r, "idle", icall[r].outcome, 0)
       /\ host' = [host EXCEPT ![r] = IF icall[r].outcome \in {"block", "fail"} /\ @ = "open"
                                      THEN "refused" ELSE @]
       /\ UNCHANGED <<plugin, tracked, counters, ccall, tried, clock, trail>>

-----------------------------------------------------------------------------
(* HandleRequestComplete.                                                  *)

\* The host reports a completion, also for a request that was canceled in the middle of
\* the interceptor, and perhaps again.  complete() of the store tells whether it was
\* tracked.
Tell(c, r) ==
    /\ ccall[c].at = "idle"
    /\ icall[r].n > 0
    /\ host' = [host EXCEPT ![r] = "over"]
    /\ ccall' = [ccall EXCEPT ![c] = [at |-> "told", r |-> r, p |-> plugin,
                                      was |-> r \in tracked[plugin], record |-> NoRecord]]
    /\ tracked' = [tracked EXCEPT ![plugin] = @ \ {r}]
    /\ excused' = IF Working(r) \/ icall[r].p # plugin THEN excused \cup {r} ELSE excused
    /\ UNCHANGED <<plugin, records, counters, icall, tried, clock, trail>>

\* complete() of the reporter takes the record.
Taken(c, record) ==
    [ccall EXCEPT ![c] = [at |-> "taken", r |-> ccall[c].r, p |-> ccall[c].p,
                          was |-> ccall[c].was, record |-> record]]

Take_Leaving(c) ==
    LET r == ccall[c].r IN
    /\ ccall[c].at = "told"
    /\ ccall' = Taken(c, records[ccall[c].p][r])
    /\ UNCHANGED <<plugin, tracked, records, counters, icall, host, tried, clock, trail, excused>>
Take_Tracked(c) ==
    LET r == ccall[c].r IN
    /\ ccall[c].at = "told"
    /\ ccall' = Taken(c, IF ccall[c].was THEN records[ccall[c].p][r] ELSE NoRecord)
    /\ records' = [records EXCEPT ![ccall[c].p][r] = NoRecord]
    /\ UNCHANGED <<plugin, tracked, counters, icall, host, tried, clock, trail, excused>>
Take(c) ==
    LET r == ccall[c].r IN
    /\ ccall[c].at = "told"
    /\ ccall' = Taken(c, records[ccall[c].p][r])
    /\ records' = [records EXCEPT ![ccall[c].p][r] = NoRecord]
    /\ UNCHANGED <<plugin, tracked, counters, icall, host, tried, clock, trail, excused>>

\* It writes action_complete if there was one, and recordCompletion counts the request if
\* the store had it.
CompletionLine_Unchecked(c) ==
    LET record == ccall[c].record IN
    [trail EXCEPT ![ccall[c].r] =
        Append(@, [complete |-> TRUE, n |-> IF record = NoRecord THEN 0 ELSE record.n])]
CompletionLine(c) ==
    LET r == ccall[c].r IN
    IF ccall[c].record = NoRecord THEN trail
    ELSE [trail EXCEPT ![r] = Append(@, [complete |-> TRUE, n |-> ccall[c].record.n])]

Completed(p) == [counters EXCEPT ![p].completed = @ + 1]

LogCompletion_Always(c) ==
    LET p == ccall[c].p IN
    /\ ccall[c].at = "taken"
    /\ ccall' = [ccall EXCEPT ![c] = Over]
    /\ trail' = CompletionLine(c)
    /\ counters' = Completed(p)
    /\ UNCHANGED <<plugin, tracked, records, icall, host, tried, clock, excused>>
LogCompletion(c) ==
    LET p == ccall[c].p IN
    /\ ccall[c].at = "taken"
    /\ ccall' = [ccall EXCEPT ![c] = Over]
    /\ trail' = CompletionLine(c)
    /\ counters' = IF ccall[c].was THEN Completed(p) ELSE counters
    /\ UNCHANGED <<plugin, tracked, records, icall, host, tried, clock, excused>>

-----------------------------------------------------------------------------
\* The store drops a request that expired, or to keep within its own cap.
Forget(p, r) ==
    /\ r \in tracked[p]
    /\ tracked' = [tracked EXCEPT ![p] = @ \ {r}]
    /\ UNCHANGED <<plugin, records, counters, icall, ccall, host, tried, clock, trail, excused>>

\* The host registers a new plugin object, which starts with nothing.
Reconfigure(p) ==
    /\ p # plugin
    /\ counters[p].observed = 0
    /\ plugin' = p
    /\ UNCHANGED <<tracked, records, counters, icall, ccall, host, tried, clock, trail, excused>>

Init ==
    /\ plugin = First
    /\ tracked = [p \in Plugins |-> {}]
    /\ records = [p \in Plugins |-> [r \in Requests |-> NoRecord]]
    /\ counters = [p \in Plugins |-> NoCounts]
    /\ icall = [r \in Requests |->
                  [at |-> "idle", p |-> First, n |-> 0, outcome |-> "pass", stamp |-> 0]]
    /\ ccall = [c \in Notices |-> NoCall]
    /\ host = [r \in Requests |-> "open"]
    /\ tried = 0
    /\ clock = 0
    /\ trail = [r \in Requests |-> <<>>]
    /\ excused = {}

Next ==
    \/ \E r \in Requests :
        \/ Observe(r) \/ BeginRequest(r) \/ Decide(r) \/ Discard(r)
        \/ LogAction(r) \/ Remember(r)
    \/ \E c \in Notices :
        (\E r \in Requests : Tell(c, r)) \/ Take(c) \/ LogCompletion(c)
    \/ \E p \in Plugins : Reconfigure(p) \/ \E r \in Requests : Forget(p, r)

Spec == Init /\ [][Next]_vars

-----------------------------------------------------------------------------
(* Properties.                                                             *)

\* Types of all variables.
TypeOK ==
    /\ plugin \in Plugins
    /\ tracked \in [Plugins -> SUBSET Requests]
    /\ records \in [Plugins -> [Requests -> Record \cup {NoRecord}]]
    /\ counters \in [Plugins -> [observed : Nat, outcomes : Nat, completed : Nat]]
    /\ icall \in [Requests -> InterceptRec]
    /\ ccall \in [Notices -> CompleteRec]
    /\ host \in [Requests -> {"open", "refused", "over"}]
    /\ tried \in 0..MaxCandidates
    /\ clock \in Nat
    /\ trail \in [Requests -> Seq(Line)]
    /\ excused \subseteq Requests

\* metrics.go: a request observed is counted under exactly one outcome, whichever way
\* InterceptRequestAfterAuth is left; only calls before their counter are missing.
Uncounted(p) ==
    {r \in Requests : icall[r].p = p /\ icall[r].at \in {"observed", "begun"}}
Ledger ==
    \A p \in Plugins :
        counters[p].observed = counters[p].outcomes + Cardinality(Uncounted(p))

\* HandleRequestComplete counts only what complete() of the store found, so that the
\* completions counted never outnumber the requests observed, with retries of a request,
\* completions reported twice, in the middle of the interceptor, or to another object.
Completing(p) == {c \in Notices : ccall[c].p = p /\ ccall[c].was}
CompletedOnce ==
    \A p \in Plugins :
        counters[p].completed + Cardinality(Completing(p)) + Cardinality(tracked[p])
            <= counters[p].observed

\* trimPendingLocked keeps diagnosticReporter.pending within maxPending, although records
\* of requests that were canceled in the middle are taken by no completion.
ReporterBounded ==
    \A p \in Plugins : Cardinality(Recorded(records[p])) <= MaxRecords

\* beginRequest: once it has run, no record of an earlier candidate is left for the
\* completion to report, also when the new candidate passes without a record.
RecordIsLatest ==
    \A r \in Requests :
        LET record == records[icall[r].p][r] IN
        (record # NoRecord /\ icall[r].at # "observed") => record.n = icall[r].n

\* diagnosticReporter: action_complete follows the line of the action it is about, and
\* an action is completed once, however often the host reports the completion.
TrailOnce ==
    \A r \in Requests : \A i \in 1..Len(trail[r]) :
        trail[r][i].complete =>
            /\ \E j \in 1..(i - 1) : trail[r][j] = [complete |-> FALSE, n |-> trail[r][i].n]
            /\ \A j \in 1..(i - 1) : trail[r][j] # trail[r][i]

\* A request whose last candidate was acted upon ends with action_complete for it, unless
\* the reporter forgot it to keep its bound, it was canceled in the middle, or its
\* completion went to another plugin object.  Other requests' calls take nothing away.
Acted(r) == icall[r].outcome # "pass"
Settled(r) ==
    /\ host[r] = "over"
    /\ ~Working(r)
    /\ \A c \in Notices : ccall[c].r = r => ccall[c].at \in {"idle", "done"}
Reported ==
    \A r \in Requests \ excused :
        (Settled(r) /\ Acted(r)) =>
            \E i \in 1..Len(trail[r]) : trail[r][i] = [complete |-> TRUE, n |-> icall[r].n]
=============================================================================
