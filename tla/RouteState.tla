----------------------------- MODULE RouteState -----------------------------
(***************************************************************************)
(* The route state store of state.go (routeStateStore): which credential   *)
(* route every conversation is bound to, which requests are in flight, and *)
(* which encrypted items may no longer be replayed.                        *)
(*                                                                         *)
(* Every method of the store holds its one mutex from beginning to end, so *)
(* a method is one action.  prepare, complete and snapshot begin with the  *)
(* purge of maybePurgeExpiredLocked.  The purge visits the expired pending *)
(* requests in map order, so it is modelled as the actions Sweep and       *)
(* ExpirePending, with the mutex held (sweep # {}) in between; the other   *)
(* actions are enabled only when no purge is due (Ready).  No behaviour is *)
(* added or lost: snapshot() is exactly a purge, and a second purge at the *)
(* same instant does nothing.                                              *)
(*                                                                         *)
(* Absent entries of the three maps are modelled by total functions.       *)
(*                                                                         *)
(* A definition whose name has a suffix, as in Commits_AnyOrder, is the    *)
(* definition after it with a mistake in it; nothing uses it here.  It is  *)
(* put in the place of the right one to see that a property notices.       *)
(***************************************************************************)
EXTENDS Integers, FiniteSets

CONSTANTS
    Requests,       \* request IDs (their pendingKey digests)
    Sessions,       \* session keys
    Routes,         \* fingerprints of credential + model + target format
    Reasoning,      \* fingerprints of reasoning items
    Compaction,     \* fingerprints of compaction items
    NoRequest,      \* the empty request ID
    NoSession,      \* the empty session key: no conversation identity
    NoRoute,        \* the zero routeFingerprint: route unknown, or not committed
    NotRetired,     \* not a key of RetiredItems
    AnyRoute,       \* a key of RetiredItems but not of RetiredItemRoute
    Absent,         \* not a key of sessions, or of pending
    CompactionPolicy,   \* "block" or "strip"
    MaxSessions,    \* cfg.MaxSessions
    MaxPending,     \* cfg.MaxPending
    MaxRetired,     \* maxRetiredItemFingerprintsPerSession
    StateTTL,       \* cfg.StateTTL, in clock ticks
    SweepInterval,  \* StateTTL/16 clamped to [1s, 1m], in clock ticks
    MaxSequence,    \* bound of the model on sequence
    MaxTime,        \* bound of the model on the clock
    MaxSaves        \* bound of the model on saved

Items == Reasoning \cup Compaction

\* The zero time.Time of an entry read from a map that has no such key: older
\* than any StateTTL.
ZeroTime == -1 - StateTTL

\* What an inspected body carries: its top-level reasoning and compaction
\* items, and whether it names a previous_response_id (stateSignals).
Payloads == [items : SUBSET Items, prev : BOOLEAN]

\* RetiredItems and RetiredItemRoute are one function: an item is not retired,
\* retired for every route, or retired for one route.  Its sequence number
\* is never compared with another and is left out.  HasRoute is route # NoRoute.
SessionRec ==
    [route : Routes \cup {NoRoute}, seq : Nat, updatedAt : Int,
     tainted : BOOLEAN, overflow : BOOLEAN,
     retired : [Items -> Routes \cup {NotRetired, AnyRoute}]]

\* RouteKnown is route # NoRoute.  CanClearTaint implies CleanStart, so the
\* conjunction of both that complete() tests is canClearTaint alone.
PendingRec ==
    [session : Sessions, route : Routes \cup {NoRoute}, seq : Nat,
     observedAt : Nat, canClearTaint : BOOLEAN, overflow : BOOLEAN,
     retired : SUBSET Items]

IndexRec == [count : Nat, routes : [Routes \cup {NoRoute} -> Nat]]

\* What persistNow writes, but for the time of the save (persistentStateBody).
ContentRec == [sessions : [Sessions -> SessionRec \cup {Absent}], sequence : Nat]

ASSUME ConstantsAssumption ==
    /\ IsFiniteSet(Requests) /\ IsFiniteSet(Sessions)
    /\ IsFiniteSet(Reasoning) /\ IsFiniteSet(Compaction)
    /\ Reasoning \cap Compaction = {}
    /\ NoRequest \notin Requests /\ NoSession \notin Sessions
    /\ NoRoute \notin Routes /\ NotRetired \notin Routes
    /\ AnyRoute \notin Routes /\ NotRetired # AnyRoute
    /\ NoRoute # NotRetired /\ NoRoute # AnyRoute
    /\ CompactionPolicy \in {"block", "strip"}

\* parsePluginConfig refuses caps below one, and a StateTTL below a minute, which
\* is also the longest sweep interval.
ASSUME BoundsAssumption ==
    /\ MaxSessions \in Nat \ {0} /\ MaxPending \in Nat \ {0}
    /\ MaxRetired \in Nat \ {0}
    /\ StateTTL \in Nat \ {0} /\ SweepInterval \in 1..StateTTL
    /\ MaxSequence \in Nat /\ MaxTime \in Nat /\ MaxSaves \in Nat

ASSUME AbsentAssumption == Absent \notin SessionRec /\ Absent \notin PendingRec

VARIABLES
    sessions,   \* session key -> SessionRec, or Absent
    pending,    \* request ID -> PendingRec, or Absent
    index,      \* pendingBySession: counts of pending requests per session
    sequence,   \* the number of the newest tracked request
    now,        \* the clock
    nextPurge,  \* no purge before this instant; 0 stands for the zero time
    sweep,      \* expired pending requests the purge in progress has yet to drop
    saved       \* what the state file has held

\* The memory of the process and its clock.
vars == <<sessions, pending, index, sequence, now, nextPurge, sweep>>

stateVars == <<vars, saved>>

-----------------------------------------------------------------------------
(* Sessions.                                                               *)

\* sessionRouteState{}
Blank == [route |-> NoRoute, seq |-> 0, updatedAt |-> ZeroTime,
          tainted |-> FALSE, overflow |-> FALSE,
          retired |-> [i \in Items |-> NotRetired]]

\* Reading a Go map: the zero value for a key it does not have.
SessionOf(ss, k) == IF ss[k] = Absent THEN Blank ELSE ss[k]

Live(ss) == {k \in Sessions : ss[k] # Absent}

MarkRetiredOverflow_NoFlag(session) ==
    [session EXCEPT !.updatedAt = now, !.retired = [i \in Items |-> NotRetired]]
MarkRetiredOverflow(session) ==
    [session EXCEPT !.overflow = TRUE, !.updatedAt = now,
                    !.retired = [i \in Items |-> NotRetired]]

RetiredSet(session) == {i \in Items : session.retired[i] # NotRetired}

\* retireItemsLocked: the barrier of an item retired before is overwritten.
RetireItems(session, items, route) ==
    LET scope == IF route = NoRoute THEN AnyRoute ELSE route
    IN  IF session.overflow \/ items = {}
        THEN [session EXCEPT !.updatedAt = now]
        ELSE IF Cardinality(RetiredSet(session) \cup items) > MaxRetired
        THEN MarkRetiredOverflow(session)
        ELSE [session EXCEPT !.updatedAt = now,
                !.retired = [i \in Items |-> IF i \in items THEN scope ELSE @[i]]]

\* trimSessionsLocked: the results of evicting down to MaxSessions.  One entry at
\* most is added between two trims, so one victim is enough: the idle session
\* updated longest ago, or, when all are active, the session updated longest ago.
\* Ties are decided by the order of keyed digests, which is arbitrary.
Victims(ss, idx) ==
    LET idle == {k \in Live(ss) : idx[k].count = 0}
        pool == IF idle # {} THEN idle ELSE Live(ss)
    IN  {v \in pool : \A k \in pool : ss[v].updatedAt <= ss[k].updatedAt}

TrimSessions_OneTooMany(ss, idx) ==
    IF Cardinality(Live(ss)) <= MaxSessions + 1
    THEN {ss}
    ELSE {[ss EXCEPT ![v] = Absent] : v \in Victims(ss, idx)}

TrimSessions(ss, idx) ==
    IF Cardinality(Live(ss)) <= MaxSessions
    THEN {ss}
    ELSE {[ss EXCEPT ![v] = Absent] : v \in Victims(ss, idx)}

TaintSession(ss, k) ==
    [ss EXCEPT ![k] = [SessionOf(ss, k) EXCEPT !.tainted = TRUE,
                                               !.updatedAt = now]]

-----------------------------------------------------------------------------
(* Pending requests and their index.                                       *)

Used(pend) == {r \in Requests : pend[r] # Absent}

PendingIn(pend, k) == {r \in Requests : pend[r] # Absent /\ pend[r].session = k}

\* An index entry that does not exist, or was just created.
NoPending == [count |-> 0, routes |-> [r \in Routes \cup {NoRoute} |-> 0]]

\* The index half of setPendingLocked.
IndexAdd(idx, p) ==
    LET entry == idx[p.session]
    IN  [idx EXCEPT ![p.session] =
            [count  |-> entry.count + 1,
             routes |-> [entry.routes EXCEPT ![p.route] = @ + 1]]]

\* removePendingIndexLocked: counters that reach zero are deleted, and so is the
\* entry of a session without pending requests.
IndexRemove(idx, p) ==
    LET entry == idx[p.session]
    IN  [idx EXCEPT ![p.session] =
            IF entry.count <= 1 THEN NoPending
            ELSE [count  |-> entry.count - 1,
                  routes |-> [entry.routes EXCEPT ![p.route] =
                                IF @ <= 1 THEN 0 ELSE @ - 1]]]

\* deletePendingLocked, for a request that may have no entry.
PendingWithout(r) == [pending EXCEPT ![r] = Absent]
IndexWithout_Stale(r) == index
IndexWithout(r) ==
    IF pending[r] = Absent THEN index ELSE IndexRemove(index, pending[r])

\* hasPendingForSessionLocked
HasPending(idx, k) == idx[k].count > 0

\* hasConcurrentRouteMismatchLocked
RouteMismatch_Never(idx, k, route) == FALSE
RouteMismatch(idx, k, route) == idx[k].count > idx[k].routes[route]

\* setPendingLocked and trimPendingLocked at the end of prepare: beyond MaxPending
\* the request observed longest ago is dropped and its session is tainted.
OldestPending(pend) ==
    {v \in Used(pend) : \A r \in Used(pend) : pend[v].observedAt <= pend[r].observedAt}

Track(r, p, ss) ==
    LET pend == [pending EXCEPT ![r] = p]
        idx  == IndexAdd(IndexWithout(r), p)
    IN  IF Cardinality(Used(pend)) <= MaxPending
        THEN /\ sessions' = ss
             /\ pending' = pend
             /\ index' = idx
        ELSE \E v \in OldestPending(pend) :
                LET k == pend[v].session
                    left == IndexRemove(idx, pend[v])
                IN /\ pending' = [pend EXCEPT ![v] = Absent]
                   /\ index' = left
                   /\ sessions' \in TrimSessions(TaintSession(ss, k), left)

-----------------------------------------------------------------------------
(* The decision of prepare, for a session as prepare sees it.              *)

RouteBound(payload) == payload.items # {} \/ payload.prev
HasCompaction(payload) == payload.items \cap Compaction # {}

\* routeRelationSame; NoRoute never equals a known route.
Trusted(session, route) ==
    route # NoRoute /\ session.route = route /\ ~session.tainted

UnsafeState(session, route, payload) ==
    RouteBound(payload) /\ ~Trusted(session, route)

\* decision.Reject
Rejects(session, route, payload) ==
    /\ UnsafeState(session, route, payload)
    /\ HasCompaction(payload)
    /\ CompactionPolicy = "block"

\* decision.Strip
Strips(session, route, payload) ==
    \/ UnsafeState(session, route, payload)
    \/ Trusted(session, route) /\ session.overflow /\ payload.items # {}

\* decision.BlockedItemFingerprints, of retiredItemMatches: an item retired for
\* another route is not a match.
BlockedItems(session, route, payload) ==
    IF Trusted(session, route) /\ ~session.overflow
    THEN {i \in payload.items : session.retired[i] \in {AnyRoute, route}}
    ELSE {}

\* The items that go upstream.
Forwarded(session, route, payload) ==
    IF Strips(session, route, payload) THEN {}
    ELSE payload.items \ BlockedItems(session, route, payload)

\* The session that prepare decides on and stores: requests of one conversation in
\* flight on different routes make it tainted.
Observed(r, k, route) ==
    LET idx  == IF r = NoRequest THEN index ELSE IndexWithout(r)
        seen == SessionOf(sessions, k)
    IN  IF RouteMismatch(idx, k, route)
        THEN [seen EXCEPT !.tainted = TRUE, !.updatedAt = now]
        ELSE seen

\* boundedUniqueFingerprints
TooMany(items) == Cardinality(items) > MaxRetired
RetiredOnSuccess_Nothing(items) == {}
RetiredOnSuccess(items) == IF TooMany(items) THEN {} ELSE items

-----------------------------------------------------------------------------
(* The methods of the store.                                               *)

\* maybePurgeExpiredLocked has nothing to do, and nobody holds the mutex.
Ready == now < nextPurge /\ sweep = {}

\* Without a known route, a conversation is remembered for what is stripped.
RetiresUnknown(r, k, payload) ==
    /\ Strips(Blank, NoRoute, payload)
    /\ ~Rejects(Blank, NoRoute, payload)
    /\ r # NoRequest /\ k # NoSession

\* The part of prepare that a candidate without a session key or a route takes when
\* it is not stripped, or cannot be tracked: only an earlier candidate of the same
\* request is forgotten.
PrepareUntracked(r, k, route, payload) ==
    /\ Ready
    /\ ~(k \in Sessions /\ route \in Routes)
    /\ ~RetiresUnknown(r, k, payload)
    /\ IF r = NoRequest
       THEN UNCHANGED <<pending, index>>
       ELSE pending' = PendingWithout(r) /\ index' = IndexWithout(r)
    /\ UNCHANGED <<sessions, sequence, now, nextPurge, sweep, saved>>

\* A conversation whose route is unknown is stripped and tracked, so that what was
\* stripped is retired for every route once the request succeeds.
PrepareUnknown(r, k, payload) ==
    /\ Ready
    /\ sequence < MaxSequence
    /\ RetiresUnknown(r, k, payload)
    /\ sequence' = sequence + 1
    /\ LET stored == [sessions EXCEPT ![k] =
                        [SessionOf(sessions, k) EXCEPT !.updatedAt = now]]
           p == [session |-> k, route |-> NoRoute, seq |-> sequence + 1,
                 observedAt |-> now, canClearTaint |-> FALSE,
                 overflow |-> TooMany(payload.items),
                 retired |-> RetiredOnSuccess(payload.items)]
       IN \E ss \in TrimSessions(stored, IndexWithout(r)) : Track(r, p, ss)
    /\ UNCHANGED <<now, nextPurge, sweep, saved>>

\* A rejected candidate is not tracked; its items are retired for its route, with
\* or without a request ID.
PrepareRejected(r, k, route, payload) ==
    LET session == Observed(r, k, route)
        idx == IF r = NoRequest THEN index ELSE IndexWithout(r)
    IN /\ Ready
       /\ Rejects(session, route, payload)
       /\ IF r = NoRequest THEN pending' = pending ELSE pending' = PendingWithout(r)
       /\ index' = idx
       /\ sessions' \in TrimSessions(
            [sessions EXCEPT ![k] = RetireItems(session, payload.items, route)], idx)
       /\ UNCHANGED <<sequence, now, nextPurge, sweep, saved>>

\* Without a request ID a candidate that is not rejected leaves no trace.
PrepareAnonymous(k, route, payload) ==
    /\ Ready
    /\ ~Rejects(Observed(NoRequest, k, route), route, payload)
    /\ UNCHANGED stateVars

\* A candidate on a known route is tracked until its completion.
PrepareTracked(r, k, route, payload) ==
    LET session == Observed(r, k, route)
        strip == Strips(session, route, payload)
        clean == strip \/ ~RouteBound(payload)
        alone == ~HasPending(IndexWithout(r), k)
        stored == [sessions EXCEPT ![k] = [session EXCEPT !.updatedAt = now]]
        p == [session |-> k, route |-> route, seq |-> sequence + 1,
              observedAt |-> now,
              canClearTaint |-> session.tainted /\ clean /\ alone,
              overflow |-> strip /\ TooMany(payload.items),
              retired |-> IF strip THEN RetiredOnSuccess(payload.items) ELSE {}]
    IN /\ Ready
       /\ sequence < MaxSequence
       /\ ~Rejects(session, route, payload)
       /\ sequence' = sequence + 1
       /\ \E ss \in TrimSessions(stored, IndexWithout(r)) : Track(r, p, ss)
       /\ UNCHANGED <<now, nextPurge, sweep, saved>>

\* The route of a successful request is committed unless a newer one is already.
Commits_AnyOrder(session, p) == p.route # NoRoute
Commits(session, p) ==
    p.route # NoRoute /\ (session.route = NoRoute \/ p.seq >= session.seq)

\* A committing request clears the taint it was allowed to clear when it was
\* prepared, if no other request of its session is left.
ClearsTaint_NotAlone(p, idx) == p.canClearTaint
ClearsTaint(p, idx) == p.canClearTaint /\ ~HasPending(idx, p.session)

\* complete() of a successful request: what it stripped is retired, its route is
\* committed unless a newer request committed already, and taint is cleared by a
\* clean request that was alone in its session at both ends.
CompleteSucceeded(r) ==
    LET p == pending[r]
        idx == IndexWithout(r)
        found == SessionOf(sessions, p.session)
        retired == IF p.overflow THEN MarkRetiredOverflow(found)
                   ELSE IF p.retired # {} THEN RetireItems(found, p.retired, p.route)
                   ELSE found
        current == IF Commits(retired, p)
                   THEN [retired EXCEPT !.route = p.route, !.seq = p.seq,
                                        !.updatedAt = now,
                                        !.tainted = @ /\ ~ClearsTaint(p, idx)]
                   ELSE retired
    IN /\ Ready
       /\ pending[r] # Absent
       /\ pending' = PendingWithout(r)
       /\ index' = idx
       /\ sessions' \in TrimSessions([sessions EXCEPT ![p.session] = current], idx)
       /\ UNCHANGED <<sequence, now, nextPurge, sweep, saved>>

\* Any other outcome, unless upstream could not decrypt an item, says nothing about
\* the route; discardPending, after a failed sanitization, does the same.
CompleteFailed(r) ==
    /\ Ready
    /\ pending[r] # Absent
    /\ pending' = PendingWithout(r)
    /\ index' = IndexWithout(r)
    /\ UNCHANGED <<sessions, sequence, now, nextPurge, sweep, saved>>

\* hasInvalidEncryptedContentError: the conversation is tainted, and unbound when
\* the failing request used the route it is bound to.
CompleteInvalid(r) ==
    LET p == pending[r]
        found == [SessionOf(sessions, p.session) EXCEPT !.tainted = TRUE,
                                                        !.updatedAt = now]
        unbinds == found.route # NoRoute /\ found.route = p.route /\ found.seq <= p.seq
        current == IF unbinds THEN [found EXCEPT !.route = NoRoute, !.seq = p.seq]
                   ELSE found
    IN /\ Ready
       /\ pending[r] # Absent
       /\ pending' = PendingWithout(r)
       /\ index' = IndexWithout(r)
       /\ sessions' \in TrimSessions([sessions EXCEPT ![p.session] = current],
                                     IndexWithout(r))
       /\ UNCHANGED <<sequence, now, nextPurge, sweep, saved>>

\* discardPending does not look at the clock: it may run when a purge is due.
DiscardPending_Unlocked(r) ==
    /\ pending[r] # Absent
    /\ pending' = PendingWithout(r)
    /\ index' = IndexWithout(r)
    /\ UNCHANGED <<sessions, sequence, now, nextPurge, sweep, saved>>
DiscardPending(r) ==
    /\ sweep = {}
    /\ pending[r] # Absent
    /\ pending' = PendingWithout(r)
    /\ index' = IndexWithout(r)
    /\ UNCHANGED <<sessions, sequence, now, nextPurge, sweep, saved>>

\* The next purge comes after the interval, and no later than the first moment at which
\* an entry that stays can expire (scheduleExpiry).
Deadlines_Interval(keys, ids) == {now + SweepInterval}
Deadlines(keys, ids) ==
    {now + SweepInterval}
    \cup {sessions[k].updatedAt + StateTTL + 1 : k \in keys}
    \cup {pending[r].observedAt + StateTTL + 1 : r \in ids}

\* A due maybePurgeExpiredLocked, at the head of a method or in snapshot(): expired
\* sessions are deleted.
Sweep ==
    LET goneSessions == {k \in Live(sessions) : now - sessions[k].updatedAt > StateTTL}
        gonePending == {r \in Used(pending) : now - pending[r].observedAt > StateTTL}
        deadlines == Deadlines(Live(sessions) \ goneSessions, Used(pending) \ gonePending)
    IN /\ sweep = {} /\ now >= nextPurge
       /\ sessions' = [k \in Sessions |->
                         IF k \in goneSessions THEN Absent ELSE sessions[k]]
       /\ nextPurge' \in {d \in deadlines : \A e \in deadlines : d <= e}
       /\ sweep' = gonePending
       /\ UNCHANGED <<pending, index, sequence, now, saved>>

\* The rest of purgeExpiredLocked, one expired pending request at a time.
ExpirePending(r) ==
    /\ r \in sweep
    /\ sweep' = sweep \ {r}
    /\ pending' = PendingWithout(r)
    /\ index' = IndexWithout(r)
    /\ sessions' \in TrimSessions(TaintSession(sessions, pending[r].session),
                                  IndexWithout(r))
    /\ UNCHANGED <<sequence, now, nextPurge, saved>>

-----------------------------------------------------------------------------
(* The state file.  Module Persistence has the steps of a save and of a    *)
(* load, and shows that what is loaded is what some store held at one      *)
(* instant.  Which one is left open here: the file lags behind memory by   *)
(* the debounce, by saves that fail, and for good if the process crashes,  *)
(* and two stores take turns at it during a reconfiguration.  So a load    *)
(* yields any of the contents that have been saved, or none.               *)

Content == [sessions |-> sessions, sequence |-> sequence]

NoSessions == [k \in Sessions |-> Absent]

\* There is no file, it cannot be read, or validatePersistentState refuses it.
NoContent == [sessions |-> NoSessions, sequence |-> 0]

\* persistNow copies the sessions and the sequence under the mutex, whether or not an
\* entry has expired, and writes the copy.  A save that fails changes nothing.
Save ==
    /\ sweep = {}
    /\ saved' = saved \cup {Content}
    /\ Cardinality(saved') <= MaxSaves
    /\ UNCHANGED vars

\* validatePersistentState refuses the whole file for one session with a zero UpdatedAt.
Persistable(ss) == \A k \in Live(ss) : ss[k].updatedAt # ZeroTime

\* load leaves out the sessions that have expired since they were saved.
Restored_NoBarrier(ss) ==
    [k \in Sessions |->
        IF ss[k] = Absent \/ now - ss[k].updatedAt > StateTTL THEN Absent
        ELSE [ss[k] EXCEPT !.retired = [i \in Items |-> NotRetired]]]
Restored(ss) ==
    [k \in Sessions |->
        IF ss[k] # Absent /\ now - ss[k].updatedAt > StateTTL THEN Absent ELSE ss[k]]

\* newPersistentRouteStateStoreWithRoot: pending requests are not saved.
Load(content) ==
    LET accepted == IF Persistable(content.sessions) THEN content ELSE NoContent
    IN  /\ sweep = {}
        /\ sessions' = Restored(accepted.sessions)
        /\ sequence' = accepted.sequence
        /\ pending' = [r \in Requests |-> Absent]
        /\ index' = [k \in Sessions |-> NoPending]
        /\ nextPurge' = 0
        /\ UNCHANGED <<now, sweep, saved>>

\* The store is replaced, after the end of the process or by a reconfiguration.
Reopen == \E content \in saved \cup {NoContent} : Load(content)

Tick ==
    /\ sweep = {}
    /\ now < MaxTime
    /\ now' = now + 1
    /\ UNCHANGED <<sessions, pending, index, sequence, nextPurge, sweep, saved>>

-----------------------------------------------------------------------------
\* newRouteStateStoreWithClock, and the zero values of the other fields.
Init ==
    /\ sessions = [k \in Sessions |-> Absent]
    /\ pending = [r \in Requests |-> Absent]
    /\ index = [k \in Sessions |-> NoPending]
    /\ sequence = 0
    /\ now = 0
    /\ nextPurge = 0
    /\ sweep = {}
    /\ saved = {}

Prepare(payload) ==
    \/ \E r \in Requests \cup {NoRequest} :
        \E k \in Sessions \cup {NoSession}, route \in Routes \cup {NoRoute} :
            PrepareUntracked(r, k, route, payload)
    \/ \E r \in Requests, k \in Sessions : PrepareUnknown(r, k, payload)
    \/ \E r \in Requests \cup {NoRequest}, k \in Sessions, route \in Routes :
        PrepareRejected(r, k, route, payload)
    \/ \E k \in Sessions, route \in Routes : PrepareAnonymous(k, route, payload)
    \/ \E r \in Requests, k \in Sessions, route \in Routes :
        PrepareTracked(r, k, route, payload)

Complete(r) == CompleteSucceeded(r) \/ CompleteFailed(r) \/ CompleteInvalid(r)

Next ==
    \/ \E payload \in Payloads : Prepare(payload)
    \/ \E r \in Requests : Complete(r)
    \/ \E r \in Requests : DiscardPending(r)
    \/ Sweep
    \/ \E r \in Requests : ExpirePending(r)
    \/ Save
    \/ Reopen
    \/ Tick

Spec == Init /\ [][Next]_stateVars

-----------------------------------------------------------------------------
(* Invariants.                                                             *)

\* Every variable has its type.
TypeOK ==
    /\ sessions \in [Sessions -> SessionRec \cup {Absent}]
    /\ pending \in [Requests -> PendingRec \cup {Absent}]
    /\ index \in [Sessions -> IndexRec]
    /\ sequence \in Nat
    /\ now \in Nat
    /\ nextPurge \in Nat
    /\ sweep \subseteq Used(pending)
    /\ saved \subseteq ContentRec

\* The incremental index that prepare consults for concurrency agrees with the
\* pending requests themselves, through replacement, eviction, expiry and discard
\* (setPendingLocked, removePendingIndexLocked).
IndexExact ==
    \A k \in Sessions :
        /\ index[k].count = Cardinality(PendingIn(pending, k))
        /\ \A route \in Routes \cup {NoRoute} :
            index[k].routes[route] =
                Cardinality({r \in PendingIn(pending, k) : pending[r].route = route})

\* trimSessionsLocked and trimPendingLocked keep both maps within their caps, though
\* each evicts through code paths that insert into the other's map.
Bounded ==
    /\ Cardinality(Live(sessions)) <= MaxSessions
    /\ Cardinality(Used(pending)) <= MaxPending

\* No decision ever rests on an expired binding, and no completion on an expired
\* pending request, although purges are scheduled and not run on every call
\* (purgeExpiredLocked: "never let the next sweep miss an entry's strict age > TTL
\* boundary").
FreshBindings ==
    Ready =>
        /\ \A k \in Live(sessions) :
            sessions[k].route # NoRoute => now - sessions[k].updatedAt <= StateTTL
        /\ \A r \in Used(pending) : now - pending[r].observedAt <= StateTTL

\* While requests of one conversation are in flight on two known routes, the store
\* trusts no route for it ("Different credentials/models in flight for one
\* conversation create an ambiguous continuation order", prepare).  Holds when the
\* store has room for every conversation.
AmbiguityTainted ==
    \A r1, r2 \in Used(pending) :
        LET p1 == pending[r1]
            p2 == pending[r2]
        IN /\ p1.session = p2.session
           /\ p1.route # p2.route
           /\ NoRoute \notin {p1.route, p2.route}
           /\ sessions[p1.session] # Absent
           => sessions[p1.session].tainted

\* Every session of the store can be saved and loaded again; one that cannot costs all
\* the others ("invalid session updated_at timestamp", validatePersistentState).
LoadsAgain == Persistable(sessions)

-----------------------------------------------------------------------------
(* Action properties.                                                      *)

\* The session stays in the store across the step.
Stays(k) == sessions[k] # Absent /\ sessions'[k] # Absent

\* While a store is in use, a binding is only ever replaced by the binding of a request
\* that was prepared later: a late completion never rolls a conversation back to an older
\* route (complete: pending.Sequence >= current.Sequence).  A store that is opened goes
\* back to what was saved, and may well roll back.
NoRollback ==
    [][~Reopen => \A k \in Sessions :
        /\ Stays(k)
        /\ sessions[k].route # NoRoute
        /\ sessions'[k].route \notin {NoRoute, sessions[k].route}
        => sessions'[k].seq > sessions[k].seq]_vars

\* A conversation that stays in the store leaves taint only by committing the route
\* of a request of its own, with no other request of that conversation left in the
\* store (complete: "completed while no other request in that session was active").  A
\* store that is opened has the taint that was saved.
TaintClearedAlone ==
    [][~Reopen => \A k \in Sessions :
        /\ Stays(k)
        /\ sessions[k].tainted
        /\ ~sessions'[k].tainted
        => /\ PendingIn(pending', k) = {}
           /\ \E r \in PendingIn(pending, k) :
                /\ sessions'[k].route = pending[r].route
                /\ sessions'[k].seq = pending[r].seq]_vars

\* The items that a trusted conversation may not replay on the route it is bound to.
Barrier(session) ==
    IF session.overflow THEN Items
    ELSE {i \in Items : session.retired[i] \in {AnyRoute, session.route}}

\* While a conversation stays bound to a route and untainted, nothing that happens
\* to other candidates weakens the barrier against replaying what was stripped on
\* the way to that route (prepare: "a replay on that target is still removed,
\* without poisoning the previously committed route").  A store that is opened has the
\* barrier that was saved.
BarrierKept ==
    [][~Reopen => \A k \in Sessions :
        /\ Stays(k)
        /\ sessions[k].route # NoRoute
        /\ sessions'[k].route = sessions[k].route
        /\ ~sessions[k].tainted /\ ~sessions'[k].tainted
        => Barrier(sessions[k]) \subseteq Barrier(sessions'[k])]_vars
=============================================================================
