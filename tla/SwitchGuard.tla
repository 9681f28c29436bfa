---------------------------- MODULE SwitchGuard -----------------------------
(***************************************************************************)
(* The interceptor (interceptor.go) between the host, its clients and the  *)
(* route state store.  The host selects a route for a request, calls       *)
(* InterceptRequestAfterAuth, sends upstream what comes back, may select   *)
(* another route and call again, and ends with HandleRequestComplete.  A   *)
(* client replays the whole history of its conversation in every request,  *)
(* and names its last response or does not.                                *)
(*                                                                         *)
(* owner, held, last, call and cover belong to the environment: the plugin *)
(* sees none of them, and the properties say what it achieves all the      *)
(* same.  What a client keeps of a request that the store was not told to  *)
(* have succeeded, because it failed late, or the store is gone, or the    *)
(* store that was told is gone and the state file is older than that,      *)
(* nobody vouches for: its owner becomes NoRoute.                          *)
(***************************************************************************)
EXTENDS RouteState

CONSTANTS
    Freedoms,       \* what the environment may do beyond the ordinary, see below
    MaxDuration     \* the longest a request runs upstream, in clock ticks

\*  "overlap"     a client starts a turn while another of its turns runs
\*  "retry"       the host tries another candidate for a request
\*  "invalidate"  upstream cannot decrypt what it was sent
\*  "late"        a request fails after the client has kept its answer
\*  "response"    clients name their last response as previous_response_id
\*  "forget"      clients drop an item from their history, or the response they would name
\*  "unknown"     the host selects a route it cannot name
\*  "restart"     the host ends, in the middle of requests or not, and starts again
\*  "reconfigure" the plugin is reconfigured while requests run
ASSUME EnvironmentAssumption ==
    /\ Freedoms \subseteq {"overlap", "retry", "invalidate", "late", "response", "forget",
                          "unknown", "restart", "reconfigure"}
    /\ MaxDuration \in Nat

VARIABLES
    owner,      \* item -> the route that created it, NoRoute, or Absent
    held,       \* session -> the items its client replays
    last,       \* session -> the route of the last response, NoRoute, or Absent
    call,       \* request -> what runs upstream, or Absent
    cover       \* what the state file has held, with what the clients had by then

hostVars == <<owner, held, last, call, cover>>
guardVars == <<stateVars, hostVars>>

HostRoutes == IF "unknown" \in Freedoms THEN Routes \cup {NoRoute} ELSE Routes

\* items and prev are what the client sent, sent and sentPrev what the plugin let
\* through; prev is the route of the response named, or Absent.  made is what the answer
\* created; known tells whether the store that decided on the call is still in use.
CallRec ==
    [session : Sessions, route : Routes \cup {NoRoute}, since : Nat, answered : BOOLEAN,
     known : BOOLEAN, made : SUBSET Items,
     items : SUBSET Items, prev : Routes \cup {NoRoute, Absent},
     sent : SUBSET Items, sentPrev : Routes \cup {NoRoute, Absent}]

Running == {r \in Requests : call[r] # Absent}

\* InterceptRequestAfterAuth: a rejected candidate ends the request with an error to
\* the client.  An unknown route is decided without looking at the session.
Intercept(r, k, route, items, prev) ==
    LET payload == [items |-> items, prev |-> prev # Absent]
        session == IF route = NoRoute THEN Blank ELSE Observed(r, k, route)
        outgoing == [session |-> k, route |-> route, since |-> now, answered |-> FALSE,
                     known |-> TRUE, made |-> {}, items |-> items, prev |-> prev,
                     sent |-> Forwarded(session, route, payload),
                     sentPrev |-> IF Strips(session, route, payload) THEN Absent ELSE prev]
    IN /\ IF route = NoRoute
          THEN PrepareUntracked(r, k, route, payload) \/ PrepareUnknown(r, k, payload)
          ELSE PrepareRejected(r, k, route, payload) \/ PrepareTracked(r, k, route, payload)
       /\ call' = [call EXCEPT ![r] =
                     IF Rejects(session, route, payload) THEN Absent ELSE outgoing]
       /\ UNCHANGED <<owner, held, last, cover>>

\* A client starts a turn.
Send(r, k, route) ==
    /\ call[r] = Absent
    /\ "overlap" \notin Freedoms => \A q \in Running : call[q].session # k
    /\ \E prev \in {Absent} \cup (IF "response" \in Freedoms THEN {last[k]} ELSE {}) :
        Intercept(r, k, route, held[k], prev)

\* Nothing came back from upstream: the host tries another candidate.
Retry(r, route) ==
    /\ "retry" \in Freedoms
    /\ call[r] # Absent
    /\ ~call[r].answered
    /\ Intercept(r, call[r].session, route, call[r].items, call[r].prev)

\* Upstream answers, with a new item or without, and the client sees the answer
\* before the host reports the completion.
Answer(r) ==
    LET by == IF call[r].known THEN call[r].route ELSE NoRoute IN
    /\ call[r] # Absent
    /\ ~call[r].answered
    /\ last' = [last EXCEPT ![call[r].session] = IF "response" \in Freedoms THEN by ELSE Absent]
    /\ \/ /\ call' = [call EXCEPT ![r].answered = TRUE]
          /\ UNCHANGED <<owner, held>>
       \/ \E i \in Items :
            /\ owner[i] = Absent
            /\ owner' = [owner EXCEPT ![i] = by]
            /\ held' = [held EXCEPT ![call[r].session] = @ \cup {i}]
            /\ call' = [call EXCEPT ![r].answered = TRUE, ![r].made = {i}]
    /\ UNCHANGED <<stateVars, cover>>

\* What these requests created, and the last responses without theirs.
Made(R) == UNION {call[r].made : r \in R}
LastWithout(R) ==
    [k \in Sessions |->
        IF \E r \in R : call[r].answered /\ call[r].session = k /\ call[r].route = last[k]
        THEN NoRoute ELSE last[k]]

\* What clients have seen of these requests will not be reported as a success.
Disown(R) ==
    /\ owner' = [i \in Items |-> IF i \in Made(R) THEN NoRoute ELSE owner[i]]
    /\ last' = LastWithout(R)

MayFail(r) == call[r].answered => "late" \in Freedoms

\* HandleRequestComplete; the store may have lost track of the request.
Finish(r) ==
    /\ call[r] # Absent
    /\ call' = [call EXCEPT ![r] = Absent]
    /\ \/ /\ \/ call[r].answered /\ CompleteSucceeded(r)
             \/ Ready /\ pending[r] = Absent /\ UNCHANGED stateVars
          /\ UNCHANGED <<owner, last>>
       \/ /\ MayFail(r)
          /\ CompleteFailed(r) \/ ("invalidate" \in Freedoms /\ CompleteInvalid(r))
          /\ Disown({r})
    /\ UNCHANGED <<held, cover>>

\* A client drops an item for good, or the response it would name: a compaction or a
\* fresh start is a few of these.
Forget(k) ==
    /\ "forget" \in Freedoms
    /\ \/ \E i \in held[k] : held' = [held EXCEPT ![k] = @ \ {i}] /\ UNCHANGED last
       \/ last[k] # Absent /\ last' = [last EXCEPT ![k] = Absent] /\ UNCHANGED held
    /\ UNCHANGED <<stateVars, owner, call, cover>>

\* Time passes, but no request runs longer than MaxDuration.
HostTick ==
    /\ \A r \in Running : now - call[r].since < MaxDuration
    /\ Tick
    /\ UNCHANGED hostVars

\* A content, with what the requests that have ended created, and the last responses but
\* for theirs that have not.
Covering(content) ==
    [of |-> content,
     items |-> {i \in Items : owner[i] # Absent} \ Made(Running),
     last |-> LastWithout(Running)]

\* The store is saved, at any moment.
Persist ==
    /\ Save
    /\ cover' = cover \cup {Covering(Content)}
    /\ Cardinality(cover') <= MaxSaves
    /\ UNCHANGED <<owner, held, last, call>>

\* The store of the next plugin object starts from a save of any age, or from nothing, as
\* there may be no file or an unreadable one.  It has never heard of what requests that run
\* have created, nor of what clients have got since the save.
NewStore(v) ==
    /\ Load(v.of)
    /\ owner' = [i \in Items |->
                   IF owner[i] # Absent /\ i \notin v.items THEN NoRoute ELSE owner[i]]
    /\ last' = [k \in Sessions |->
                  IF last[k] \in {Absent, v.last[k]} THEN last[k] ELSE NoRoute]
    /\ UNCHANGED <<held, cover>>

\* The host ends, and with it every request, and starts again.  If it was killed, the
\* last changes were not saved; a client keeps what it has seen.
Restart ==
    /\ "restart" \in Freedoms
    /\ \E v \in cover \cup {Covering(NoContent)} : NewStore(v)
    /\ call' = [r \in Requests |-> Absent]

\* registerPlugin swaps in a store that loaded the file before the store in use was stopped
\* and flushed; the requests run on, and their completions meet a store that has never heard
\* of them.
Reconfigure ==
    /\ "reconfigure" \in Freedoms
    /\ \E v \in cover \cup {Covering(NoContent)} :
        /\ NewStore(v)
        /\ call' = [r \in Requests |->
                      IF call[r] = Absent THEN Absent
                      ELSE [call[r] EXCEPT
                              !.known = FALSE, !.made = {},
                              !.prev = IF @ \in {Absent, v.last[call[r].session]}
                                       THEN @ ELSE NoRoute]]

GuardInit ==
    /\ Init
    /\ owner = [i \in Items |-> Absent]
    /\ held = [k \in Sessions |-> {}]
    /\ last = [k \in Sessions |-> Absent]
    /\ call = [r \in Requests |-> Absent]
    /\ cover = {}

GuardNext ==
    \/ \E r \in Requests :
        \/ \E k \in Sessions, route \in HostRoutes : Send(r, k, route)
        \/ \E route \in HostRoutes : Retry(r, route)
        \/ Answer(r)
        \/ Finish(r)
    \/ \E k \in Sessions : Forget(k)
    \/ Sweep /\ UNCHANGED hostVars
    \/ \E r \in Requests : ExpirePending(r) /\ UNCHANGED hostVars
    \/ Persist
    \/ Restart
    \/ Reconfigure
    \/ HostTick

GuardSpec == GuardInit /\ [][GuardNext]_guardVars

-----------------------------------------------------------------------------
(* The promise.                                                            *)

Upstream ==
    [r \in Requests |->
        IF call[r] = Absent THEN Absent
        ELSE [session |-> call[r].session, route |-> call[r].route,
              sent |-> call[r].sent, prev |-> call[r].sentPrev,
              made |-> call[r].made, known |-> call[r].known]]

Kept == {[items |-> v.items, last |-> v.last] : v \in cover}

Promise == INSTANCE SafeForwarding WITH call <- Upstream, kept <- Kept

\* Absent is neither a route nor a call.
ASSUME AbsentCallAssumption ==
    Absent \notin Routes \cup {NoRoute} \cup CallRec \cup Promise!CallRec

\* The interceptor and its store keep the promise of SafeForwarding: what crosses to
\* an upstream was created there, across every interleaving of candidates, answers,
\* completions, failures, invalidations and expiries (stripRouteBoundState,
\* retiredItemMatches).
KeepsPromise == Promise!SafeSpec

-----------------------------------------------------------------------------
(* What the documentation and the comments say.                            *)

\* "prevents route-bound state from crossing into a different or unknown upstream":
\* no item that a known route created goes upstream on another route, or on an
\* unknown one.
NoForeignItem ==
    \A r \in Running : \A i \in call[r].sent :
        owner[i] \in Routes => owner[i] = call[r].route

\* "A tainted session can only become reusable after an unambiguous clean request
\* completed while no other request in that session was active": active upstream, not
\* just remembered by the store.  Only what an earlier store let through is not seen.
ReusableOnlyAlone ==
    [][\A k \in Sessions :
        /\ Stays(k)
        /\ sessions[k].tainted
        /\ ~sessions'[k].tainted
        => \A r \in Requests :
            call'[r] # Absent /\ call'[r].known => call'[r].session # k]_guardVars
=============================================================================
