--------------------------- MODULE SafeForwarding ---------------------------
(***************************************************************************)
(* What the plugin promises, without the store it keeps the promise with:  *)
(* whatever the host selects and whatever the clients replay, an encrypted *)
(* item or a previous_response_id that a known route created goes upstream *)
(* only there.  How much of it goes upstream is left open, and so is what  *)
(* becomes of the creations of a route nobody can name, of a request that  *)
(* was cut off after its client saw the answer, and of what was created    *)
(* after the save that the plugin falls back to when it starts anew.       *)
(***************************************************************************)
EXTENDS Integers, FiniteSets

CONSTANTS
    Requests,   \* logical requests of the host
    Sessions,   \* conversations
    Routes,     \* upstream routes
    Items,      \* encrypted items
    NoRoute,    \* the unknown route
    Absent      \* no call; not created; no response

VARIABLES
    owner,      \* item -> the route that created it, NoRoute, or Absent
    held,       \* conversation -> the items its client replays
    last,       \* conversation -> the route of the last response, NoRoute, or Absent
    call,       \* request -> what runs upstream, or Absent
    kept        \* what each save knows of

safeVars == <<owner, held, last, call, kept>>

CallRec == [session : Sessions, route : Routes \cup {NoRoute}, sent : SUBSET Items,
            prev : Routes \cup {NoRoute, Absent}, made : SUBSET Items, known : BOOLEAN]

SafeInit ==
    /\ owner = [i \in Items |-> Absent]
    /\ held = [k \in Sessions |-> {}]
    /\ last = [k \in Sessions |-> Absent]
    /\ call = [r \in Requests |-> Absent]
    /\ kept = {}

\* What may go upstream in a call: nothing that another known route created, and to
\* the unknown route nothing at all.
OwnRoute(c) ==
    /\ c.route = NoRoute => c.sent = {} /\ c.prev = Absent
    /\ \A i \in c.sent : owner[i] \in {c.route, NoRoute}
    /\ c.prev \in {Absent, c.route, NoRoute}

\* A request, or the next candidate of one, goes upstream.
Forward(r) ==
    /\ UNCHANGED <<owner, held, last, kept>>
    /\ call'[r] \in CallRec
    /\ call'[r].made = {} /\ call'[r].known
    /\ OwnRoute(call'[r])
    /\ call' = [call EXCEPT ![r] = call'[r]]

\* It is refused, or it ends.
End(r) ==
    /\ UNCHANGED <<owner, held, last, kept>>
    /\ call' = [call EXCEPT ![r] = Absent]

\* Upstream answers with a new item or without, and the client can name the response, or
\* none.
Answer(r) ==
    LET by == IF call[r].known THEN call[r].route ELSE NoRoute IN
    /\ call[r] # Absent
    /\ \E name \in {by, Absent} : last' = [last EXCEPT ![call[r].session] = name]
    /\ \/ UNCHANGED <<owner, held, call>>
       \/ \E i \in Items :
            /\ owner[i] = Absent
            /\ owner' = [owner EXCEPT ![i] = by]
            /\ held' = [held EXCEPT ![call[r].session] = @ \cup {i}]
            /\ call' = [call EXCEPT ![r].made = {i}]
    /\ UNCHANGED kept

\* It fails, and nobody vouches for what its client has seen of it.
Abandon(r) ==
    /\ call[r] # Absent
    /\ owner' = [i \in Items |-> IF i \in call[r].made THEN NoRoute ELSE owner[i]]
    /\ last' \in {last, [last EXCEPT ![call[r].session] = NoRoute]}
    /\ call' = [call EXCEPT ![r] = Absent]
    /\ UNCHANGED <<held, kept>>

\* What is known at an instant: the creations of the requests that have ended, and the
\* last responses, but perhaps not those of conversations in which a request runs.
Known ==
    LET running == {r \in Requests : call[r] # Absent}
    IN [items : {{i \in Items : owner[i] # Absent} \ UNION {call[r].made : r \in running}},
        last : {[k \in Sessions |-> IF k \in lost THEN NoRoute ELSE last[k]] :
                    lost \in SUBSET {call[r].session : r \in running}}]

\* What is known is saved.
Record ==
    /\ \E v \in Known : kept' = kept \cup {v}
    /\ UNCHANGED <<owner, held, last, call>>

\* The plugin starts anew, with what a save knows or what is known now; nobody vouches for
\* anything else.  Requests end, or run on without anyone who knows of them.
StartAnew ==
    /\ \E v \in kept \cup Known :
        /\ owner' = [i \in Items |->
                       IF owner[i] # Absent /\ i \notin v.items THEN NoRoute ELSE owner[i]]
        /\ last' = [k \in Sessions |->
                      IF last[k] \in {Absent, v.last[k]} THEN last[k] ELSE NoRoute]
    /\ \/ call' = [r \in Requests |-> Absent]
       \/ call' = [r \in Requests |->
                     IF call[r] = Absent THEN Absent
                     ELSE [call[r] EXCEPT !.known = FALSE, !.made = {}]]
    /\ UNCHANGED <<held, kept>>

\* A client drops items from its history for good.
Forget(k) ==
    /\ UNCHANGED <<owner, call, kept>>
    /\ held' \in {[held EXCEPT ![k] = items] : items \in SUBSET held[k]}
    /\ last' \in {last, [last EXCEPT ![k] = Absent]}

SafeNext ==
    \/ \E r \in Requests : Forward(r) \/ End(r) \/ Answer(r) \/ Abandon(r)
    \/ Record
    \/ StartAnew
    \/ \E k \in Sessions : Forget(k)

SafeSpec == SafeInit /\ [][SafeNext]_safeVars
=============================================================================
