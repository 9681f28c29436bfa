---------------------------- MODULE ClientRequest ----------------------------
(***************************************************************************)
(* A client puts a request together, edit by edit, and the plugin inspects *)
(* it, finds its conversation and strips it (Sanitize, SessionIdentity).   *)
(* The store decides (RouteState): here it may decide whatever it can for  *)
(* what the inspection saw.  The host may hand the rewritten request to    *)
(* the next candidate.                                                     *)
(***************************************************************************)
EXTENDS Sanitize, SessionIdentity

CONSTANTS
    Items,          \* bound: the items a client uses
    MaxEdits,       \* bound: the edits it makes
    MaxNames        \* bound: the fields of a request that it fills in

ASSUME ClientAssumption == Items \subseteq Item /\ MaxEdits \in Nat /\ MaxNames \in Nat

VARIABLES
    request,        \* the members of its body and the fields that name its conversation
    edits,
    result          \* what InterceptRequestAfterAuth makes of it, or Pending

vars == <<request, edits, result>>

Pending == [how |-> "pending", blocked |-> {}, to |-> request]

Edited(r) ==
    /\ edits < MaxEdits
    /\ edits' = edits + 1
    /\ request' = r
    /\ result' = [how |-> "pending", blocked |-> {}, to |-> r]

FilledIn(req) == {f \in Fields : req.field[f] # NoName}

AddItem ==
    /\ request.shape = "list"
    /\ \E item \in Items : Edited([request EXCEPT !.input = Append(@, item)])
NameResponse == Edited([request EXCEPT !.prev = TRUE])
Reshape == \E shape \in Shapes : Edited([request EXCEPT !.shape = shape, !.input = <<>>])
NameField ==
    \E f \in Fields, text \in Names \cup {Unfit} :
        /\ Edited([request EXCEPT !.field[f] = text])
        /\ Cardinality(FilledIn(request')) <= MaxNames
NameCaller == \E text \in Callers \cup {Unfit} : Edited([request EXCEPT !.caller = text])
GrowMetadata == \E place \in TurnPlaces : Edited([request EXCEPT !.long = @ \cup {place}])

\* The parts of InterceptRequestAfterAuth around prepare.  Stripping that changed
\* nothing is reject_sanitize_failure.
Intercepted(how, blocked, to) ==
    /\ result.how = "pending"
    /\ result' = [how |-> IF how \in {"strip", "retired"} /\ to = request THEN "failure" ELSE how,
                  blocked |-> blocked, to |-> to]
    /\ UNCHANGED <<request, edits>>

Unparseable ==
    /\ ~Parses(request)
    /\ Intercepted(IF LikelyContainsState(request) THEN "reject" ELSE "pass", {}, request)
PassOn == Parses(request) /\ Intercepted("pass", {}, request)
Strip == Parses(request) /\ HasBoundState(request) /\ Intercepted("strip", {}, StripAll(request))
SelectItems ==
    /\ Parses(request)
    /\ \E blocked \in (SUBSET Fingerprints(request)) \ {{}} :
        Intercepted("retired", blocked, StripRetired(request, blocked))

\* Another candidate is tried, with the request as it was or as it was rewritten.
NextCandidate ==
    /\ result.how \in {"pass", "strip", "retired"}
    /\ \E r \in {request, result.to} :
        request' = r /\ result' = [how |-> "pending", blocked |-> {}, to |-> r]
    /\ UNCHANGED edits

Init ==
    /\ request = [shape |-> "list", prev |-> FALSE, input |-> <<>>,
                  field |-> [f \in Fields |-> NoName], caller |-> NoName, long |-> {}]
    /\ edits = 0
    /\ result = Pending

Next ==
    \/ AddItem \/ NameResponse \/ Reshape \/ NameField \/ NameCaller \/ GrowMetadata
    \/ Unparseable \/ PassOn \/ Strip \/ SelectItems \/ NextCandidate

Spec == Init /\ [][Next]_vars

-----------------------------------------------------------------------------
(* Properties.                                                             *)

\* Types of all variables.
TypeOK ==
    /\ IsBody(request) /\ IsRequest(request)
    /\ edits \in 0..MaxEdits
    /\ result.how \in {"pending", "pass", "reject", "failure", "strip", "retired"}
    /\ IsBody(result.to)

\* stripRouteBoundState leaves nothing of a bound type, not even items that the
\* inspection could not decode, and no previous_response_id.
StripsClean ==
    result.how = "strip" =>
        /\ ~result.to.prev
        /\ \A i \in DOMAIN result.to.input : result.to.input[i].kind \notin BoundKinds

\* reject_sanitize_failure does not happen for a decision that prepare can make:
\* inspection and stripping decode items differently, but never so that there is nothing
\* to strip.
NeverUnchanged == result.how # "failure"

\* stripRetiredRouteBoundItems removes all items of the blocked names and nothing else,
\* and the response that is continued stays named.
OnlyRetired ==
    result.how = "retired" =>
        /\ Fingerprints(result.to) = Fingerprints(request) \ result.blocked
        /\ result.to.prev = request.prev

\* Application data survives every way of stripping, in order, whatever it looks like.
DataKept == Only(result.to.input, Data) = Only(request.input, Data)

-----------------------------------------------------------------------------
\* "Prefer the host's reconciled identity", then execution_session_id, headers, payload
\* metadata, prompt_cache_key, and the derived identity last.
Rank(f) ==
    CASE f = <<"host", "canonical">> -> 1
      [] f = <<"host", "execution">> -> 2
      [] f[1] = "header" -> 3
      [] f[1] = "turn-header" -> 4
      [] f[1] = "payload" /\ f[2] # "prompt_cache_key" -> 5
      [] f[1] = "turn-payload" -> 6
      [] f[1] = "turn-client" -> 7
      [] f[1] = "client" -> 8
      [] f = <<"payload", "prompt_cache_key">> -> 9
      [] f = <<"host", "derived">> -> 10
Usable(req) == {f \in Fields : req.field[f] \in Names /\ f[1] \notin req.long}
Strongest(req) ==
    LET usable == Usable(req) IN {f \in usable : \A g \in usable : Rank(f) <= Rank(g)}
OnlyNamed(req, fields) ==
    [req EXCEPT !.field = [f \in Fields |-> IF f \in fields THEN req.field[f] ELSE NoName]]

\* A conversation keeps its key when weaker names come and go, or names that are unfit,
\* and has one as soon as anything names it.
KeyOfStrongest ==
    LET key == SessionKey(request)
    IN /\ key = SessionKey(OnlyNamed(request, Strongest(request)))
       /\ key = NoKey <=> Usable(request) = {}

\* "Concurrency isolation": forks and subagents of one session, told apart by their
\* threads only, have keys of their own.
ThreadsApart ==
    LET key == SessionKey(request)
    IN \A f \in Strongest(request) : f[2] \in {"Thread-Id", "thread_id"} =>
           \A other \in Names \ {request.field[f]} :
               SessionKey([request EXCEPT !.field[f] = other]) # key

\* x-codex-turn-metadata names the same conversation in a header, in the payload and in
\* client_metadata.
Moved(req, from, to) ==
    [OnlyNamed(req, {}) EXCEPT
        !.field = [f \in Fields |-> IF f[1] = to THEN req.field[<<from, f[2]>>] ELSE NoName],
        !.long = {}]
MetadataAnywhere ==
    \A from \in {f[1] : f \in Strongest(request)} \cap TurnPlaces : \A to \in TurnPlaces :
        SessionKey(Moved(request, from, to)) = SessionKey(request)
=============================================================================
