--------------------------- MODULE SessionIdentity ---------------------------
(***************************************************************************)
(* session.go as operators: which of the many places of a request names    *)
(* its conversation, and the key made from it.  A request is a function    *)
(* from fields, pairs of a place and a name, to texts, together with the   *)
(* scope of its caller and the places whose turn metadata is too long.  A  *)
(* digest is the tuple of what it is made from.                            *)
(*                                                                         *)
(* A definition with a suffix is the one after it with a mistake in it,    *)
(* and is not used.                                                        *)
(***************************************************************************)
EXTENDS Integers, SequencesExt

CONSTANTS
    Names,          \* texts of identifiers
    Callers,        \* texts of caller_scope
    NoName,         \* a field that is missing, blank or not a text
    Unfit           \* longer than 256 bytes, or with control characters

ASSUME NameAssumption ==
    /\ NoName \notin Names \cup Callers /\ Unfit \notin Names \cup Callers
    /\ NoName # Unfit

\* What the code looks up at each place.  "turn-..." is x-codex-turn-metadata, JSON in a
\* text; turn IDs and the like are never looked up.
HeaderNames ==
    <<"X-Session-ID", "Session-Id", "Session_id", "X-Session-Affinity", "Thread-Id",
      "X-Codex-Thread-Id">>
PayloadNames ==
    <<"session_id", "sessionId", "conversation_id", "conversationId", "thread_id", "threadId">>
TurnNames == <<"session_id", "conversation_id", "thread_id">>

TurnPlaces == {"turn-header", "turn-payload", "turn-client"}
Fields ==
    {<<"host", n>> : n \in {"canonical", "execution", "derived"}}
    \cup ({"header"} \X ToSet(HeaderNames))
    \cup ({"payload", "client"} \X ToSet(PayloadNames))
    \cup (TurnPlaces \X ToSet(TurnNames))
    \cup {<<"payload", "prompt_cache_key">>}

IsRequest(req) ==
    /\ req.field \in [Fields -> Names \cup {NoName, Unfit}]
    /\ req.caller \in Callers \cup {NoName, Unfit}
    /\ req.long \subseteq TurnPlaces

-----------------------------------------------------------------------------
NoIdentity == <<>>

\* normalizeOpaqueIdentifier
Normalized(text) == IF text = Unfit THEN NoName ELSE text
Text(req, place, name) == Normalized(req.field[<<place, name>>])

\* The first of a sequence that is an identity.
FirstOf(identities) ==
    LET some == {j \in DOMAIN identities : identities[j] # NoIdentity}
    IN IF some = {} THEN NoIdentity ELSE identities[Min(some)]

\* One field.
Single(kind, text) == IF text = NoName THEN NoIdentity ELSE <<kind, text>>
Singles(req, place, kind, names) ==
    [j \in DOMAIN names |-> Single(<<kind, names[j]>>, Text(req, place, names[j]))]

\* codexConversationIdentity
Conversation(kind, session, thread) ==
    IF session = NoName /\ thread = NoName THEN NoIdentity
    ELSE <<kind, <<session, thread>>>>

\* codexTurnMetadataIdentity, of metadata that was not dropped for its length.
TurnIdentity_OfPlace(req, place) ==
    IF place \in req.long THEN NoIdentity
    ELSE FirstOf(<<Conversation(<<place>>, Text(req, place, "session_id"),
                                Text(req, place, "thread_id"))>>
                 \o Singles(req, place, place, TurnNames))
TurnIdentity(req, place) ==
    IF place \in req.long THEN NoIdentity
    ELSE FirstOf(<<Conversation(<<"codex-turn">>, Text(req, place, "session_id"),
                                Text(req, place, "thread_id"))>>
                 \o Singles(req, place, "codex-turn", TurnNames))

\* headerSessionIdentity
HeaderIdentity_SinglesFirst(req) ==
    FirstOf(Singles(req, "header", "header", HeaderNames)
            \o <<Conversation(<<"header">>, Text(req, "header", "Session-Id"),
                              Text(req, "header", "Thread-Id")),
                 TurnIdentity(req, "turn-header")>>)
HeaderIdentity(req) ==
    FirstOf(<<Conversation(<<"header">>, Text(req, "header", "Session-Id"),
                           Text(req, "header", "Thread-Id"))>>
            \o Singles(req, "header", "header", HeaderNames)
            \o <<TurnIdentity(req, "turn-header")>>)

\* payloadSessionIdentity
PayloadIdentity(req) ==
    FirstOf(<<Conversation(<<"payload">>, Text(req, "payload", "session_id"),
                           Text(req, "payload", "thread_id"))>>
            \o Singles(req, "payload", "payload", PayloadNames)
            \o <<TurnIdentity(req, "turn-payload"), TurnIdentity(req, "turn-client"),
                 Conversation(<<"client-metadata">>, Text(req, "client", "session_id"),
                              Text(req, "client", "thread_id"))>>
            \o Singles(req, "client", "client-metadata", PayloadNames))

\* requestSessionIdentity
Identity_PayloadFirst(req) ==
    FirstOf(<<Single(<<"canonical">>, Text(req, "host", "canonical")),
              Single(<<"execution">>, Text(req, "host", "execution")),
              PayloadIdentity(req),
              HeaderIdentity(req),
              Single(<<"prompt-cache-key">>, Text(req, "payload", "prompt_cache_key")),
              Single(<<"derived">>, Text(req, "host", "derived"))>>)
Identity(req) ==
    FirstOf(<<Single(<<"canonical">>, Text(req, "host", "canonical")),
              Single(<<"execution">>, Text(req, "host", "execution")),
              HeaderIdentity(req),
              PayloadIdentity(req),
              Single(<<"prompt-cache-key">>, Text(req, "payload", "prompt_cache_key")),
              Single(<<"derived">>, Text(req, "host", "derived"))>>)

\* sessionKeyFromRequest; no identity, no key.
NoKey == <<>>
SessionKey(req) ==
    LET identity == Identity(req)
    IN IF identity = NoIdentity THEN NoKey ELSE <<Normalized(req.caller), identity>>
=============================================================================
