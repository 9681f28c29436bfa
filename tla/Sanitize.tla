------------------------------ MODULE Sanitize -------------------------------
(***************************************************************************)
(* sanitize.go as operators on request bodies: what inspectPayload sees of *)
(* a body, how it names an item, and the two ways to strip one.  Of the    *)
(* JSON are kept the members the code looks at; `rest' stands for all the  *)
(* others of an item.  A digest is the tuple of what it is made from.      *)
(*                                                                         *)
(* A definition with a suffix is the one after it with a mistake in it,    *)
(* and is not used.                                                        *)
(***************************************************************************)
EXTENDS Integers, Sequences

CONSTANTS
    Ids,            \* texts of an item's id
    Contents,       \* texts of its encrypted_content
    Rests,          \* the other members of an item
    NoText,         \* a member that is missing, null or blank
    Odd             \* a member that is not a text

ASSUME TextAssumption ==
    /\ NoText \notin Ids \cup Contents \cup {Odd}
    /\ Odd \notin Ids \cup Contents

BoundKinds == {"reasoning", "compaction"}

\* The type in lower case; "other" is another text, "odd" an item that has no type that
\* could be decoded, such as a number or an array.
Item ==
    [kind : BoundKinds \cup {"other", "odd"}, id : Ids \cup {NoText, Odd},
     content : Contents \cup {NoText, Odd}, rest : Rests]

\* shape: "list" if input is an array, "text" if it is anything else or missing;
\* "garbled" if the body is no JSON object, and "mentions" if in addition it contains one
\* of the words that likelyContainsRouteBoundState looks for.
Shapes == {"list", "text", "garbled", "mentions"}
IsBody(body) ==
    /\ body.shape \in Shapes
    /\ body.prev \in BOOLEAN
    /\ body.input \in Seq(Item)
    /\ body.shape # "list" => body.input = <<>>

-----------------------------------------------------------------------------
\* The items that are in a set, in their order.
Only(items, set) ==
    LET only[n \in 0..Len(items)] ==
            IF n = 0 THEN <<>>
            ELSE IF items[n] \in set THEN Append(only[n - 1], items[n]) ELSE only[n - 1]
    IN only[Len(items)]

\* routeBoundInputItem: id must be a text or missing for the item to be decoded.
IsBound(item) == item.kind \in BoundKinds /\ item.id # Odd

\* An item is named by its id, else by its content, else by all of it.
Fingerprint(item) ==
    CASE item.id # NoText -> <<item.kind, "id", item.id>>
      [] item.id = NoText /\ item.content \in Contents ->
            <<item.kind, "encrypted-content", item.content>>
      [] OTHER -> <<item.kind, "canonical-item", item>>

Parses(body) == body.shape \in {"list", "text"}
LikelyContainsState(body) == body.shape = "mentions"

\* inspectPayload
Bound(body) == Only(body.input, {i \in Item : IsBound(i)})
Fingerprints(body) == {Fingerprint(Bound(body)[i]) : i \in DOMAIN Bound(body)}
HasBoundState(body) == body.prev \/ Bound(body) # <<>>

-----------------------------------------------------------------------------
\* Application data: what no way of stripping may take.
Data == {i \in Item : i.kind \notin BoundKinds}

\* stripRouteBoundState looks at the type of an item only, and only if the inspection
\* saw something.
StripAll_Null(body) ==
    IF ~HasBoundState(body) THEN body
    ELSE [body EXCEPT !.prev = FALSE, !.input = Only(@, Data),
                      !.shape = IF Only(body.input, Data) = <<>> THEN "null" ELSE @]
StripAll_Seen(body) ==
    [body EXCEPT !.prev = FALSE, !.input = Only(@, {i \in Item : ~IsBound(i)})]
StripAll_ListOnly(body) ==
    IF body.shape # "list" \/ ~HasBoundState(body) THEN body
    ELSE [body EXCEPT !.prev = FALSE, !.input = Only(@, Data)]
StripAll_Strange(body) ==
    IF ~HasBoundState(body) THEN body
    ELSE [body EXCEPT !.prev = FALSE, !.input = Only(@, {i \in Item : i.kind = "other"})]
StripAll(body) ==
    IF ~HasBoundState(body) THEN body
    ELSE [body EXCEPT !.prev = FALSE, !.input = Only(@, Data)]

\* stripRetiredRouteBoundItems
Retired(blocked) == {i \in Item : IsBound(i) /\ Fingerprint(i) \in blocked}
StripRetired_Response(body, blocked) ==
    [body EXCEPT !.prev = FALSE, !.input = Only(@, Item \ Retired(blocked))]
StripRetired(body, blocked) ==
    [body EXCEPT !.input = Only(@, Item \ Retired(blocked))]
=============================================================================
