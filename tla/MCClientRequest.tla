--------------------------- MODULE MCClientRequest ---------------------------
(* Instances of ClientRequest for TLC. *)
EXTENDS ClientRequest

CONSTANTS a, b, x, m    \* ids, a content, other members

\* Items of both kinds, named in each way, some that share an id across kinds or have an
\* id of the wrong type, and application data that carries the same members.
MCItem(kind, id, content) == [kind |-> kind, id |-> id, content |-> content, rest |-> m]
MCItems ==
    {MCItem("reasoning", a, x), MCItem("reasoning", b, Odd), MCItem("reasoning", NoText, x),
     MCItem("reasoning", NoText, NoText), MCItem("reasoning", Odd, x),
     MCItem("compaction", a, NoText), MCItem("compaction", NoText, x),
     MCItem("other", a, x), MCItem("odd", NoText, NoText)}

\* Where names are in question, one item to strip is enough.
MCPlainItem == {MCItem("reasoning", a, x)}

\* No action or property tells one name or one caller from another.
Symmetry == Permutations(Names) \cup Permutations(Callers)
=============================================================================
