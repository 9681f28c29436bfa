---------------------------- MODULE RequestProofs ----------------------------
(***************************************************************************)
(* Theorems about ClientRequest, for bodies with any number of items, any  *)
(* names, and any number of edits and candidates: what the two ways to     *)
(* strip take and leave, and which key a request gets.                     *)
(***************************************************************************)
EXTENDS ClientRequest, SequenceTheorems, WellFoundedInduction, TLAPS

-----------------------------------------------------------------------------
(* Induction on the length of a sequence.                                  *)

\* A set of natural numbers has a least one.
LEMMA LeastOfNaturals ==
    ASSUME NEW T, T \subseteq Nat, T # {}
    PROVE  \E x \in T : \A y \in T : x <= y
  <1> DEFINE Below == {xy \in Nat \X Nat : xy[1] < xy[2]}
  <1>1. IsWellFoundedOn(Below, Nat)
    BY NatLessThanWellFounded DEF OpToRel
  <1>2. \A x, y \in Nat : x < y => <<x, y>> \in Below
    OBVIOUS
  <1> HIDE DEF Below
  <1>3. PICK x \in T : \A y \in T : <<y, x>> \notin Below
    BY <1>1, WFMin
  <1>4. ASSUME NEW y \in T PROVE x <= y
    <2>1. x \in Nat /\ y \in Nat /\ ~ y < x
      BY <1>2, <1>3, <1>4
    <2> QED
      BY <2>1
  <1> QED
    BY <1>4

\* What holds of 0, and of n + 1 if of n, holds up to any length.
LEMMA UpTo ==
    ASSUME NEW len \in Nat, NEW T, 0 \in T,
           \A n \in 0..(len - 1) : n \in T => n + 1 \in T
    PROVE  0..len \subseteq T
  <1> SUFFICES ASSUME ~ 0..len \subseteq T PROVE FALSE
    OBVIOUS
  <1> DEFINE Missing == (0..len) \ T
  <1>1. Missing \subseteq Nat /\ Missing # {}
    OBVIOUS
  <1> HIDE DEF Missing
  <1>2. PICK n \in Missing : \A m \in Missing : n <= m
    BY <1>1, LeastOfNaturals
  <1>3. n \in 0..len /\ n \notin T /\ n # 0
    BY <1>2 DEF Missing
  <1>4. n - 1 \in 0..(len - 1) /\ n - 1 \notin Missing
    BY <1>2, <1>3
  <1>5. n - 1 \in T
    BY <1>3, <1>4 DEF Missing
  <1> QED
    BY <1>3, <1>4, <1>5

\* What holds of the empty sequence, and of one with an element more, holds of all.
LEMMA BySequence ==
    ASSUME NEW U, NEW T, <<>> \in T,
           \A s \in Seq(U), e \in U : s \in T => Append(s, e) \in T
    PROVE  Seq(U) \subseteq T
  <1> SUFFICES ASSUME NEW wrong \in Seq(U), wrong \notin T PROVE FALSE
    OBVIOUS
  <1> DEFINE Lengths == {Len(s) : s \in Seq(U) \ T}
  <1>1. Lengths \subseteq Nat /\ Lengths # {}
    BY LenProperties
  <1>2. PICK n \in Lengths : \A m \in Lengths : n <= m
    <2> HIDE DEF Lengths
    <2> QED
      BY <1>1, LeastOfNaturals
  <1>3. PICK s \in Seq(U) \ T : Len(s) = n
    BY <1>2
  <1>4. PICK t \in Seq(U), e \in U : s = Append(t, e)
    BY <1>3, SequenceEmptyOrAppend
  <1>5. Len(s) = Len(t) + 1 /\ Len(t) \in Nat
    BY <1>4, AppendProperties, LenProperties
  <1>6. t \in T
    BY <1>2, <1>3, <1>5
  <1> QED
    BY <1>3, <1>4, <1>6

-----------------------------------------------------------------------------
(* The loops that filter the input of a body.                              *)

\* f[n] is what such a loop has kept after n items.
Keeps(s, set, len, f) ==
    f = [n \in 0..len |->
            IF n = 0 THEN <<>>
            ELSE IF s[n] \in set THEN Append(f[n - 1], s[n]) ELSE f[n - 1]]

\* There is such a function, for the recursion goes down.
LEMMA KeepsExists ==
    ASSUME NEW s, NEW set, NEW len \in Nat
    PROVE  \E f : Keeps(s, set, len, f)
  <1> DEFINE T == {m \in Nat : \E f : Keeps(s, set, m, f)}
  <1>1. 0 \in T
    <2> DEFINE f == [n \in 0..0 |-> <<>>]
    <2>1. Keeps(s, set, 0, f)
      BY DEF Keeps
    <2> QED
      BY <2>1
  <1>2. ASSUME NEW m \in 0..(len - 1), m \in T PROVE m + 1 \in T
    <2>1. PICK f : Keeps(s, set, m, f)
      BY <1>2
    <2> DEFINE next == IF s[m + 1] \in set THEN Append(f[m], s[m + 1]) ELSE f[m]
               g == [n \in 0..(m + 1) |-> IF n = m + 1 THEN next ELSE f[n]]
    <2>2. \A n \in 0..m : g[n] = f[n]
      OBVIOUS
    <2>3. \A n \in 0..m :
            f[n] = IF n = 0 THEN <<>>
                   ELSE IF s[n] \in set THEN Append(f[n - 1], s[n]) ELSE f[n - 1]
      BY <2>1 DEF Keeps
    <2>4. g[m + 1] = next
      OBVIOUS
    <2>5. g = [n \in 0..(m + 1) |-> g[n]]
      OBVIOUS
    <2> HIDE DEF g
    <2>6. ASSUME NEW n \in 0..(m + 1)
          PROVE  g[n] = IF n = 0 THEN <<>>
                        ELSE IF s[n] \in set THEN Append(g[n - 1], s[n]) ELSE g[n - 1]
      <3>1. CASE n = 0
        BY <3>1, <2>2, <2>3
      <3>2. CASE n \in 1..m
        <4>1. n - 1 \in 0..m /\ n \in 0..m /\ n # 0
          BY <3>2
        <4> QED
          BY <4>1, <2>2, <2>3
      <3>3. CASE n = m + 1
        <4>1. n - 1 = m /\ g[n - 1] = f[m] /\ n # 0
          BY <3>3, <2>2
        <4> QED
          BY <3>3, <4>1, <2>4
      <3> QED
        BY <3>1, <3>2, <3>3
    <2>7. Keeps(s, set, m + 1, g)
      BY <2>5, <2>6 DEF Keeps
    <2> QED
      BY <2>7
  <1>3. 0..len \subseteq T
    <2> HIDE DEF T
    <2> QED
      BY <1>1, <1>2, UpTo
  <1> QED
    BY <1>3

\* Only is the end of the loop.
LEMMA OnlyKeeps ==
    ASSUME NEW U, NEW s \in Seq(U), NEW set
    PROVE  \E f : Keeps(s, set, Len(s), f) /\ Only(s, set) = f[Len(s)]
  <1>1. \E f : Keeps(s, set, Len(s), f)
    BY KeepsExists, LenProperties
  <1> QED
    BY <1>1 DEF Only, Keeps

\* Of nothing, nothing is left.
LEMMA OnlyEmpty ==
    ASSUME NEW set
    PROVE  Only(<<>>, set) = <<>>
  <1>1. <<>> \in Seq({}) /\ Len(<<>>) = 0
    OBVIOUS
  <1>2. PICK f : Keeps(<<>>, set, 0, f) /\ Only(<<>>, set) = f[0]
    BY <1>1, OnlyKeeps
  <1>3. 0 \in 0..0
    OBVIOUS
  <1> QED
    BY <1>2, <1>3 DEF Keeps

\* The loop does to the last item what it does to each.
LEMMA OnlyAppend ==
    ASSUME NEW U, NEW s \in Seq(U), NEW e \in U, NEW set
    PROVE  Only(Append(s, e), set) =
              IF e \in set THEN Append(Only(s, set), e) ELSE Only(s, set)
  <1> DEFINE t == Append(s, e)
             len == Len(s)
  <1>1. /\ t \in Seq(U) /\ Len(t) = len + 1 /\ len \in Nat /\ t[len + 1] = e
        /\ \A n \in 1..len : t[n] = s[n]
    BY AppendProperties, LenProperties
  <1> HIDE DEF t, len
  <1>2. PICK f : Keeps(s, set, len, f) /\ Only(s, set) = f[len]
    BY OnlyKeeps DEF len
  <1>3. PICK g : Keeps(t, set, len + 1, g) /\ Only(t, set) = g[len + 1]
    BY <1>1, OnlyKeeps
  <1>4. \A n \in 0..len :
          f[n] = IF n = 0 THEN <<>>
                 ELSE IF s[n] \in set THEN Append(f[n - 1], s[n]) ELSE f[n - 1]
    BY <1>2 DEF Keeps
  <1>5. \A n \in 0..(len + 1) :
          g[n] = IF n = 0 THEN <<>>
                 ELSE IF t[n] \in set THEN Append(g[n - 1], t[n]) ELSE g[n - 1]
    BY <1>3 DEF Keeps
  <1> DEFINE Same == {n \in 0..len : g[n] = f[n]}
  <1>6. 0 \in Same
    BY <1>1, <1>4, <1>5
  <1>7. ASSUME NEW n \in 0..(len - 1), n \in Same PROVE n + 1 \in Same
    <2>1. n + 1 \in 0..len /\ n + 1 \in 0..(len + 1) /\ n + 1 # 0 /\ (n + 1) - 1 = n
      BY <1>1
    <2>2. t[n + 1] = s[n + 1]
      BY <1>1
    <2>3. f[n + 1] = IF s[n + 1] \in set THEN Append(f[n], s[n + 1]) ELSE f[n]
      BY <1>4, <2>1
    <2>4. g[n + 1] = IF t[n + 1] \in set THEN Append(g[n], t[n + 1]) ELSE g[n]
      BY <1>5, <2>1
    <2> QED
      BY <1>7, <2>1, <2>2, <2>3, <2>4
  <1>8. g[len] = f[len]
    <2>1. 0..len \subseteq Same
      <3> HIDE DEF Same
      <3> QED
        BY <1>1, <1>6, <1>7, UpTo
    <2> QED
      BY <1>1, <2>1
  <1>9. g[len + 1] = IF e \in set THEN Append(g[len], e) ELSE g[len]
    <2>1. len + 1 \in 0..(len + 1) /\ len + 1 # 0 /\ (len + 1) - 1 = len
      BY <1>1
    <2> QED
      BY <1>1, <1>5, <2>1
  <1> QED
    BY <1>2, <1>3, <1>8, <1>9 DEF t

\* What is kept are the items in the set, all of them.
LEMMA OnlyRange ==
    ASSUME NEW U, NEW s \in Seq(U), NEW set
    PROVE  Only(s, set) \in Seq(U) /\ Range(Only(s, set)) = Range(s) \cap set
  <1> DEFINE T == {t \in Seq(U) : /\ Only(t, set) \in Seq(U)
                                  /\ Range(Only(t, set)) = Range(t) \cap set}
  <1>1. <<>> \in T
    <2>1. <<>> \in Seq(U) /\ Len(<<>>) = 0
      BY EmptySeq
    <2>2. Range(<<>>) = {}
      <3>1. Range(<<>>) = {<<>>[i] : i \in 1..Len(<<>>)}
        BY <2>1, RangeEquality
      <3> QED
        BY <2>1, <3>1
    <2> QED
      BY <2>1, <2>2, OnlyEmpty
  <1>2. ASSUME NEW t \in Seq(U), NEW e \in U, t \in T PROVE Append(t, e) \in T
    <2>1. \A u \in Seq(U) : Range(Append(u, e)) = Range(u) \cup {e}
      <3> SUFFICES ASSUME NEW u \in Seq(U) PROVE Range(Append(u, e)) = Range(u) \cup {e}
        OBVIOUS
      <3>1. /\ Append(u, e) \in Seq(U) /\ Len(Append(u, e)) = Len(u) + 1 /\ Len(u) \in Nat
            /\ \A i \in 1..Len(u) : Append(u, e)[i] = u[i]
            /\ Append(u, e)[Len(u) + 1] = e
        BY AppendProperties, LenProperties
      <3>2. Range(Append(u, e)) = {Append(u, e)[i] : i \in 1..(Len(u) + 1)}
        BY <3>1, RangeEquality
      <3>3. Range(u) = {u[i] : i \in 1..Len(u)}
        BY RangeEquality
      <3>4. 1..(Len(u) + 1) = (1..Len(u)) \cup {Len(u) + 1}
        BY <3>1
      <3> QED
        BY <3>1, <3>2, <3>3, <3>4
    <2>2. Only(t, set) \in Seq(U) /\ Range(Only(t, set)) = Range(t) \cap set
      BY <1>2
    <2>3. CASE e \in set
      <3>1. Only(Append(t, e), set) = Append(Only(t, set), e)
        BY <2>3, OnlyAppend
      <3>2. Append(Only(t, set), e) \in Seq(U) /\ Append(t, e) \in Seq(U)
        BY <2>2, AppendProperties
      <3> QED
        BY <2>1, <2>2, <2>3, <3>1, <3>2
    <2>4. CASE e \notin set
      <3>1. Only(Append(t, e), set) = Only(t, set)
        BY <2>4, OnlyAppend
      <3>2. Append(t, e) \in Seq(U)
        BY AppendProperties
      <3> QED
        BY <2>1, <2>2, <2>4, <3>1, <3>2
    <2> QED
      BY <2>3, <2>4
  <1>3. Seq(U) \subseteq T
    <2> HIDE DEF T
    <2> QED
      BY <1>1, <1>2, BySequence
  <1> QED
    BY <1>3

\* Filtering twice is filtering for both.
LEMMA OnlyTwice ==
    ASSUME NEW U, NEW s \in Seq(U), NEW set1, NEW set2
    PROVE  Only(Only(s, set1), set2) = Only(s, set1 \cap set2)
  <1> DEFINE T == {t \in Seq(U) : Only(Only(t, set1), set2) = Only(t, set1 \cap set2)}
  <1>1. <<>> \in T
    BY OnlyEmpty, EmptySeq
  <1>2. ASSUME NEW t \in Seq(U), NEW e \in U, t \in T PROVE Append(t, e) \in T
    <2>1. Only(t, set1) \in Seq(U) /\ Append(t, e) \in Seq(U)
      BY OnlyRange, AppendProperties
    <2>2. Only(Only(t, set1), set2) = Only(t, set1 \cap set2)
      BY <1>2
    <2>3. CASE e \in set1
      <3>1. Only(Append(t, e), set1) = Append(Only(t, set1), e)
        BY <2>3, OnlyAppend
      <3>2. Only(Append(Only(t, set1), e), set2) =
              IF e \in set2 THEN Append(Only(Only(t, set1), set2), e)
              ELSE Only(Only(t, set1), set2)
        BY <2>1, OnlyAppend
      <3>3. Only(Append(t, e), set1 \cap set2) =
              IF e \in set2 THEN Append(Only(t, set1 \cap set2), e)
              ELSE Only(t, set1 \cap set2)
        BY <2>3, OnlyAppend
      <3>4. Only(Only(Append(t, e), set1), set2) = Only(Append(t, e), set1 \cap set2)
        BY <2>2, <3>1, <3>2, <3>3
      <3> QED
        BY <2>1, <3>4
    <2>4. CASE e \notin set1
      <3>1. Only(Append(t, e), set1) = Only(t, set1)
        BY <2>4, OnlyAppend
      <3>2. Only(Append(t, e), set1 \cap set2) = Only(t, set1 \cap set2)
        BY <2>4, OnlyAppend
      <3> QED
        BY <2>1, <2>2, <3>1, <3>2
    <2> QED
      BY <2>3, <2>4
  <1>3. Seq(U) \subseteq T
    <2> HIDE DEF T
    <2> QED
      BY <1>1, <1>2, BySequence
  <1> QED
    BY <1>3

-----------------------------------------------------------------------------
(* Bodies.                                                                 *)

\* All requests, with the types of their members.
RequestRec ==
    [shape : Shapes, prev : BOOLEAN, input : Seq(Item),
     field : [Fields -> Names \cup {NoName, Unfit}], caller : Callers \cup {NoName, Unfit},
     long : SUBSET TurnPlaces]

\* A request as inspectPayload finds it: only an array has items.
WellFormed(r) == r \in RequestRec /\ (r.shape # "list" => r.input = <<>>)

\* What inspectPayload sees of a body are the items that can be decoded.
LEMMA Inspected ==
    ASSUME NEW r, WellFormed(r)
    PROVE  /\ Range(r.input) \subseteq Item
           /\ Fingerprints(r) = {Fingerprint(i) : i \in {j \in Range(r.input) : IsBound(j)}}
           /\ HasBoundState(r) <=> r.prev \/ \E i \in Range(r.input) : IsBound(i)
  <1>1. r.input \in Seq(Item) /\ Range(r.input) \subseteq Item
    BY RangeOfSeq DEF WellFormed, RequestRec
  <1>2. /\ Bound(r) \in Seq(Item)
        /\ Range(Bound(r)) = Range(r.input) \cap {i \in Item : IsBound(i)}
    BY <1>1, OnlyRange DEF Bound
  <1>3. Range(Bound(r)) = {j \in Range(r.input) : IsBound(j)}
    BY <1>1, <1>2
  <1>4. Fingerprints(r) = {Fingerprint(i) : i \in Range(Bound(r))}
    BY DEF Fingerprints, Range
  <1>5. Bound(r) # <<>> <=> \E i \in Range(r.input) : IsBound(i)
    <2>1. Range(Bound(r)) = {Bound(r)[i] : i \in 1..Len(Bound(r))}
      BY <1>2, RangeEquality
    <2>2. CASE Bound(r) = <<>>
      <3>1. Len(Bound(r)) = 0
        BY <2>2
      <3>2. Range(Bound(r)) = {}
        BY <2>1, <3>1
      <3> QED
        BY <1>3, <2>2, <3>2
    <2>3. CASE Bound(r) # <<>>
      <3>1. Len(Bound(r)) \in Nat \ {0}
        BY <1>2, <2>3, EmptySeq
      <3>2. Bound(r)[1] \in Range(Bound(r))
        BY <2>1, <3>1
      <3> QED
        BY <1>3, <2>3, <3>2
    <2> QED
      BY <2>2, <2>3
  <1> QED
    BY <1>1, <1>3, <1>4, <1>5 DEF HasBoundState

\* stripRouteBoundState takes the response and everything bound away.
LEMMA StrippedOfAll ==
    ASSUME NEW r, WellFormed(r)
    PROVE  /\ WellFormed(StripAll(r))
           /\ HasBoundState(r) => /\ ~StripAll(r).prev
                                  /\ StripAll(r).input = Only(r.input, Data)
           /\ ~HasBoundState(r) => StripAll(r) = r
  <1>1. CASE ~HasBoundState(r)
    BY <1>1 DEF StripAll
  <1>2. CASE HasBoundState(r)
    <2> DEFINE kept == Only(r.input, Data)
    <2>1. r \in RequestRec /\ r.input \in Seq(Item) /\ kept \in Seq(Item)
      BY OnlyRange DEF WellFormed, RequestRec
    <2>2. r.shape # "list" => kept = <<>>
      BY OnlyEmpty DEF WellFormed
    <2>3. StripAll(r) = [r EXCEPT !.prev = FALSE, !.input = kept]
      BY <1>2 DEF StripAll
    <2> HIDE DEF kept
    <2> DEFINE b == [r EXCEPT !.prev = FALSE, !.input = kept]
    <2>4. b \in RequestRec /\ b.shape = r.shape /\ b.prev = FALSE /\ b.input = kept
      BY <2>1 DEF RequestRec
    <2> HIDE DEF b
    <2> QED
      BY <1>2, <2>2, <2>3, <2>4 DEF WellFormed, b, kept
  <1> QED
    BY <1>1, <1>2

\* stripRetiredRouteBoundItems takes the items of the blocked names away.
LEMMA StrippedOfRetired ==
    ASSUME NEW r, WellFormed(r), NEW blocked
    PROVE  /\ WellFormed(StripRetired(r, blocked))
           /\ StripRetired(r, blocked).prev = r.prev
           /\ StripRetired(r, blocked).input = Only(r.input, Item \ Retired(blocked))
  <1> DEFINE kept == Only(r.input, Item \ Retired(blocked))
             b == [r EXCEPT !.input = kept]
  <1>1. r \in RequestRec /\ r.input \in Seq(Item) /\ kept \in Seq(Item)
    BY OnlyRange DEF WellFormed, RequestRec
  <1>2. r.shape # "list" => kept = <<>>
    BY OnlyEmpty DEF WellFormed
  <1>3. StripRetired(r, blocked) = b
    BY DEF StripRetired
  <1>4. b \in RequestRec /\ b.shape = r.shape /\ b.prev = r.prev /\ b.input = kept
    <2> HIDE DEF kept
    <2> QED
      BY <1>1 DEF RequestRec
  <1> HIDE DEF b
  <1> QED
    BY <1>2, <1>3, <1>4 DEF WellFormed

-----------------------------------------------------------------------------
(* The inductive invariant.                                                *)

\* What is decided is what the two ways to strip made of the request, and there was
\* something to strip.
Decided ==
    \/ result.how \in {"pending", "pass", "reject"} /\ result.to = request
    \/ /\ result.how = "strip" /\ HasBoundState(request)
       /\ result.to = StripAll(request)
    \/ /\ result.how = "retired"
       /\ result.blocked \in (SUBSET Fingerprints(request)) \ {{}}
       /\ result.to = StripRetired(request, result.blocked)

\* The request and what is made of it are well-formed, and one is made of the other.
RequestInv ==
    /\ WellFormed(request) /\ WellFormed(result.to)
    /\ edits \in 0..MaxEdits
    /\ Decided

\* What stripRouteBoundState found it removes.
LEMMA StripAllChanges ==
    ASSUME NEW r, WellFormed(r), HasBoundState(r)
    PROVE  StripAll(r) # r
  <1> SUFFICES ASSUME StripAll(r) = r PROVE FALSE
    OBVIOUS
  <1>1. ~r.prev /\ r.input = Only(r.input, Data) /\ r.input \in Seq(Item)
    BY StrippedOfAll DEF WellFormed, RequestRec
  <1>2. PICK i \in Range(r.input) : IsBound(i)
    BY <1>1, Inspected
  <1>3. i \in Data
    BY <1>1, <1>2, OnlyRange
  <1> QED
    BY <1>2, <1>3 DEF Data, IsBound

\* What stripRetiredRouteBoundItems is to remove it finds.
LEMMA StripRetiredChanges ==
    ASSUME NEW r, WellFormed(r), NEW blocked \in (SUBSET Fingerprints(r)) \ {{}}
    PROVE  StripRetired(r, blocked) # r
  <1> SUFFICES ASSUME StripRetired(r, blocked) = r PROVE FALSE
    OBVIOUS
  <1>1. r.input = Only(r.input, Item \ Retired(blocked)) /\ r.input \in Seq(Item)
    BY StrippedOfRetired DEF WellFormed, RequestRec
  <1>2. PICK fingerprint : fingerprint \in blocked
    <2>1. blocked # {}
      OBVIOUS
    <2> QED
      BY <2>1
  <1>3. PICK i \in Range(r.input) : IsBound(i) /\ Fingerprint(i) = fingerprint
    BY <1>2, Inspected
  <1>4. i \in Item /\ i \in Item \ Retired(blocked)
    BY <1>1, <1>3, Inspected, OnlyRange
  <1> QED
    BY <1>2, <1>3, <1>4 DEF Retired

\* The empty request.
LEMMA RequestInvInit == Init => RequestInv
  <1> SUFFICES ASSUME Init PROVE RequestInv
    OBVIOUS
  <1>1. request \in RequestRec /\ request.input = <<>>
    BY DEF Init, RequestRec, Shapes
  <1>2. result.how = "pending" /\ result.to = request
    BY DEF Init, Pending
  <1>3. edits \in 0..MaxEdits
    BY ClientAssumption DEF Init
  <1> QED
    BY <1>1, <1>2, <1>3 DEF RequestInv, WellFormed, Decided

\* A client's edits leave a request to be decided.
LEMMA EditKeeps ==
    ASSUME RequestInv, NEW r, Edited(r), WellFormed(r)
    PROVE  RequestInv'
  <1>1. edits' \in 0..MaxEdits
    BY ClientAssumption DEF Edited, RequestInv
  <1>2. request' = r /\ result'.how = "pending" /\ result'.to = r
    BY DEF Edited
  <1> QED
    BY <1>1, <1>2 DEF RequestInv, WellFormed, Decided

\* Each edit of a client is one of those.
LEMMA ClientKeeps ==
    ASSUME RequestInv,
           AddItem \/ NameResponse \/ Reshape \/ NameField \/ NameCaller \/ GrowMetadata
    PROVE  RequestInv'
  <1>1. request \in RequestRec /\ (request.shape # "list" => request.input = <<>>)
    BY DEF RequestInv, WellFormed
  <1>2. CASE AddItem
    <2>1. PICK item \in Items : Edited([request EXCEPT !.input = Append(@, item)])
      BY <1>2 DEF AddItem
    <2> DEFINE r == [request EXCEPT !.input = Append(@, item)]
    <2>2. Append(request.input, item) \in Seq(Item)
      BY <1>1, ClientAssumption, AppendProperties DEF RequestRec
    <2>3. r \in RequestRec /\ r.shape = "list"
      BY <1>1, <1>2, <2>2 DEF RequestRec, AddItem
    <2> QED
      BY <2>1, <2>3, EditKeeps DEF WellFormed
  <1>3. CASE NameResponse
    <2> DEFINE r == [request EXCEPT !.prev = TRUE]
    <2>1. r \in RequestRec /\ r.shape = request.shape /\ r.input = request.input
      BY <1>1 DEF RequestRec
    <2> QED
      BY <1>1, <1>3, <2>1, EditKeeps DEF WellFormed, NameResponse
  <1>4. CASE Reshape
    <2>1. PICK shape \in Shapes : Edited([request EXCEPT !.shape = shape, !.input = <<>>])
      BY <1>4 DEF Reshape
    <2> DEFINE r == [request EXCEPT !.shape = shape, !.input = <<>>]
    <2>2. <<>> \in Seq(Item)
      BY EmptySeq
    <2>3. r \in RequestRec /\ r.input = <<>>
      BY <1>1, <2>2 DEF RequestRec
    <2> QED
      BY <2>1, <2>3, EditKeeps DEF WellFormed
  <1>5. CASE NameField
    <2>1. PICK f \in Fields, text \in Names \cup {Unfit} :
            Edited([request EXCEPT !.field[f] = text])
      BY <1>5 DEF NameField
    <2> DEFINE r == [request EXCEPT !.field[f] = text]
    <2>2. r \in RequestRec /\ r.shape = request.shape /\ r.input = request.input
      BY <1>1 DEF RequestRec
    <2> QED
      BY <1>1, <2>1, <2>2, EditKeeps DEF WellFormed
  <1>6. CASE NameCaller
    <2>1. PICK text \in Callers \cup {Unfit} : Edited([request EXCEPT !.caller = text])
      BY <1>6 DEF NameCaller
    <2> DEFINE r == [request EXCEPT !.caller = text]
    <2>2. r \in RequestRec /\ r.shape = request.shape /\ r.input = request.input
      BY <1>1 DEF RequestRec
    <2> QED
      BY <1>1, <2>1, <2>2, EditKeeps DEF WellFormed
  <1>7. CASE GrowMetadata
    <2>1. PICK place \in TurnPlaces : Edited([request EXCEPT !.long = @ \cup {place}])
      BY <1>7 DEF GrowMetadata
    <2> DEFINE r == [request EXCEPT !.long = @ \cup {place}]
    <2>2. r \in RequestRec /\ r.shape = request.shape /\ r.input = request.input
      BY <1>1 DEF RequestRec
    <2> QED
      BY <1>1, <2>1, <2>2, EditKeeps DEF WellFormed
  <1> QED
    BY <1>2, <1>3, <1>4, <1>5, <1>6, <1>7

\* The decision is one of Decided, and never a failure; the next candidate's is open.
LEMMA PluginKeeps ==
    ASSUME RequestInv, Unparseable \/ PassOn \/ Strip \/ SelectItems \/ NextCandidate
    PROVE  RequestInv'
  <1>1. WellFormed(request) /\ WellFormed(result.to) /\ edits \in 0..MaxEdits
    BY DEF RequestInv
  <1>2. CASE Unparseable \/ PassOn
    <2>1. PICK how \in {"reject", "pass"} : Intercepted(how, {}, request)
      BY <1>2 DEF Unparseable, PassOn
    <2>2. result'.how = how /\ result'.to = request /\ UNCHANGED <<request, edits>>
      BY <2>1 DEF Intercepted
    <2> QED
      BY <1>1, <2>1, <2>2 DEF RequestInv, WellFormed, Decided
  <1>3. CASE Strip
    <2>1. StripAll(request) # request /\ WellFormed(StripAll(request))
      BY <1>1, <1>3, StripAllChanges, StrippedOfAll DEF Strip
    <2>2. /\ result'.how = "strip" /\ result'.to = StripAll(request)
          /\ UNCHANGED <<request, edits>>
      BY <1>3, <2>1 DEF Strip, Intercepted
    <2>3. Decided'
      BY <1>3, <2>2 DEF Decided, Strip
    <2>4. WellFormed(request') /\ WellFormed(result'.to) /\ edits' \in 0..MaxEdits
      BY <1>1, <2>1, <2>2
    <2> QED
      BY <2>3, <2>4 DEF RequestInv, WellFormed
  <1>4. CASE SelectItems
    <2>1. PICK blocked \in (SUBSET Fingerprints(request)) \ {{}} :
            Intercepted("retired", blocked, StripRetired(request, blocked))
      BY <1>4 DEF SelectItems
    <2>2. /\ StripRetired(request, blocked) # request
          /\ WellFormed(StripRetired(request, blocked))
      BY <1>1, StripRetiredChanges, StrippedOfRetired
    <2>3. /\ result'.how = "retired" /\ result'.to = StripRetired(request, blocked)
          /\ result'.blocked = blocked /\ UNCHANGED <<request, edits>>
      BY <2>1, <2>2 DEF Intercepted
    <2>4. Decided'
      BY <2>3 DEF Decided
    <2>5. WellFormed(request') /\ WellFormed(result'.to) /\ edits' \in 0..MaxEdits
      BY <1>1, <2>2, <2>3
    <2> QED
      BY <2>4, <2>5 DEF RequestInv, WellFormed
  <1>5. CASE NextCandidate
    <2>1. PICK r \in {request, result.to} :
            request' = r /\ result' = [how |-> "pending", blocked |-> {}, to |-> r]
      BY <1>5 DEF NextCandidate
    <2>2. WellFormed(r) /\ edits' = edits /\ result'.how = "pending" /\ result'.to = r
      BY <1>1, <1>5, <2>1 DEF NextCandidate
    <2> QED
      BY <1>1, <2>1, <2>2 DEF RequestInv, WellFormed, Decided
  <1> QED
    BY <1>2, <1>3, <1>4, <1>5

\* RequestInv holds of every request, whatever the client does and how many candidates
\* it meets (InterceptRequestAfterAuth).
THEOREM RequestKept == Spec => []RequestInv
  <1>1. RequestInv /\ [Next]_vars => RequestInv'
    <2> SUFFICES ASSUME RequestInv, [Next]_vars PROVE RequestInv'
      OBVIOUS
    <2>1. CASE Next
      BY <2>1, ClientKeeps, PluginKeeps DEF Next
    <2>2. CASE UNCHANGED vars
      BY <2>2 DEF vars, RequestInv, WellFormed, Decided
    <2> QED
      BY <2>1, <2>2
  <1> QED
    BY <1>1, RequestInvInit, PTL DEF Spec

\* The types of the variables.
THEOREM RequestTypes == Spec => []TypeOK
  <1>1. RequestInv => TypeOK
    <2> SUFFICES ASSUME RequestInv PROVE TypeOK
      OBVIOUS
    <2>1. ASSUME NEW r, WellFormed(r) PROVE IsBody(r) /\ IsRequest(r)
      BY <2>1 DEF WellFormed, RequestRec, IsBody, IsRequest
    <2> QED
      BY <2>1 DEF TypeOK, RequestInv, Decided
  <1> QED
    BY <1>1, RequestKept, PTL

-----------------------------------------------------------------------------
(* What is stripped and what is kept.                                      *)

\* Nothing of a bound type is left by stripRouteBoundState, decodable or not, and no
\* previous_response_id.
THEOREM StripsCleanCorrect == Spec => []StripsClean
  <1>1. RequestInv => StripsClean
    <2> SUFFICES ASSUME RequestInv, result.how = "strip" PROVE StripsClean
      BY DEF StripsClean
    <2>1. /\ ~result.to.prev /\ result.to.input = Only(request.input, Data)
          /\ request.input \in Seq(Item)
      BY StrippedOfAll DEF RequestInv, Decided, WellFormed, RequestRec
    <2>2. Range(result.to.input) \subseteq Data
      BY <2>1, OnlyRange
    <2>3. \A i \in DOMAIN result.to.input : result.to.input[i] \in Data
      BY <2>2 DEF Range
    <2> QED
      BY <2>1, <2>3 DEF StripsClean, Data
  <1> QED
    BY <1>1, RequestKept, PTL

\* reject_sanitize_failure does not happen: what the inspection saw, the two ways to
\* strip find.
THEOREM NeverUnchangedCorrect == Spec => []NeverUnchanged
  <1>1. RequestInv => NeverUnchanged
    BY DEF RequestInv, Decided, NeverUnchanged
  <1> QED
    BY <1>1, RequestKept, PTL

\* stripRetiredRouteBoundItems takes the items of the blocked names, all of them and
\* nothing else, and no response.
THEOREM OnlyRetiredCorrect == Spec => []OnlyRetired
  <1>1. RequestInv => OnlyRetired
    <2> SUFFICES ASSUME RequestInv, result.how = "retired" PROVE OnlyRetired
      BY DEF OnlyRetired
    <2> DEFINE blocked == result.blocked
               to == result.to
    <2>1. /\ WellFormed(request) /\ request.input \in Seq(Item)
          /\ to = StripRetired(request, blocked)
      BY DEF RequestInv, Decided, WellFormed, RequestRec
    <2> HIDE DEF blocked, to
    <2>2. WellFormed(to) /\ to.prev = request.prev
      BY <2>1, StrippedOfRetired
    <2>3. to.input = Only(request.input, Item \ Retired(blocked))
      <3>1. StripRetired(request, blocked).input =
              Only(request.input, Item \ Retired(blocked))
        BY <2>1, StrippedOfRetired
      <3> QED
        BY <2>1, <3>1, Zenon
    <2>4. Range(to.input) = Range(request.input) \cap (Item \ Retired(blocked))
      BY <2>1, <2>3, OnlyRange
    <2>5. Range(request.input) \subseteq Item
      BY <2>1, Inspected
    <2>6. \A i \in Range(request.input) :
            i \in Range(to.input) <=> ~(IsBound(i) /\ Fingerprint(i) \in blocked)
      BY <2>4, <2>5 DEF Retired
    <2>7. /\ Fingerprints(request) =
               {Fingerprint(i) : i \in {j \in Range(request.input) : IsBound(j)}}
          /\ Fingerprints(to) = {Fingerprint(i) : i \in {j \in Range(to.input) : IsBound(j)}}
      BY <2>1, <2>2, Inspected
    <2>8. Fingerprints(to) = Fingerprints(request) \ blocked
      BY <2>4, <2>6, <2>7
    <2> QED
      BY <2>2, <2>8 DEF OnlyRetired, blocked, to
  <1> QED
    BY <1>1, RequestKept, PTL

\* Application data survives in its order.
THEOREM DataKeptCorrect == Spec => []DataKept
  <1>1. RequestInv => DataKept
    <2> SUFFICES ASSUME RequestInv PROVE DataKept
      OBVIOUS
    <2>1. request.input \in Seq(Item) /\ WellFormed(request)
      BY DEF RequestInv, WellFormed, RequestRec
    <2>2. CASE result.to = request
      BY <2>2 DEF DataKept
    <2>3. CASE result.how = "strip" /\ HasBoundState(request) /\ result.to = StripAll(request)
      <3>1. result.to.input = Only(request.input, Data)
        BY <2>1, <2>3, StrippedOfAll
      <3>2. Data \cap Data = Data
        OBVIOUS
      <3>3. Only(result.to.input, Data) = Only(request.input, Data \cap Data)
        BY <2>1, <3>1, OnlyTwice
      <3> QED
        BY <3>2, <3>3, Zenon DEF DataKept
    <2>4. CASE result.to = StripRetired(request, result.blocked)
      <3>1. result.to.input = Only(request.input, Item \ Retired(result.blocked))
        <4>1. StripRetired(request, result.blocked).input =
                Only(request.input, Item \ Retired(result.blocked))
          BY <2>1, StrippedOfRetired
        <4> QED
          BY <2>4, <4>1, Zenon
      <3>2. (Item \ Retired(result.blocked)) \cap Data = Data
        BY DEF Data, Retired, IsBound
      <3>3. Only(result.to.input, Data) =
              Only(request.input, (Item \ Retired(result.blocked)) \cap Data)
        BY <2>1, <3>1, OnlyTwice
      <3> QED
        BY <3>2, <3>3, Zenon DEF DataKept
    <2> QED
      BY <2>2, <2>3, <2>4 DEF RequestInv, Decided
  <1> QED
    BY <1>1, RequestKept, PTL

-----------------------------------------------------------------------------
(* The first of a sequence of identities.                                  *)

\* One identity, or the other if there is none.
Or(a, b) == IF a # NoIdentity THEN a ELSE b

\* The first identity is one with none before it.
LEMMA FirstOfAt ==
    ASSUME NEW U, NEW s \in Seq(U), NEW j \in 1..Len(s), s[j] # NoIdentity,
           \A i \in 1..(j - 1) : s[i] = NoIdentity
    PROVE  FirstOf(s) = s[j]
  <1> DEFINE some == {i \in DOMAIN s : s[i] # NoIdentity}
  <1>1. DOMAIN s = 1..Len(s) /\ Len(s) \in Nat
    BY LenProperties
  <1>2. j \in some /\ some \subseteq Nat /\ \A i \in some : j <= i
    BY <1>1
  <1>3. FirstOf(s) = IF some = {} THEN NoIdentity ELSE s[Min(some)]
    BY DEF FirstOf
  <1> HIDE DEF some
  <1>4. \A i \in some : (\A h \in some : i <= h) => i = j
    BY <1>2
  <1>5. Min(some) = j
    BY <1>2, <1>4 DEF Min
  <1> QED
    BY <1>2, <1>3, <1>5

\* Without an identity there is no first one.
LEMMA FirstOfNone ==
    ASSUME NEW U, NEW s \in Seq(U), \A i \in 1..Len(s) : s[i] = NoIdentity
    PROVE  FirstOf(s) = NoIdentity
  <1>1. DOMAIN s = 1..Len(s)
    BY LenProperties
  <1>2. {i \in DOMAIN s : s[i] # NoIdentity} = {}
    BY <1>1
  <1> QED
    BY <1>2 DEF FirstOf

\* A sequence has an identity with none before it, or none at all.
LEMMA FirstOrNone ==
    ASSUME NEW U, NEW s \in Seq(U)
    PROVE  \/ \A i \in 1..Len(s) : s[i] = NoIdentity
           \/ \E j \in 1..Len(s) : /\ s[j] # NoIdentity
                                   /\ \A i \in 1..(j - 1) : s[i] = NoIdentity
  <1> DEFINE some == {i \in 1..Len(s) : s[i] # NoIdentity}
  <1>1. Len(s) \in Nat
    BY LenProperties
  <1> SUFFICES ASSUME some # {}
               PROVE  \E j \in 1..Len(s) : /\ s[j] # NoIdentity
                                           /\ \A i \in 1..(j - 1) : s[i] = NoIdentity
    OBVIOUS
  <1>2. PICK j \in some : \A i \in some : j <= i
    <2>1. some \subseteq Nat
      BY <1>1
    <2> HIDE DEF some
    <2> QED
      BY <2>1, LeastOfNaturals
  <1>3. \A i \in 1..(j - 1) : i \notin some /\ i \in 1..Len(s)
    BY <1>1, <1>2
  <1> QED
    BY <1>2, <1>3

\* Of two sequences, the first identity is one of the first sequence if it has any.
LEMMA FirstOfConcat ==
    ASSUME NEW U, NEW s \in Seq(U), NEW t \in Seq(U)
    PROVE  FirstOf(s \o t) = Or(FirstOf(s), FirstOf(t))
  <1> DEFINE st == s \o t
  <1>1. /\ Len(s) \in Nat /\ Len(t) \in Nat /\ st \in Seq(U) /\ Len(st) = Len(s) + Len(t)
        /\ \A i \in 1..(Len(s) + Len(t)) : st[i] = IF i <= Len(s) THEN s[i] ELSE t[i - Len(s)]
    BY ConcatProperties, LenProperties
  <1> HIDE DEF st
  <1>2. ASSUME NEW j \in 1..Len(s), s[j] # NoIdentity,
               \A i \in 1..(j - 1) : s[i] = NoIdentity
        PROVE  FirstOf(st) = Or(FirstOf(s), FirstOf(t))
    <2>1. j \in 1..Len(st) /\ st[j] = s[j] /\ \A i \in 1..(j - 1) : st[i] = s[i]
      BY <1>1
    <2>2. FirstOf(s) = s[j]
      BY <1>2, FirstOfAt
    <2>3. FirstOf(st) = st[j]
      BY <1>1, <1>2, <2>1, FirstOfAt
    <2> QED
      BY <1>2, <2>1, <2>2, <2>3 DEF Or
  <1>3. ASSUME \A i \in 1..Len(s) : s[i] = NoIdentity
        PROVE  FirstOf(st) = Or(FirstOf(s), FirstOf(t))
    <2>1. FirstOf(s) = NoIdentity
      BY <1>3, FirstOfNone
    <2>2. ASSUME \A i \in 1..Len(t) : t[i] = NoIdentity
          PROVE  FirstOf(st) = FirstOf(t)
      <3>1. ASSUME NEW i \in 1..Len(st) PROVE st[i] = NoIdentity
        <4>1. CASE i <= Len(s)
          <5>1. i \in 1..Len(s) /\ i \in 1..(Len(s) + Len(t))
            BY <1>1, <4>1
          <5> QED
            BY <1>1, <1>3, <4>1, <5>1
        <4>2. CASE ~ i <= Len(s)
          <5>1. i - Len(s) \in 1..Len(t) /\ i \in 1..(Len(s) + Len(t))
            BY <1>1, <4>2
          <5> QED
            BY <1>1, <2>2, <4>2, <5>1
        <4> QED
          BY <4>1, <4>2
      <3> QED
        BY <1>1, <2>2, <3>1, FirstOfNone
    <2>3. ASSUME NEW j \in 1..Len(t), t[j] # NoIdentity,
                 \A i \in 1..(j - 1) : t[i] = NoIdentity
          PROVE  FirstOf(st) = FirstOf(t)
      <3> DEFINE k == Len(s) + j
      <3>1. k \in 1..Len(st) /\ st[k] = t[j]
        <4>1. k \in 1..(Len(s) + Len(t)) /\ ~ k <= Len(s) /\ k - Len(s) = j
          BY <1>1
        <4> HIDE DEF k
        <4> QED
          BY <1>1, <4>1
      <3>2. ASSUME NEW i \in 1..(k - 1) PROVE st[i] = NoIdentity
        <4>1. CASE i <= Len(s)
          <5>1. i \in 1..Len(s) /\ i \in 1..(Len(s) + Len(t))
            BY <1>1, <4>1
          <5> QED
            BY <1>1, <1>3, <4>1, <5>1
        <4>2. CASE ~ i <= Len(s)
          <5>1. i - Len(s) \in 1..(j - 1) /\ i \in 1..(Len(s) + Len(t))
            BY <1>1, <4>2
          <5> QED
            BY <1>1, <2>3, <4>2, <5>1
        <4> QED
          BY <4>1, <4>2
      <3>3. FirstOf(t) = t[j]
        BY <2>3, FirstOfAt
      <3> HIDE DEF k
      <3>4. FirstOf(st) = st[k]
        BY <1>1, <2>3, <3>1, <3>2, FirstOfAt
      <3> QED
        BY <3>1, <3>3, <3>4
    <2>4. FirstOf(st) = FirstOf(t)
      BY <2>2, <2>3, FirstOrNone
    <2> QED
      BY <2>1, <2>4 DEF Or
  <1>4. FirstOf(st) = Or(FirstOf(s), FirstOf(t))
    BY <1>2, <1>3, FirstOrNone
  <1> QED
    BY <1>4 DEF st

\* One lookup alone.
LEMMA FirstOfOne ==
    ASSUME NEW a
    PROVE  FirstOf(<<a>>) = a
  <1> DEFINE s == <<a>>
  <1>1. s \in Seq({a}) /\ Len(s) = 1 /\ s[1] = a
    OBVIOUS
  <1> HIDE DEF s
  <1>2. ASSUME a # NoIdentity PROVE FirstOf(s) = a
    <2>1. 1 \in 1..Len(s) /\ s[1] # NoIdentity /\ \A i \in 1..(1 - 1) : s[i] = NoIdentity
      BY <1>1, <1>2
    <2> QED
      BY <1>1, <2>1, FirstOfAt
  <1>3. ASSUME a = NoIdentity PROVE FirstOf(s) = a
    <2>1. \A i \in 1..Len(s) : s[i] = NoIdentity
      BY <1>1, <1>3
    <2> QED
      BY <1>1, <1>3, <2>1, FirstOfNone
  <1>4. FirstOf(s) = a
    BY <1>2, <1>3
  <1> QED
    BY <1>4 DEF s

\* Two identities and a third, grouped either way.
LEMMA OrAssociates ==
    ASSUME NEW a, NEW b, NEW c
    PROVE  Or(Or(a, b), c) = Or(a, Or(b, c))
  BY DEF Or

\* Three lookups, as in the middle of payloadSessionIdentity.
LEMMA FirstOfThree ==
    ASSUME NEW a, NEW b, NEW c
    PROVE  FirstOf(<<a, b, c>>) = Or(a, Or(b, c))
  <1> DEFINE s == <<a, b, c>>
             U == {a, b, c}
  <1>1. s \in Seq(U) /\ Len(s) = 3 /\ s[1] = a /\ s[2] = b /\ s[3] = c
    OBVIOUS
  <1> HIDE DEF s, U
  <1>2. ASSUME a # NoIdentity PROVE FirstOf(s) = a
    <2>1. 1 \in 1..Len(s) /\ s[1] # NoIdentity /\ \A i \in 1..(1 - 1) : s[i] = NoIdentity
      BY <1>1, <1>2
    <2> QED
      BY <1>1, <2>1, FirstOfAt
  <1>3. ASSUME a = NoIdentity, b # NoIdentity PROVE FirstOf(s) = b
    <2>1. 2 \in 1..Len(s) /\ s[2] # NoIdentity /\ \A i \in 1..(2 - 1) : s[i] = NoIdentity
      BY <1>1, <1>3
    <2> QED
      BY <1>1, <2>1, FirstOfAt
  <1>4. ASSUME a = NoIdentity, b = NoIdentity, c # NoIdentity PROVE FirstOf(s) = c
    <2>1. 3 \in 1..Len(s) /\ s[3] # NoIdentity /\ \A i \in 1..(3 - 1) : s[i] = NoIdentity
      BY <1>1, <1>4
    <2> QED
      BY <1>1, <2>1, FirstOfAt
  <1>5. ASSUME a = NoIdentity, b = NoIdentity, c = NoIdentity PROVE FirstOf(s) = NoIdentity
    <2>1. \A i \in 1..Len(s) : s[i] = NoIdentity
      BY <1>1, <1>5
    <2> QED
      BY <1>1, <2>1, FirstOfNone
  <1>6. FirstOf(s) = Or(a, Or(b, c))
    BY <1>2, <1>3, <1>4, <1>5, Zenon DEF Or
  <1> QED
    BY <1>6 DEF s

\* Six lookups, as in requestSessionIdentity.
LEMMA FirstOfSix ==
    ASSUME NEW a, NEW b, NEW c, NEW d, NEW e, NEW f
    PROVE  FirstOf(<<a, b, c, d, e, f>>) = Or(a, Or(b, Or(c, Or(d, Or(e, f)))))
  <1> DEFINE U == {a, b, c, d, e, f}
             s == <<a, b, c>>
             t == <<d, e, f>>
  <1>1. s \in Seq(U) /\ t \in Seq(U)
    OBVIOUS
  <1>2. <<a, b, c, d, e, f>> = s \o t
    BY DEF s, t
  <1>3. FirstOf(s) = Or(a, Or(b, c)) /\ FirstOf(t) = Or(d, Or(e, f))
    BY FirstOfThree
  <1> HIDE DEF s, t, U
  <1>4. FirstOf(s \o t) = Or(Or(a, Or(b, c)), Or(d, Or(e, f)))
    BY <1>1, <1>3, FirstOfConcat
  <1>5. Or(Or(a, Or(b, c)), Or(d, Or(e, f))) = Or(a, Or(b, Or(c, Or(d, Or(e, f)))))
    BY OrAssociates
  <1> QED
    BY <1>2, <1>4, <1>5, Zenon

-----------------------------------------------------------------------------
(* What a request is called at one place, and at all of them in turn.      *)

\* What the code finds in the fields: a name, or nothing.
Found(req) ==
    [f \in Fields |-> IF f[1] \in req.long THEN NoName ELSE Normalized(req.field[f])]

\* The fields of one place: session and thread together, else the names one by one.
Named(found, place, kind, names, session, thread) ==
    FirstOf(<<Conversation(<<kind>>, found[<<place, session>>], found[<<place, thread>>])>>
            \o [j \in DOMAIN names |-> Single(<<kind, names[j]>>, found[<<place, names[j]>>])])

\* Two places, or two requests, that hold the same names name the same conversation.
LEMMA NamedSame ==
    ASSUME NEW q, NEW r, NEW p, NEW o, NEW kind, NEW U, NEW names \in Seq(U),
           NEW session \in ToSet(names), NEW thread \in ToSet(names),
           \A n \in ToSet(names) : q[<<p, n>>] = r[<<o, n>>]
    PROVE  Named(q, p, kind, names, session, thread) = Named(r, o, kind, names, session, thread)
  <1> DEFINE A == [j \in DOMAIN names |-> Single(<<kind, names[j]>>, q[<<p, names[j]>>])]
             B == [j \in DOMAIN names |-> Single(<<kind, names[j]>>, r[<<o, names[j]>>])]
  <1>1. \A j \in DOMAIN names : names[j] \in ToSet(names)
    BY DEF ToSet
  <1>2. A = B
    BY <1>1
  <1>3. q[<<p, session>>] = r[<<o, session>>] /\ q[<<p, thread>>] = r[<<o, thread>>]
    OBVIOUS
  <1> HIDE DEF A, B
  <1>4. FirstOf(<<Conversation(<<kind>>, q[<<p, session>>], q[<<p, thread>>])>> \o A)
        = FirstOf(<<Conversation(<<kind>>, r[<<o, session>>], r[<<o, thread>>])>> \o B)
    BY <1>2, <1>3, Zenon
  <1> QED
    BY <1>4, Zenon DEF Named, A, B

\* The pair of a place is asked before its single names.
LEMMA NamedSplits ==
    ASSUME NEW found, NEW p, NEW kind, NEW U, NEW names \in Seq(U), NEW session, NEW thread
    PROVE  Named(found, p, kind, names, session, thread)
           = Or(Conversation(<<kind>>, found[<<p, session>>], found[<<p, thread>>]),
                FirstOf([j \in DOMAIN names |->
                            Single(<<kind, names[j]>>, found[<<p, names[j]>>])]))
  <1> DEFINE c == Conversation(<<kind>>, found[<<p, session>>], found[<<p, thread>>])
             A == [j \in DOMAIN names |-> Single(<<kind, names[j]>>, found[<<p, names[j]>>])]
             W == {c} \cup {A[j] : j \in DOMAIN names}
  <1>1. DOMAIN names = 1..Len(names) /\ Len(names) \in Nat
    BY LenProperties
  <1>2. A = [j \in 1..Len(names) |-> A[j]] /\ \A j \in 1..Len(names) : A[j] \in W
    BY <1>1
  <1>3. c \in W
    OBVIOUS
  <1>4. Named(found, p, kind, names, session, thread) = FirstOf(<<c>> \o A)
    BY Zenon DEF Named
  <1> HIDE DEF A, c, W
  <1>5. A \in Seq(W) /\ <<c>> \in Seq(W)
    BY <1>1, <1>2, <1>3
  <1>6. FirstOf(<<c>> \o A) = Or(FirstOf(<<c>>), FirstOf(A))
    BY <1>5, FirstOfConcat
  <1>7. Named(found, p, kind, names, session, thread) = Or(c, FirstOf(A))
    BY <1>4, <1>6, FirstOfOne
  <1> QED
    BY <1>7 DEF A, c

\* A thread that is named decides, together with the session.
LEMMA NamedThread ==
    ASSUME NEW found, NEW p, NEW kind, NEW U, NEW names \in Seq(U), NEW session, NEW thread,
           found[<<p, thread>>] # NoName
    PROVE  Named(found, p, kind, names, session, thread)
           = <<<<kind>>, <<found[<<p, session>>], found[<<p, thread>>]>>>>
  <1> DEFINE A == [j \in DOMAIN names |-> Single(<<kind, names[j]>>, found[<<p, names[j]>>])]
             c == <<<<kind>>, <<found[<<p, session>>], found[<<p, thread>>]>>>>
  <1>1. Conversation(<<kind>>, found[<<p, session>>], found[<<p, thread>>]) = c
    BY Zenon DEF Conversation
  <1>2. c # NoIdentity
    BY DEF NoIdentity
  <1>3. Named(found, p, kind, names, session, thread) = Or(c, FirstOf(A))
    BY <1>1, NamedSplits
  <1> HIDE DEF A, c
  <1>4. Or(c, FirstOf(A)) = c
    BY <1>2 DEF Or
  <1> QED
    BY <1>3, <1>4 DEF c

\* A place names nothing exactly if all of its fields are empty.
LEMMA NamedNone ==
    ASSUME NEW found, NEW p, NEW kind, NEW U, NEW names \in Seq(U),
           NEW session \in ToSet(names), NEW thread \in ToSet(names)
    PROVE  Named(found, p, kind, names, session, thread) = NoIdentity
           <=> \A n \in ToSet(names) : found[<<p, n>>] = NoName
  <1> DEFINE A == [j \in DOMAIN names |-> Single(<<kind, names[j]>>, found[<<p, names[j]>>])]
             c == Conversation(<<kind>>, found[<<p, session>>], found[<<p, thread>>])
             W == {A[j] : j \in DOMAIN names}
  <1>1. DOMAIN names = 1..Len(names) /\ Len(names) \in Nat
    BY LenProperties
  <1>2. \A n \in ToSet(names) : \E j \in 1..Len(names) : n = names[j]
    BY <1>1 DEF ToSet
  <1>3. \A j \in 1..Len(names) : names[j] \in ToSet(names)
    BY <1>1 DEF ToSet
  <1>4. A = [j \in 1..Len(names) |-> A[j]] /\ \A j \in 1..Len(names) : A[j] \in W
    BY <1>1
  <1>5. \A j \in 1..Len(names) : A[j] = Single(<<kind, names[j]>>, found[<<p, names[j]>>])
    BY <1>1
  <1>6. \A j \in 1..Len(names) : A[j] = NoIdentity <=> found[<<p, names[j]>>] = NoName
    BY <1>5 DEF Single, NoIdentity
  <1>7. c = NoIdentity <=> found[<<p, session>>] = NoName /\ found[<<p, thread>>] = NoName
    BY DEF Conversation, NoIdentity
  <1>8. Named(found, p, kind, names, session, thread) = Or(c, FirstOf(A))
    BY NamedSplits
  <1> HIDE DEF A, c, W
  <1>9. A \in Seq(W) /\ Len(A) = Len(names)
    BY <1>1, <1>4
  <1>10. FirstOf(A) = NoIdentity <=> \A j \in 1..Len(names) : A[j] = NoIdentity
    <2>1. (\A j \in 1..Len(A) : A[j] = NoIdentity) => FirstOf(A) = NoIdentity
      BY <1>9, FirstOfNone
    <2>2. ASSUME NEW j \in 1..Len(A), A[j] # NoIdentity,
                 \A i \in 1..(j - 1) : A[i] = NoIdentity
          PROVE  FirstOf(A) # NoIdentity
      BY <1>9, <2>2, FirstOfAt
    <2> QED
      BY <1>9, <2>1, <2>2, FirstOrNone
  <1>11. Or(c, FirstOf(A)) = NoIdentity <=> c = NoIdentity /\ FirstOf(A) = NoIdentity
    BY DEF Or
  <1>12. (\A j \in 1..Len(names) : A[j] = NoIdentity)
         <=> \A n \in ToSet(names) : found[<<p, n>>] = NoName
    <2>1. ASSUME \A j \in 1..Len(names) : A[j] = NoIdentity, NEW n \in ToSet(names)
          PROVE  found[<<p, n>>] = NoName
      BY <1>2, <1>6, <2>1
    <2>2. ASSUME \A n \in ToSet(names) : found[<<p, n>>] = NoName, NEW j \in 1..Len(names)
          PROVE  A[j] = NoIdentity
      BY <1>3, <1>6, <2>2
    <2> QED
      BY <2>1, <2>2, Zenon
  <1> QED
    BY <1>7, <1>8, <1>10, <1>11, <1>12

\* The places in the order in which the code asks them.
TurnAt(found, place) ==
    Named(found, place, "codex-turn", TurnNames, "session_id", "thread_id")
\* What the fields of rank k name.
Part(found, k) ==
    CASE k = 1 -> Single(<<"canonical">>, found[<<"host", "canonical">>])
      [] k = 2 -> Single(<<"execution">>, found[<<"host", "execution">>])
      [] k = 3 -> Named(found, "header", "header", HeaderNames, "Session-Id", "Thread-Id")
      [] k = 4 -> TurnAt(found, "turn-header")
      [] k = 5 -> Named(found, "payload", "payload", PayloadNames, "session_id", "thread_id")
      [] k = 6 -> TurnAt(found, "turn-payload")
      [] k = 7 -> TurnAt(found, "turn-client")
      [] k = 8 -> Named(found, "client", "client-metadata", PayloadNames,
                        "session_id", "thread_id")
      [] k = 9 -> Single(<<"prompt-cache-key">>, found[<<"payload", "prompt_cache_key">>])
      [] k = 10 -> Single(<<"derived">>, found[<<"host", "derived">>])

\* The names that the code knows.
LEMMA KnownNames ==
    /\ HeaderNames \in Seq(ToSet(HeaderNames)) /\ PayloadNames \in Seq(ToSet(PayloadNames))
    /\ TurnNames \in Seq(ToSet(TurnNames))
    /\ ToSet(HeaderNames) = {"X-Session-ID", "Session-Id", "Session_id", "X-Session-Affinity",
                             "Thread-Id", "X-Codex-Thread-Id"}
    /\ ToSet(PayloadNames) = {"session_id", "sessionId", "conversation_id", "conversationId",
                              "thread_id", "threadId"}
    /\ ToSet(TurnNames) = {"session_id", "conversation_id", "thread_id"}
  <1>2. ToSet(HeaderNames) = {"X-Session-ID", "Session-Id", "Session_id", "X-Session-Affinity",
                              "Thread-Id", "X-Codex-Thread-Id"}
    <2>1. DOMAIN HeaderNames = {1, 2, 3, 4, 5, 6}
      BY DEF HeaderNames
    <2> QED
      BY <2>1 DEF HeaderNames, ToSet
  <1>3. ToSet(PayloadNames) = {"session_id", "sessionId", "conversation_id", "conversationId",
                               "thread_id", "threadId"}
    <2>1. DOMAIN PayloadNames = {1, 2, 3, 4, 5, 6}
      BY DEF PayloadNames
    <2> QED
      BY <2>1 DEF PayloadNames, ToSet
  <1>4. ToSet(TurnNames) = {"session_id", "conversation_id", "thread_id"}
    <2>1. DOMAIN TurnNames = {1, 2, 3}
      BY DEF TurnNames
    <2> QED
      BY <2>1 DEF TurnNames, ToSet
  <1>5. HeaderNames \in Seq(ToSet(HeaderNames))
    BY <1>2 DEF HeaderNames
  <1>6. PayloadNames \in Seq(ToSet(PayloadNames))
    BY <1>3 DEF PayloadNames
  <1>7. TurnNames \in Seq(ToSet(TurnNames))
    BY <1>4 DEF TurnNames
  <1> QED
    BY <1>2, <1>3, <1>4, <1>5, <1>6, <1>7

\* The fields of every rank.
OfRank(k) ==
    CASE k = 1 -> {<<"host", "canonical">>}
      [] k = 2 -> {<<"host", "execution">>}
      [] k = 3 -> {"header"} \X ToSet(HeaderNames)
      [] k = 4 -> {"turn-header"} \X ToSet(TurnNames)
      [] k = 5 -> {"payload"} \X ToSet(PayloadNames)
      [] k = 6 -> {"turn-payload"} \X ToSet(TurnNames)
      [] k = 7 -> {"turn-client"} \X ToSet(TurnNames)
      [] k = 8 -> {"client"} \X ToSet(PayloadNames)
      [] k = 9 -> {<<"payload", "prompt_cache_key">>}
      [] k = 10 -> {<<"host", "derived">>}

\* The same, one equation for every rank.
LEMMA RankSets ==
    /\ OfRank(1) = {<<"host", "canonical">>} /\ OfRank(2) = {<<"host", "execution">>}
    /\ OfRank(3) = {"header"} \X ToSet(HeaderNames)
    /\ OfRank(4) = {"turn-header"} \X ToSet(TurnNames)
    /\ OfRank(5) = {"payload"} \X ToSet(PayloadNames)
    /\ OfRank(6) = {"turn-payload"} \X ToSet(TurnNames)
    /\ OfRank(7) = {"turn-client"} \X ToSet(TurnNames)
    /\ OfRank(8) = {"client"} \X ToSet(PayloadNames)
    /\ OfRank(9) = {<<"payload", "prompt_cache_key">>} /\ OfRank(10) = {<<"host", "derived">>}
  BY DEF OfRank

\* Every field has a rank, the one of its place.
LEMMA FieldHasRank ==
    ASSUME NEW f \in Fields
    PROVE  Rank(f) \in 1..10 /\ f \in OfRank(Rank(f))
  <1>1. CASE f = <<"host", "canonical">>
    <2>1. Rank(f) = 1
      BY <1>1 DEF Rank
    <2> QED
      BY <1>1, <2>1, RankSets
  <1>2. CASE f = <<"host", "execution">>
    <2>1. Rank(f) = 2
      BY <1>2 DEF Rank
    <2> QED
      BY <1>2, <2>1, RankSets
  <1>3. CASE f = <<"host", "derived">>
    <2>1. Rank(f) = 10
      BY <1>3 DEF Rank
    <2> QED
      BY <1>3, <2>1, RankSets
  <1>4. CASE f = <<"payload", "prompt_cache_key">>
    <2>1. Rank(f) = 9
      BY <1>4 DEF Rank
    <2> QED
      BY <1>4, <2>1, RankSets
  <1>5. ASSUME NEW n \in ToSet(HeaderNames), f = <<"header", n>>
        PROVE  Rank(f) = 3 /\ f \in OfRank(3)
    BY <1>5, RankSets DEF Rank
  <1>6. ASSUME NEW n \in ToSet(PayloadNames), f = <<"payload", n>>
        PROVE  Rank(f) = 5 /\ f \in OfRank(5)
    <2>1. n # "prompt_cache_key"
      BY KnownNames
    <2> QED
      BY <1>6, <2>1, RankSets DEF Rank
  <1>7. ASSUME NEW n \in ToSet(PayloadNames), f = <<"client", n>>
        PROVE  Rank(f) = 8 /\ f \in OfRank(8)
    BY <1>7, RankSets DEF Rank
  <1>8. ASSUME NEW n \in ToSet(TurnNames), f = <<"turn-header", n>>
        PROVE  Rank(f) = 4 /\ f \in OfRank(4)
    BY <1>8, RankSets DEF Rank
  <1>9. ASSUME NEW n \in ToSet(TurnNames), f = <<"turn-payload", n>>
        PROVE  Rank(f) = 6 /\ f \in OfRank(6)
    BY <1>9, RankSets DEF Rank
  <1>10. ASSUME NEW n \in ToSet(TurnNames), f = <<"turn-client", n>>
         PROVE  Rank(f) = 7 /\ f \in OfRank(7)
    BY <1>10, RankSets DEF Rank
  <1> QED
    BY <1>1, <1>2, <1>3, <1>4, <1>5, <1>6, <1>7, <1>8, <1>9, <1>10 DEF Fields, TurnPlaces

\* And the fields of a rank have no other.
LEMMA RankHasFields ==
    ASSUME NEW k \in 1..10, NEW f \in OfRank(k)
    PROVE  f \in Fields /\ Rank(f) = k
  <1>1. CASE k \in {1, 2, 9, 10}
    BY <1>1, RankSets DEF Fields, Rank
  <1>2. CASE k = 3
    BY <1>2, RankSets DEF Fields, Rank
  <1>3. CASE k = 8
    BY <1>3, RankSets DEF Fields, Rank
  <1>4. CASE k = 5
    <2>1. f \in {"payload"} \X ToSet(PayloadNames) /\ f[2] # "prompt_cache_key"
      BY <1>4, KnownNames, RankSets
    <2> QED
      BY <1>4, <2>1 DEF Fields, Rank
  <1>5. CASE k = 4
    BY <1>5, RankSets DEF Fields, Rank, TurnPlaces
  <1>6. CASE k = 6
    BY <1>6, RankSets DEF Fields, Rank, TurnPlaces
  <1>7. CASE k = 7
    BY <1>7, RankSets DEF Fields, Rank, TurnPlaces
  <1> QED
    BY <1>1, <1>2, <1>3, <1>4, <1>5, <1>6, <1>7

\* What the ranks name, one equation for every rank.
LEMMA PartsAre ==
    ASSUME NEW found
    PROVE  /\ Part(found, 1) = Single(<<"canonical">>, found[<<"host", "canonical">>])
           /\ Part(found, 2) = Single(<<"execution">>, found[<<"host", "execution">>])
           /\ Part(found, 3)
              = Named(found, "header", "header", HeaderNames, "Session-Id", "Thread-Id")
           /\ Part(found, 4) = TurnAt(found, "turn-header")
           /\ Part(found, 5)
              = Named(found, "payload", "payload", PayloadNames, "session_id", "thread_id")
           /\ Part(found, 6) = TurnAt(found, "turn-payload")
           /\ Part(found, 7) = TurnAt(found, "turn-client")
           /\ Part(found, 8) = Named(found, "client", "client-metadata", PayloadNames,
                                     "session_id", "thread_id")
           /\ Part(found, 9)
              = Single(<<"prompt-cache-key">>, found[<<"payload", "prompt_cache_key">>])
           /\ Part(found, 10) = Single(<<"derived">>, found[<<"host", "derived">>])
  BY DEF Part

\* A rank names nothing exactly if its fields are all empty.
LEMMA PartNone ==
    ASSUME NEW found, NEW k \in 1..10
    PROVE  Part(found, k) = NoIdentity <=> \A f \in OfRank(k) : found[f] = NoName
  <1> DEFINE None(i) == Part(found, i) = NoIdentity
                        <=> \A f \in OfRank(i) : found[f] = NoName
  <1>1. \A kind, text : Single(kind, text) = NoIdentity <=> text = NoName
    BY DEF Single, NoIdentity
  <1>2. None(1) /\ None(2) /\ None(9) /\ None(10)
    BY <1>1, PartsAre, RankSets
  <1>3. "Session-Id" \in ToSet(HeaderNames) /\ "Thread-Id" \in ToSet(HeaderNames)
        /\ "session_id" \in ToSet(PayloadNames) /\ "thread_id" \in ToSet(PayloadNames)
        /\ "session_id" \in ToSet(TurnNames) /\ "thread_id" \in ToSet(TurnNames)
        /\ HeaderNames \in Seq(ToSet(HeaderNames)) /\ PayloadNames \in Seq(ToSet(PayloadNames))
        /\ TurnNames \in Seq(ToSet(TurnNames))
    BY KnownNames
  <1>4. None(3)
    <2>1. Named(found, "header", "header", HeaderNames, "Session-Id", "Thread-Id") = NoIdentity
          <=> \A n \in ToSet(HeaderNames) : found[<<"header", n>>] = NoName
      BY <1>3, NamedNone
    <2> QED
      BY <2>1, PartsAre, RankSets
  <1>5. None(5)
    <2>1. Named(found, "payload", "payload", PayloadNames, "session_id", "thread_id") = NoIdentity
          <=> \A n \in ToSet(PayloadNames) : found[<<"payload", n>>] = NoName
      BY <1>3, NamedNone
    <2> QED
      BY <2>1, PartsAre, RankSets
  <1>6. None(8)
    <2>1. Named(found, "client", "client-metadata", PayloadNames, "session_id", "thread_id")
          = NoIdentity
          <=> \A n \in ToSet(PayloadNames) : found[<<"client", n>>] = NoName
      BY <1>3, NamedNone
    <2> QED
      BY <2>1, PartsAre, RankSets
  <1>7. \A p : TurnAt(found, p) = NoIdentity
               <=> \A n \in ToSet(TurnNames) : found[<<p, n>>] = NoName
    BY <1>3, NamedNone DEF TurnAt
  <1>8. None(4)
    BY <1>7, PartsAre, RankSets
  <1>9. None(6)
    BY <1>7, PartsAre, RankSets
  <1>10. None(7)
    BY <1>7, PartsAre, RankSets
  <1> HIDE DEF None
  <1>11. None(k)
    BY <1>2, <1>4, <1>5, <1>6, <1>8, <1>9, <1>10
  <1> QED
    BY <1>11 DEF None

\* A rank with the same names names the same.
LEMMA PartSame ==
    ASSUME NEW q, NEW r, NEW k \in 1..10, \A f \in OfRank(k) : q[f] = r[f]
    PROVE  Part(q, k) = Part(r, k)
  <1> DEFINE Alike(i) == \A f \in OfRank(i) : q[f] = r[f]
             Same(i) == Part(q, i) = Part(r, i)
  <1>1. Alike(1) => Same(1)
    BY PartsAre, RankSets
  <1>2. Alike(2) => Same(2)
    BY PartsAre, RankSets
  <1>3. Alike(9) => Same(9)
    BY PartsAre, RankSets
  <1>4. Alike(10) => Same(10)
    BY PartsAre, RankSets
  <1>5. "Session-Id" \in ToSet(HeaderNames) /\ "Thread-Id" \in ToSet(HeaderNames)
        /\ "session_id" \in ToSet(TurnNames) /\ "thread_id" \in ToSet(TurnNames)
        /\ HeaderNames \in Seq(ToSet(HeaderNames)) /\ TurnNames \in Seq(ToSet(TurnNames))
    BY KnownNames
  <1>6. ASSUME Alike(3) PROVE Same(3)
    <2>1. \A n \in ToSet(HeaderNames) : q[<<"header", n>>] = r[<<"header", n>>]
      BY <1>6, RankSets
    <2>2. Named(q, "header", "header", HeaderNames, "Session-Id", "Thread-Id")
          = Named(r, "header", "header", HeaderNames, "Session-Id", "Thread-Id")
      BY <1>5, <2>1, NamedSame
    <2> QED
      BY <2>2, PartsAre
  <1>payload. ASSUME NEW p, NEW kind,
               \A n \in ToSet(PayloadNames) : q[<<p, n>>] = r[<<p, n>>]
        PROVE  Named(q, p, kind, PayloadNames, "session_id", "thread_id")
               = Named(r, p, kind, PayloadNames, "session_id", "thread_id")
    <2>1. "session_id" \in ToSet(PayloadNames) /\ "thread_id" \in ToSet(PayloadNames)
          /\ PayloadNames \in Seq(ToSet(PayloadNames))
      BY KnownNames
    <2> QED
      BY <1>payload, <2>1, NamedSame
  <1>7. ASSUME Alike(5) PROVE Same(5)
    <2>1. \A n \in ToSet(PayloadNames) : q[<<"payload", n>>] = r[<<"payload", n>>]
      BY <1>7, RankSets
    <2>2. Named(q, "payload", "payload", PayloadNames, "session_id", "thread_id")
          = Named(r, "payload", "payload", PayloadNames, "session_id", "thread_id")
      BY <1>payload, <2>1
    <2> QED
      BY <2>2, PartsAre
  <1>8. ASSUME Alike(8) PROVE Same(8)
    <2>1. \A n \in ToSet(PayloadNames) : q[<<"client", n>>] = r[<<"client", n>>]
      BY <1>8, RankSets
    <2>2. Named(q, "client", "client-metadata", PayloadNames, "session_id", "thread_id")
          = Named(r, "client", "client-metadata", PayloadNames, "session_id", "thread_id")
      BY <1>payload, <2>1
    <2> QED
      BY <2>2, PartsAre
  <1>9. ASSUME NEW p, \A n \in ToSet(TurnNames) : q[<<p, n>>] = r[<<p, n>>]
        PROVE  TurnAt(q, p) = TurnAt(r, p)
    BY <1>5, <1>9, NamedSame DEF TurnAt
  <1>10. ASSUME Alike(4) PROVE Same(4)
    BY <1>9, <1>10, PartsAre, RankSets
  <1>11. ASSUME Alike(6) PROVE Same(6)
    BY <1>9, <1>11, PartsAre, RankSets
  <1>12. ASSUME Alike(7) PROVE Same(7)
    BY <1>9, <1>12, PartsAre, RankSets
  <1>13. Alike(k)
    OBVIOUS
  <1> HIDE DEF Alike, Same
  <1>14. Same(k)
    BY <1>1, <1>2, <1>3, <1>4, <1>6, <1>7, <1>8, <1>10, <1>11, <1>12, <1>13
  <1> QED
    BY <1>14 DEF Same

-----------------------------------------------------------------------------
(* The identity of a request, place by place.                              *)

\* What one lookup of the code finds.
LEMMA FoundText ==
    ASSUME NEW req, NEW place, NEW name, <<place, name>> \in Fields, place \notin req.long
    PROVE  Found(req)[<<place, name>>] = Text(req, place, name)
  BY DEF Found, Text

\* codexTurnMetadataIdentity; metadata that is too long is as good as empty.
LEMMA TurnFound ==
    ASSUME NEW req, NEW place \in TurnPlaces
    PROVE  TurnIdentity(req, place) = TurnAt(Found(req), place)
  <1> DEFINE found == Found(req)
  <1>1. /\ TurnNames \in Seq(ToSet(TurnNames))
        /\ "session_id" \in ToSet(TurnNames) /\ "thread_id" \in ToSet(TurnNames)
    BY KnownNames
  <1>2. \A n \in ToSet(TurnNames) : <<place, n>> \in Fields
    BY DEF Fields
  <1>3. CASE place \in req.long
    <2>1. \A n \in ToSet(TurnNames) : found[<<place, n>>] = NoName
      BY <1>2, <1>3 DEF Found
    <2> HIDE DEF found
    <2>2. TurnAt(found, place) = NoIdentity
      BY <1>1, <2>1, NamedNone DEF TurnAt
    <2> QED
      BY <1>3, <2>2 DEF TurnIdentity, found
  <1>4. CASE place \notin req.long
    <2>1. \A n \in ToSet(TurnNames) : found[<<place, n>>] = Text(req, place, n)
      BY <1>2, <1>4, FoundText
    <2> DEFINE A == Singles(req, place, "codex-turn", TurnNames)
               B == [j \in DOMAIN TurnNames |->
                        Single(<<"codex-turn", TurnNames[j]>>, found[<<place, TurnNames[j]>>])]
    <2> HIDE DEF found
    <2>2. \A j \in DOMAIN TurnNames : TurnNames[j] \in ToSet(TurnNames)
      BY DEF ToSet
    <2>3. A = B
      BY <2>1, <2>2 DEF Singles
    <2>4. found[<<place, "session_id">>] = Text(req, place, "session_id")
          /\ found[<<place, "thread_id">>] = Text(req, place, "thread_id")
      BY <1>1, <2>1
    <2>5. TurnAt(found, place)
          = FirstOf(<<Conversation(<<"codex-turn">>, found[<<place, "session_id">>],
                                   found[<<place, "thread_id">>])>> \o B)
      BY Zenon DEF TurnAt, Named
    <2>6. TurnIdentity(req, place)
          = FirstOf(<<Conversation(<<"codex-turn">>, Text(req, place, "session_id"),
                                   Text(req, place, "thread_id"))>> \o A)
      BY <1>4, Zenon DEF TurnIdentity
    <2> HIDE DEF A, B
    <2>7. TurnIdentity(req, place) = TurnAt(found, place)
      BY <2>3, <2>4, <2>5, <2>6, Zenon
    <2> QED
      BY <2>7 DEF found
  <1> QED
    BY <1>3, <1>4

\* The fields of a place that is not turn metadata.
LEMMA PlaceFound ==
    ASSUME NEW req, IsRequest(req), NEW place, place \notin TurnPlaces, NEW kind,
           NEW names, NEW session \in ToSet(names), NEW thread \in ToSet(names),
           \A n \in ToSet(names) : <<place, n>> \in Fields
    PROVE  Named(Found(req), place, kind, names, session, thread)
           = FirstOf(<<Conversation(<<kind>>, Text(req, place, session),
                                    Text(req, place, thread))>>
                     \o Singles(req, place, kind, names))
  <1> DEFINE found == Found(req)
             A == Singles(req, place, kind, names)
             B == [j \in DOMAIN names |-> Single(<<kind, names[j]>>, found[<<place, names[j]>>])]
  <1>1. \A n \in ToSet(names) : found[<<place, n>>] = Text(req, place, n)
    BY FoundText DEF IsRequest
  <1> HIDE DEF found
  <1>2. \A j \in DOMAIN names : names[j] \in ToSet(names)
    BY DEF ToSet
  <1>3. A = B
    BY <1>1, <1>2 DEF Singles
  <1>4. found[<<place, session>>] = Text(req, place, session)
        /\ found[<<place, thread>>] = Text(req, place, thread)
    BY <1>1
  <1>5. Named(found, place, kind, names, session, thread)
        = FirstOf(<<Conversation(<<kind>>, found[<<place, session>>],
                                 found[<<place, thread>>])>> \o B)
    BY Zenon DEF Named
  <1> HIDE DEF A, B
  <1>6. Named(found, place, kind, names, session, thread)
        = FirstOf(<<Conversation(<<kind>>, Text(req, place, session),
                                 Text(req, place, thread))>> \o A)
    BY <1>3, <1>4, <1>5, Zenon
  <1> QED
    BY <1>6, Zenon DEF found, A

\* The sequences that the lookups are made of.
LEMMA FirstOfBoth ==
    ASSUME NEW U, NEW V, NEW s \in Seq(U), NEW t \in Seq(V)
    PROVE  FirstOf(s \o t) = Or(FirstOf(s), FirstOf(t))
  <1>1. s \in Seq(U \cup V) /\ t \in Seq(U \cup V)
    OBVIOUS
  <1> QED
    BY <1>1, FirstOfConcat

\* They can be appended to one another.
LEMMA BothAreMany ==
    ASSUME NEW U, NEW V, NEW s \in Seq(U), NEW t \in Seq(V)
    PROVE  s \o t \in Seq(U \cup V)
  <1>1. s \in Seq(U \cup V) /\ t \in Seq(U \cup V)
    OBVIOUS
  <1> QED
    BY <1>1, ConcatProperties

\* The single names of a place are such a sequence.
LEMMA SinglesAreMany ==
    ASSUME NEW req, NEW place, NEW kind, NEW U, NEW names \in Seq(U)
    PROVE  LET s == Singles(req, place, kind, names) IN s \in Seq({s[j] : j \in DOMAIN names})
  <1> DEFINE s == Singles(req, place, kind, names)
             W == {s[j] : j \in DOMAIN names}
  <1>1. DOMAIN names = 1..Len(names) /\ Len(names) \in Nat
    BY LenProperties
  <1>2. s = [j \in 1..Len(names) |-> s[j]] /\ \A j \in 1..Len(names) : s[j] \in W
    BY <1>1 DEF Singles
  <1> HIDE DEF s, W
  <1>3. s \in Seq(W)
    BY <1>1, <1>2
  <1> QED
    BY <1>3 DEF s, W

\* headerSessionIdentity asks the headers, then the turn metadata among them.
LEMMA HeaderParts ==
    ASSUME NEW req, IsRequest(req)
    PROVE  HeaderIdentity(req) = Or(Part(Found(req), 3), Part(Found(req), 4))
  <1> DEFINE c == Conversation(<<"header">>, Text(req, "header", "Session-Id"),
                               Text(req, "header", "Thread-Id"))
             A == Singles(req, "header", "header", HeaderNames)
             T == TurnIdentity(req, "turn-header")
  <1>1. HeaderIdentity(req) = FirstOf(<<c>> \o A \o <<T>>)
    BY Zenon DEF HeaderIdentity
  <1>2. "Session-Id" \in ToSet(HeaderNames) /\ "Thread-Id" \in ToSet(HeaderNames)
        /\ HeaderNames \in Seq(ToSet(HeaderNames))
    BY KnownNames
  <1>3. \A n \in ToSet(HeaderNames) : <<"header", n>> \in Fields
    BY DEF Fields
  <1>4. "header" \notin TurnPlaces
    BY DEF TurnPlaces
  <1>5. Part(Found(req), 3) = FirstOf(<<c>> \o A)
    BY <1>2, <1>3, <1>4, PlaceFound, PartsAre
  <1>6. Part(Found(req), 4) = T
    BY TurnFound, PartsAre DEF TurnPlaces
  <1>7. A \in Seq({A[j] : j \in DOMAIN HeaderNames})
    BY <1>2, SinglesAreMany
  <1> HIDE DEF A, T, c
  <1> DEFINE left == <<c>> \o A
             one == <<T>>
  <1>8. one \in Seq({T}) /\ FirstOf(one) = T
    BY FirstOfOne
  <1>9. PICK W : left \in Seq(W)
    <2>1. <<c>> \in Seq({c})
      OBVIOUS
    <2> QED
      BY <1>7, <2>1, BothAreMany
  <1> HIDE DEF left, one
  <1>10. FirstOf(left \o one) = Or(FirstOf(left), T)
    BY <1>8, <1>9, FirstOfBoth
  <1>11. HeaderIdentity(req) = FirstOf(left \o one) /\ FirstOf(left) = Part(Found(req), 3)
    BY <1>1, <1>5 DEF left, one
  <1> QED
    BY <1>6, <1>10, <1>11, Zenon

\* payloadSessionIdentity asks the payload, the turn metadata in it and in
\* client_metadata, and client_metadata itself.
LEMMA PayloadParts ==
    ASSUME NEW req, IsRequest(req)
    PROVE  PayloadIdentity(req)
           = Or(Part(Found(req), 5),
                Or(Part(Found(req), 6), Or(Part(Found(req), 7), Part(Found(req), 8))))
  <1> DEFINE c == Conversation(<<"payload">>, Text(req, "payload", "session_id"),
                               Text(req, "payload", "thread_id"))
             A == Singles(req, "payload", "payload", PayloadNames)
             T == TurnIdentity(req, "turn-payload")
             S == TurnIdentity(req, "turn-client")
             d == Conversation(<<"client-metadata">>, Text(req, "client", "session_id"),
                               Text(req, "client", "thread_id"))
             B == Singles(req, "client", "client-metadata", PayloadNames)
             P(k) == Part(Found(req), k)
  <1>1. PayloadIdentity(req) = FirstOf(<<c>> \o A \o <<T, S, d>> \o B)
    BY Zenon DEF PayloadIdentity
  <1>2. "session_id" \in ToSet(PayloadNames) /\ "thread_id" \in ToSet(PayloadNames)
        /\ PayloadNames \in Seq(ToSet(PayloadNames))
    BY KnownNames
  <1>3. \A n \in ToSet(PayloadNames) :
            <<"payload", n>> \in Fields /\ <<"client", n>> \in Fields
    BY DEF Fields
  <1>4. "payload" \notin TurnPlaces /\ "client" \notin TurnPlaces
    BY DEF TurnPlaces
  <1>5. P(5) = FirstOf(<<c>> \o A)
    <2>1. \A n \in ToSet(PayloadNames) : <<"payload", n>> \in Fields
      BY <1>3
    <2> QED
      BY <1>2, <1>4, <2>1, PlaceFound, PartsAre
  <1>6. P(8) = FirstOf(<<d>> \o B)
    <2>1. \A n \in ToSet(PayloadNames) : <<"client", n>> \in Fields
      BY <1>3
    <2> QED
      BY <1>2, <1>4, <2>1, PlaceFound, PartsAre
  <1>7. P(6) = T /\ P(7) = S
    BY TurnFound, PartsAre DEF TurnPlaces
  <1>8. A \in Seq({A[j] : j \in DOMAIN PayloadNames})
        /\ B \in Seq({B[j] : j \in DOMAIN PayloadNames})
    BY <1>2, SinglesAreMany
  <1> HIDE DEF A, B, T, S, c, d, P
  <1>9. <<c>> \in Seq({c}) /\ <<d>> \in Seq({d}) /\ <<T, S, d>> \in Seq({T, S, d})
    OBVIOUS
  <1>10. PICK U, V : A \in Seq(U) /\ B \in Seq(V)
    BY <1>8
  <1>11. FirstOf(<<d>> \o B) = Or(d, FirstOf(B))
    <2> DEFINE one == <<d>>
    <2>1. one \in Seq({d}) /\ FirstOf(one) = d
      BY FirstOfOne
    <2> HIDE DEF one
    <2>2. FirstOf(one \o B) = Or(d, FirstOf(B))
      BY <1>10, <2>1, FirstOfBoth
    <2> QED
      BY <2>2 DEF one
  <1>12. PICK W : <<c>> \o A \in Seq(W)
    BY <1>9, <1>10, BothAreMany
  <1> DEFINE left == <<c>> \o A
             mid == <<T, S, d>>
  <1>13. left \in Seq(W) /\ mid \in Seq({T, S, d})
    BY <1>9, <1>12
  <1>14. FirstOf(mid) = Or(T, Or(S, d))
    BY FirstOfThree
  <1> HIDE DEF left, mid
  <1>15. FirstOf(left \o mid) = Or(FirstOf(left), FirstOf(mid))
    BY <1>13, FirstOfBoth
  <1>16. FirstOf((left \o mid) \o B) = Or(FirstOf(left \o mid), FirstOf(B))
    <2> DEFINE both == left \o mid
    <2>1. PICK X : both \in Seq(X)
      BY <1>13, BothAreMany
    <2> HIDE DEF both
    <2>2. FirstOf(both \o B) = Or(FirstOf(both), FirstOf(B))
      BY <1>10, <2>1, FirstOfBoth
    <2> QED
      BY <2>2 DEF both
  <1>17. PayloadIdentity(req) = FirstOf((left \o mid) \o B) /\ FirstOf(left) = P(5)
    BY <1>1, <1>5 DEF left, mid
  <1>18. PayloadIdentity(req) = Or(Or(P(5), Or(T, Or(S, d))), FirstOf(B))
    BY <1>14, <1>15, <1>16, <1>17, Zenon
  <1>19. Or(Or(P(5), Or(T, Or(S, d))), FirstOf(B)) = Or(P(5), Or(T, Or(S, Or(d, FirstOf(B)))))
    BY OrAssociates
  <1>20. PayloadIdentity(req) = Or(P(5), Or(P(6), Or(P(7), P(8))))
    BY <1>6, <1>7, <1>11, <1>18, <1>19, Zenon
  <1> QED
    BY <1>20 DEF P

\* requestSessionIdentity asks the places in the order of their ranks.
LEMMA IdentityParts ==
    ASSUME NEW req, IsRequest(req)
    PROVE  LET P(k) == Part(Found(req), k)
           IN Identity(req) = Or(P(1), Or(P(2), Or(P(3), Or(P(4), Or(P(5), Or(P(6),
                              Or(P(7), Or(P(8), Or(P(9), P(10))))))))))
  <1> DEFINE P(k) == Part(Found(req), k)
  <1>1. \A place \in {"host", "payload"} : place \notin req.long
    BY DEF IsRequest, TurnPlaces
  <1>2. \A n \in {"canonical", "execution", "derived"} : <<"host", n>> \in Fields
    BY DEF Fields
  <1>3. <<"payload", "prompt_cache_key">> \in Fields
    BY DEF Fields
  <1>4. P(1) = Single(<<"canonical">>, Text(req, "host", "canonical"))
    BY <1>1, <1>2, FoundText, PartsAre
  <1>5. P(2) = Single(<<"execution">>, Text(req, "host", "execution"))
    BY <1>1, <1>2, FoundText, PartsAre
  <1>6. P(9) = Single(<<"prompt-cache-key">>, Text(req, "payload", "prompt_cache_key"))
    BY <1>1, <1>3, FoundText, PartsAre
  <1>7. P(10) = Single(<<"derived">>, Text(req, "host", "derived"))
    BY <1>1, <1>2, FoundText, PartsAre
  <1>8. HeaderIdentity(req) = Or(P(3), P(4))
    BY HeaderParts
  <1>9. PayloadIdentity(req) = Or(P(5), Or(P(6), Or(P(7), P(8))))
    BY PayloadParts
  <1> HIDE DEF P
  <1>10. Identity(req)
         = FirstOf(<<P(1), P(2), HeaderIdentity(req), PayloadIdentity(req), P(9), P(10)>>)
    BY <1>4, <1>5, <1>6, <1>7, Zenon DEF Identity
  <1>11. Identity(req)
         = Or(P(1), Or(P(2), Or(Or(P(3), P(4)),
           Or(Or(P(5), Or(P(6), Or(P(7), P(8)))), Or(P(9), P(10))))))
    BY <1>8, <1>9, <1>10, FirstOfSix
  <1>12. @ = Or(P(1), Or(P(2), Or(P(3), Or(P(4), Or(P(5), Or(P(6),
             Or(P(7), Or(P(8), Or(P(9), P(10))))))))))
    BY OrAssociates
  <1> QED
    BY <1>11, <1>12 DEF P

-----------------------------------------------------------------------------
(* The strongest names of a request.                                       *)

\* The identity is that of the first rank that names something.
LEMMA IdentityOfRank ==
    ASSUME NEW req, IsRequest(req), NEW k \in 1..10,
           Part(Found(req), k) # NoIdentity,
           \A j \in 1..(k - 1) : Part(Found(req), j) = NoIdentity
    PROVE  Identity(req) = Part(Found(req), k)
  <1> DEFINE P(j) == Part(Found(req), j)
             Before(i) == \A j \in 1..(i - 1) : P(j) = NoIdentity
             From(i) == Identity(req) = P(i)
  <1>1. Identity(req) = Or(P(1), Or(P(2), Or(P(3), Or(P(4), Or(P(5), Or(P(6),
                        Or(P(7), Or(P(8), Or(P(9), P(10))))))))))
    BY IdentityParts
  <1>2. P(k) # NoIdentity /\ Before(k)
    OBVIOUS
  <1> HIDE DEF P
  <1>3. \A j \in {1, 2, 3, 4, 5, 6, 7, 8, 9} : j < k => P(j) = NoIdentity
    BY <1>2
  <1>4. ASSUME k = 1 PROVE Identity(req) = P(k)
    BY <1>1, <1>2, <1>4 DEF Or
  <1>5. ASSUME k = 2 PROVE Identity(req) = P(k)
    BY <1>1, <1>2, <1>3, <1>5 DEF Or
  <1>6. ASSUME k = 3 PROVE Identity(req) = P(k)
    BY <1>1, <1>2, <1>3, <1>6 DEF Or
  <1>7. ASSUME k = 4 PROVE Identity(req) = P(k)
    BY <1>1, <1>2, <1>3, <1>7 DEF Or
  <1>8. ASSUME k = 5 PROVE Identity(req) = P(k)
    BY <1>1, <1>2, <1>3, <1>8 DEF Or
  <1>9. ASSUME k \in 6..10
        PROVE  Identity(req) = Or(P(6), Or(P(7), Or(P(8), Or(P(9), P(10)))))
    <2>1. P(1) = NoIdentity /\ P(2) = NoIdentity /\ P(3) = NoIdentity /\ P(4) = NoIdentity
          /\ P(5) = NoIdentity
      BY <1>3, <1>9
    <2> QED
      BY <1>1, <2>1 DEF Or
  <1>10. ASSUME k = 6 PROVE Identity(req) = P(k)
    BY <1>2, <1>9, <1>10 DEF Or
  <1>11. ASSUME k = 7 PROVE Identity(req) = P(k)
    BY <1>2, <1>3, <1>9, <1>11 DEF Or
  <1>12. ASSUME k = 8 PROVE Identity(req) = P(k)
    BY <1>2, <1>3, <1>9, <1>12 DEF Or
  <1>13. ASSUME k = 9 PROVE Identity(req) = P(k)
    BY <1>2, <1>3, <1>9, <1>13 DEF Or
  <1>14. ASSUME k = 10 PROVE Identity(req) = P(k)
    BY <1>2, <1>3, <1>9, <1>14 DEF Or
  <1>15. k = 1 \/ k = 2 \/ k = 3 \/ k = 4 \/ k = 5 \/ k = 6 \/ k = 7 \/ k = 8
         \/ k = 9 \/ k = 10
    OBVIOUS
  <1>16. Identity(req) = P(k)
    BY <1>4, <1>5, <1>6, <1>7, <1>8, <1>10, <1>11, <1>12, <1>13, <1>14, <1>15
  <1> QED
    BY <1>16 DEF P

\* Without any name there is no identity.
LEMMA IdentityOfNothing ==
    ASSUME NEW req, IsRequest(req), \A j \in 1..10 : Part(Found(req), j) = NoIdentity
    PROVE  Identity(req) = NoIdentity
  <1> DEFINE P(j) == Part(Found(req), j)
  <1>1. Identity(req) = Or(P(1), Or(P(2), Or(P(3), Or(P(4), Or(P(5), Or(P(6),
                        Or(P(7), Or(P(8), Or(P(9), P(10))))))))))
    BY IdentityParts
  <1>2. P(1) = NoIdentity /\ P(2) = NoIdentity /\ P(3) = NoIdentity /\ P(4) = NoIdentity
        /\ P(5) = NoIdentity /\ P(6) = NoIdentity /\ P(7) = NoIdentity /\ P(8) = NoIdentity
        /\ P(9) = NoIdentity /\ P(10) = NoIdentity
    OBVIOUS
  <1> HIDE DEF P
  <1> QED
    BY <1>1, <1>2 DEF Or

\* The usable fields are those in which the code finds a name.
LEMMA UsableFound ==
    ASSUME NEW req, IsRequest(req)
    PROVE  \A f \in Fields : /\ f \in Usable(req) <=> Found(req)[f] # NoName
                             /\ f \in Usable(req) => Found(req)[f] = req.field[f]
  <1> TAKE f \in Fields
  <1>1. req.field[f] \in Names \cup {NoName, Unfit}
    BY DEF IsRequest
  <1>2. Found(req)[f] = IF f[1] \in req.long THEN NoName ELSE Normalized(req.field[f])
    BY DEF Found
  <1> QED
    BY <1>1, <1>2, NameAssumption DEF Usable, Normalized

\* If anything is usable, the strongest fields are those of one rank, and of the ranks
\* before it nothing is.
LEMMA StrongestRank ==
    ASSUME NEW req, Usable(req) # {}
    PROVE  \E k \in 1..10 : /\ Strongest(req) = {f \in Usable(req) : Rank(f) = k}
                            /\ Strongest(req) # {}
                            /\ \A f \in Usable(req) : k <= Rank(f)
  <1> DEFINE Ranks == {Rank(f) : f \in Usable(req)}
  <1>1. \A f \in Usable(req) : Rank(f) \in 1..10
    BY FieldHasRank DEF Usable
  <1>2. Ranks \subseteq Nat /\ Ranks # {}
    BY <1>1
  <1>3. PICK k \in Ranks : \A j \in Ranks : k <= j
    <2> HIDE DEF Ranks
    <2> QED
      BY <1>2, LeastOfNaturals
  <1>4. PICK g \in Usable(req) : Rank(g) = k
    BY <1>3
  <1>5. k \in 1..10 /\ \A f \in Usable(req) : k <= Rank(f)
    BY <1>1, <1>3, <1>4
  <1>6. ASSUME NEW f \in Usable(req)
        PROVE  Rank(f) = k <=> \A h \in Usable(req) : Rank(f) <= Rank(h)
    <2>1. Rank(f) \in Nat /\ k \in Nat /\ k <= Rank(f)
      BY <1>1, <1>5
    <2>2. CASE Rank(f) = k
      BY <1>5, <2>2
    <2>3. CASE Rank(f) # k
      <3>1. ~ Rank(f) <= Rank(g)
        BY <1>4, <2>1, <2>3
      <3> QED
        BY <2>3, <3>1
    <2> QED
      BY <2>2, <2>3
  <1>7. Strongest(req) = {f \in Usable(req) : Rank(f) = k}
    BY <1>6 DEF Strongest
  <1> QED
    BY <1>4, <1>5, <1>7

\* The identity of a request of which something is usable is that of its first rank.
LEMMA Led ==
    ASSUME NEW req, IsRequest(req), NEW k \in 1..10, NEW g \in Usable(req), Rank(g) = k,
           \A f \in Usable(req) : k <= Rank(f)
    PROVE  Identity(req) = Part(Found(req), k) /\ Identity(req) # NoIdentity
  <1>1. g \in Fields /\ g \in OfRank(k) /\ Found(req)[g] # NoName
    BY UsableFound, FieldHasRank DEF Usable
  <1>2. Part(Found(req), k) # NoIdentity
    BY <1>1, PartNone
  <1>3. ASSUME NEW j \in 1..(k - 1) PROVE Part(Found(req), j) = NoIdentity
    <2>1. j \in 1..10 /\ j < k
      BY <1>3
    <2>2. ASSUME NEW f \in OfRank(j) PROVE Found(req)[f] = NoName
      <3>1. f \in Fields /\ Rank(f) = j
        BY <2>1, RankHasFields
      <3>2. f \notin Usable(req)
        BY <2>1, <3>1
      <3> QED
        BY <3>1, <3>2, UsableFound
    <2> QED
      BY <2>1, <2>2, PartNone
  <1>4. Identity(req) = Part(Found(req), k)
    BY <1>2, <1>3, IdentityOfRank
  <1> QED
    BY <1>2, <1>4

\* One of which nothing is usable has none.
LEMMA NotLed ==
    ASSUME NEW req, IsRequest(req), Usable(req) = {}
    PROVE  Identity(req) = NoIdentity
  <1>1. ASSUME NEW j \in 1..10 PROVE Part(Found(req), j) = NoIdentity
    <2>1. \A f \in OfRank(j) : f \in Fields /\ f \notin Usable(req)
      BY RankHasFields
    <2>2. \A f \in OfRank(j) : Found(req)[f] = NoName
      BY <2>1, UsableFound
    <2> QED
      BY <2>2, PartNone
  <1> QED
    BY <1>1, IdentityOfNothing

\* Nothing but what the code finds, and the caller, decides the key.
LEMMA SameFound ==
    ASSUME NEW q, NEW r, IsRequest(q), IsRequest(r), Found(q) = Found(r)
    PROVE  Identity(q) = Identity(r)
  BY IdentityParts

\* And the same identity of the same caller is the same key.
LEMMA SameKey ==
    ASSUME NEW q, NEW r, Identity(q) = Identity(r), q.caller = r.caller
    PROVE  SessionKey(q) = SessionKey(r)
  BY DEF SessionKey

\* A request that is well-formed.
LEMMA RequestInvIsRequest ==
    ASSUME RequestInv
    PROVE  /\ request \in RequestRec /\ IsRequest(request)
           /\ result.to \in RequestRec /\ IsRequest(result.to)
  BY DEF RequestInv, WellFormed, RequestRec, IsRequest

\* What is found in a request of which only some names are left.
LEMMA OnlyNamedFound ==
    ASSUME NEW req \in RequestRec, IsRequest(req), NEW fields
    PROVE  /\ OnlyNamed(req, fields) \in RequestRec /\ IsRequest(OnlyNamed(req, fields))
           /\ OnlyNamed(req, fields).caller = req.caller
           /\ \A f \in Fields : Found(OnlyNamed(req, fields))[f]
                                = IF f \in fields THEN Found(req)[f] ELSE NoName
  <1> DEFINE q == OnlyNamed(req, fields)
  <1>1. /\ q.field = [f \in Fields |-> IF f \in fields THEN req.field[f] ELSE NoName]
        /\ q.caller = req.caller /\ q.long = req.long
    BY DEF OnlyNamed, RequestRec
  <1>2. \A f \in Fields : req.field[f] \in Names \cup {NoName, Unfit}
    BY DEF IsRequest
  <1>3. q.field \in [Fields -> Names \cup {NoName, Unfit}]
    BY <1>1, <1>2
  <1>4. q \in RequestRec
    <2> DEFINE named == [f \in Fields |-> IF f \in fields THEN req.field[f] ELSE NoName]
    <2>1. q = [req EXCEPT !.field = named]
      BY DEF OnlyNamed
    <2>2. named \in [Fields -> Names \cup {NoName, Unfit}]
      BY <1>2
    <2> HIDE DEF q, named
    <2> QED
      BY <2>1, <2>2 DEF RequestRec
  <1> HIDE DEF q
  <1>5. IsRequest(q)
    BY <1>4 DEF RequestRec, IsRequest
  <1>6. ASSUME NEW f \in Fields
        PROVE  Found(q)[f] = IF f \in fields THEN Found(req)[f] ELSE NoName
    <2>1. Found(q)[f] = IF f[1] \in req.long THEN NoName ELSE Normalized(q.field[f])
      BY <1>1 DEF Found
    <2>2. Found(req)[f] = IF f[1] \in req.long THEN NoName ELSE Normalized(req.field[f])
      BY DEF Found
    <2>3. q.field[f] = IF f \in fields THEN req.field[f] ELSE NoName
      BY <1>1
    <2>4. Normalized(NoName) = NoName
      BY NameAssumption DEF Normalized
    <2> QED
      BY <2>1, <2>2, <2>3, <2>4
  <1>7. q.caller = req.caller
    BY <1>1
  <1>8. q \in RequestRec /\ IsRequest(q) /\ q.caller = req.caller
        /\ \A f \in Fields : Found(q)[f] = IF f \in fields THEN Found(req)[f] ELSE NoName
    BY <1>4, <1>5, <1>6, <1>7
  <1> QED
    BY <1>8 DEF q

\* KeyOfStrongest: requestSessionIdentity goes by the strongest usable names alone, and finds
\* a conversation exactly if there is one.
THEOREM KeyOfStrongestCorrect == Spec => []KeyOfStrongest
  <1>1. RequestInv => KeyOfStrongest
    <2> SUFFICES ASSUME RequestInv PROVE KeyOfStrongest
      OBVIOUS
    <2> DEFINE strongest == Strongest(request)
               q == OnlyNamed(request, strongest)
    <2>1. request \in RequestRec /\ IsRequest(request)
      BY RequestInvIsRequest
    <2>2. /\ IsRequest(q) /\ q.caller = request.caller
          /\ \A f \in Fields :
                Found(q)[f] = IF f \in strongest THEN Found(request)[f] ELSE NoName
      BY <2>1, OnlyNamedFound
    <2>3. strongest \subseteq Usable(request) /\ strongest \subseteq Fields
      BY DEF Strongest, Usable
    <2> HIDE DEF q
    <2>4. Usable(q) = strongest
      <3>1. \A f \in Fields : f \in Usable(q) <=> f \in strongest
        BY <2>1, <2>2, <2>3, UsableFound
      <3>2. Usable(q) \subseteq Fields
        BY DEF Usable
      <3> HIDE DEF strongest
      <3> QED
        BY <2>3, <3>1, <3>2
    <2>5. \A c, i : i # NoIdentity => <<c, i>> # NoKey
      BY DEF NoKey
    <2>6. CASE Usable(request) = {}
      <3>1. Usable(q) = {}
        BY <2>3, <2>4, <2>6
      <3>2. Identity(request) = NoIdentity /\ Identity(q) = NoIdentity
        BY <2>1, <2>2, <2>6, <3>1, NotLed
      <3>3. SessionKey(request) = NoKey /\ SessionKey(q) = NoKey
        BY <3>2 DEF SessionKey
      <3> QED
        BY <2>6, <3>3 DEF KeyOfStrongest, q
    <2>7. CASE Usable(request) # {}
      <3>1. PICK k \in 1..10 : /\ strongest = {f \in Usable(request) : Rank(f) = k}
                               /\ strongest # {}
                               /\ \A f \in Usable(request) : k <= Rank(f)
        BY <2>7, StrongestRank
      <3> HIDE DEF strongest
      <3>2. PICK g : g \in strongest
        BY <3>1
      <3>3. g \in Usable(request) /\ g \in Usable(q) /\ Rank(g) = k
            /\ \A f \in Usable(q) : k <= Rank(f)
        BY <2>3, <2>4, <3>1, <3>2
      <3>4. Identity(request) = Part(Found(request), k) /\ Identity(request) # NoIdentity
        BY <2>1, <3>1, <3>3, Led
      <3>5. Identity(q) = Part(Found(q), k)
        BY <2>2, <3>3, Led
      <3>6. ASSUME NEW f \in OfRank(k) PROVE Found(q)[f] = Found(request)[f]
        <4>1. f \in Fields /\ Rank(f) = k
          BY RankHasFields
        <4>2. f \notin strongest => Found(request)[f] = NoName
          BY <2>1, <3>1, <4>1, UsableFound
        <4> QED
          BY <2>2, <4>1, <4>2
      <3>7. Part(Found(q), k) = Part(Found(request), k)
        BY <3>6, PartSame
      <3>8. Identity(q) = Identity(request)
        BY <3>4, <3>5, <3>7
      <3>9. SessionKey(q) = SessionKey(request)
        BY <2>2, <3>8, SameKey
      <3>10. SessionKey(request) # NoKey
        BY <2>5, <3>4 DEF SessionKey
      <3> QED
        BY <2>7, <3>9, <3>10 DEF KeyOfStrongest, q, strongest
    <2> QED
      BY <2>6, <2>7
  <1> QED
    BY <1>1, RequestKept, PTL

\* The ranks of the turn metadata.
LEMMA TurnRank ==
    ASSUME NEW p \in TurnPlaces
    PROVE  \E k \in 1..10 : /\ OfRank(k) = {p} \X ToSet(TurnNames)
                            /\ \A f \in Fields : f[1] = p <=> f \in OfRank(k)
                            /\ \A f \in Fields : f[1] = p <=> Rank(f) = k
                            /\ \A found : Part(found, k) = TurnAt(found, p)
  <1>1. PICK k \in {4, 6, 7} : OfRank(k) = {p} \X ToSet(TurnNames)
                               /\ \A found : Part(found, k) = TurnAt(found, p)
    <2>1. CASE p = "turn-header"
      BY <2>1, RankSets, PartsAre
    <2>2. CASE p = "turn-payload"
      BY <2>2, RankSets, PartsAre
    <2>3. CASE p = "turn-client"
      BY <2>3, RankSets, PartsAre
    <2> QED
      BY <2>1, <2>2, <2>3 DEF TurnPlaces
  <1>2. \A f \in Fields : f[1] = p => f \in {p} \X ToSet(TurnNames)
    BY DEF Fields, TurnPlaces
  <1>3. \A f \in Fields : f[1] = p <=> f \in OfRank(k)
    BY <1>1, <1>2
  <1>4. \A f \in Fields : f \in OfRank(k) <=> Rank(f) = k
    BY <1>1, RankHasFields, FieldHasRank
  <1> QED
    BY <1>1, <1>3, <1>4

\* What is found in a request that says in one place what another says in another.
LEMMA MovedFound ==
    ASSUME NEW req \in RequestRec, IsRequest(req),
           NEW from \in TurnPlaces \ req.long, NEW to \in TurnPlaces
    PROVE  /\ IsRequest(Moved(req, from, to)) /\ Moved(req, from, to).caller = req.caller
           /\ \A n \in ToSet(TurnNames) :
                 Found(Moved(req, from, to))[<<to, n>>] = Found(req)[<<from, n>>]
           /\ \A f \in Fields : f[1] # to => Found(Moved(req, from, to))[f] = NoName
  <1> DEFINE q == Moved(req, from, to)
             moved == [f \in Fields |-> IF f[1] = to THEN req.field[<<from, f[2]>>] ELSE NoName]
             none == OnlyNamed(req, {})
  <1>1. \A n \in ToSet(TurnNames) : <<from, n>> \in Fields /\ <<to, n>> \in Fields
    BY DEF Fields
  <1>2. \A f \in Fields : f[1] = to => f[2] \in ToSet(TurnNames)
    BY DEF Fields, TurnPlaces
  <1>3. \A f \in Fields : req.field[f] \in Names \cup {NoName, Unfit}
    BY DEF IsRequest
  <1>4. moved \in [Fields -> Names \cup {NoName, Unfit}]
    BY <1>1, <1>2, <1>3
  <1>5. none \in RequestRec /\ none.caller = req.caller
    BY OnlyNamedFound
  <1>6. q = [none EXCEPT !.field = moved, !.long = {}]
    BY DEF Moved
  <1>7. \A f \in Fields :
            moved[f] = IF f[1] = to THEN req.field[<<from, f[2]>>] ELSE NoName
    OBVIOUS
  <1> HIDE DEF q, moved, none
  <1>8. q \in RequestRec /\ q.field = moved /\ q.long = {} /\ q.caller = req.caller
    BY <1>4, <1>5, <1>6 DEF RequestRec
  <1>9. IsRequest(q)
    BY <1>8 DEF IsRequest, RequestRec
  <1>10. \A f \in Fields : Found(q)[f] = Normalized(moved[f])
    BY <1>8 DEF Found
  <1>11. ASSUME NEW n \in ToSet(TurnNames) PROVE Found(q)[<<to, n>>] = Found(req)[<<from, n>>]
    <2>1. Found(req)[<<from, n>>] = Normalized(req.field[<<from, n>>])
      BY <1>1 DEF Found
    <2>2. moved[<<to, n>>] = req.field[<<from, n>>]
      BY <1>1, <1>7
    <2> QED
      BY <1>1, <1>10, <2>1, <2>2
  <1>12. ASSUME NEW f \in Fields, f[1] # to PROVE Found(q)[f] = NoName
    BY <1>7, <1>10, <1>12, NameAssumption DEF Normalized
  <1>13. /\ IsRequest(q) /\ q.caller = req.caller
         /\ \A n \in ToSet(TurnNames) : Found(q)[<<to, n>>] = Found(req)[<<from, n>>]
         /\ \A f \in Fields : f[1] # to => Found(q)[f] = NoName
    BY <1>8, <1>9, <1>11, <1>12
  <1> QED
    BY <1>13 DEF q

\* MetadataAnywhere: codexTurnMetadataIdentity names the conversation by what the metadata
\* says and not by where it stood.
THEOREM MetadataAnywhereCorrect == Spec => []MetadataAnywhere
  <1>1. RequestInv => MetadataAnywhere
    <2> SUFFICES ASSUME RequestInv, NEW g \in Strongest(request), g[1] \in TurnPlaces,
                        NEW to \in TurnPlaces
                 PROVE  SessionKey(Moved(request, g[1], to)) = SessionKey(request)
      BY DEF MetadataAnywhere
    <2> DEFINE from == g[1]
               q == Moved(request, from, to)
    <2>1. request \in RequestRec /\ IsRequest(request)
      BY RequestInvIsRequest
    <2>2. g \in Usable(request) /\ g \in Fields /\ from \notin request.long
          /\ \A f \in Usable(request) : Rank(g) <= Rank(f)
      BY DEF Strongest, Usable
    <2>3. PICK k \in 1..10 : /\ OfRank(k) = {from} \X ToSet(TurnNames)
                             /\ \A f \in Fields : f[1] = from <=> f \in OfRank(k)
                             /\ \A f \in Fields : f[1] = from <=> Rank(f) = k
                             /\ \A found : Part(found, k) = TurnAt(found, from)
      BY TurnRank
    <2>4. PICK j \in 1..10 : /\ OfRank(j) = {to} \X ToSet(TurnNames)
                             /\ \A f \in Fields : f[1] = to <=> f \in OfRank(j)
                             /\ \A f \in Fields : f[1] = to <=> Rank(f) = j
                             /\ \A found : Part(found, j) = TurnAt(found, to)
      BY TurnRank
    <2>5. /\ IsRequest(q) /\ q.caller = request.caller
          /\ \A n \in ToSet(TurnNames) : Found(q)[<<to, n>>] = Found(request)[<<from, n>>]
          /\ \A f \in Fields : f[1] # to => Found(q)[f] = NoName
      BY <2>1, <2>2, MovedFound
    <2> HIDE DEF q
    <2>6. Identity(request) = TurnAt(Found(request), from)
      <3>1. Rank(g) = k
        BY <2>2, <2>3
      <3>2. Identity(request) = Part(Found(request), k)
        BY <2>1, <2>2, <3>1, Led
      <3> QED
        BY <2>3, <3>2
    <2>7. Identity(q) = TurnAt(Found(q), to)
      <3>1. PICK n \in ToSet(TurnNames) : g = <<from, n>>
        BY <2>2, <2>3
      <3>2. <<to, n>> \in Fields
        BY DEF Fields
      <3>3. Found(q)[<<to, n>>] # NoName
        BY <2>1, <2>2, <2>5, <3>1, UsableFound
      <3>4. <<to, n>> \in Usable(q)
        BY <2>5, <3>2, <3>3, UsableFound
      <3>5. Rank(<<to, n>>) = j
        BY <2>4, <3>2
      <3>6. \A f \in Usable(q) : f \in Fields
        BY DEF Usable
      <3>7. \A f \in Usable(q) : f[1] = to
        BY <2>5, <3>6, UsableFound
      <3>8. \A f \in Usable(q) : j <= Rank(f)
        BY <2>4, <3>6, <3>7
      <3>9. Identity(q) = Part(Found(q), j)
        BY <2>5, <3>4, <3>5, <3>8, Led
      <3> QED
        BY <2>4, <3>9
    <2>8. TurnAt(Found(q), to) = TurnAt(Found(request), from)
      <3>1. /\ TurnNames \in Seq(ToSet(TurnNames))
            /\ "session_id" \in ToSet(TurnNames) /\ "thread_id" \in ToSet(TurnNames)
        BY KnownNames
      <3>2. \A n \in ToSet(TurnNames) : Found(q)[<<to, n>>] = Found(request)[<<from, n>>]
        BY <2>5
      <3> QED
        BY <3>1, <3>2, NamedSame DEF TurnAt
    <2>9. SessionKey(q) = SessionKey(request)
      BY <2>5, <2>6, <2>7, <2>8, SameKey
    <2> QED
      BY <2>9 DEF q
  <1> QED
    BY <1>1, RequestKept, PTL

\* The fields that name a thread.
LEMMA ThreadFields ==
    ASSUME NEW f \in Fields, f[2] \in {"Thread-Id", "thread_id"}
    PROVE  f \in {<<"header", "Thread-Id">>, <<"payload", "thread_id">>,
                  <<"client", "thread_id">>, <<"turn-header", "thread_id">>,
                  <<"turn-payload", "thread_id">>, <<"turn-client", "thread_id">>}
  BY KnownNames DEF Fields, TurnPlaces

\* A thread is the last of what an identity is made of.
LEMMA ThreadLast ==
    ASSUME NEW found, NEW f \in Fields, f[2] \in {"Thread-Id", "thread_id"}, found[f] # NoName
    PROVE  Part(found, Rank(f))[2][2] = found[f]
  <1>1. /\ HeaderNames \in Seq(ToSet(HeaderNames)) /\ PayloadNames \in Seq(ToSet(PayloadNames))
        /\ TurnNames \in Seq(ToSet(TurnNames))
    BY KnownNames
  <1>2. CASE f = <<"header", "Thread-Id">>
    <2>1. Rank(f) = 3
      BY <1>2 DEF Rank
    <2>2. found[<<"header", "Thread-Id">>] # NoName
      BY <1>2
    <2>3. Named(found, "header", "header", HeaderNames, "Session-Id", "Thread-Id")
          = <<<<"header">>, <<found[<<"header", "Session-Id">>],
                            found[<<"header", "Thread-Id">>]>>>>
      BY <1>1, <2>2, NamedThread
    <2> QED
      BY <1>2, <2>1, <2>3, PartsAre
  <1>3. CASE f = <<"payload", "thread_id">>
    <2>1. Rank(f) = 5
      BY <1>3 DEF Rank
    <2>2. found[<<"payload", "thread_id">>] # NoName
      BY <1>3
    <2>3. Named(found, "payload", "payload", PayloadNames, "session_id", "thread_id")
          = <<<<"payload">>, <<found[<<"payload", "session_id">>],
                             found[<<"payload", "thread_id">>]>>>>
      BY <1>1, <2>2, NamedThread
    <2> QED
      BY <1>3, <2>1, <2>3, PartsAre
  <1>4. CASE f = <<"client", "thread_id">>
    <2>1. Rank(f) = 8
      BY <1>4 DEF Rank
    <2>2. found[<<"client", "thread_id">>] # NoName
      BY <1>4
    <2>3. Named(found, "client", "client-metadata", PayloadNames, "session_id", "thread_id")
          = <<<<"client-metadata">>, <<found[<<"client", "session_id">>],
                                     found[<<"client", "thread_id">>]>>>>
      BY <1>1, <2>2, NamedThread
    <2> QED
      BY <1>4, <2>1, <2>3, PartsAre
  <1>5. ASSUME NEW p \in TurnPlaces, f = <<p, "thread_id">>
        PROVE  Part(found, Rank(f))[2][2] = found[f]
    <2>1. Part(found, Rank(f)) = TurnAt(found, p)
      BY <1>5, TurnRank
    <2>2. found[<<p, "thread_id">>] # NoName
      BY <1>5
    <2>3. TurnAt(found, p) = <<<<"codex-turn">>, <<found[<<p, "session_id">>],
                                                   found[<<p, "thread_id">>]>>>>
      BY <1>1, <2>2, NamedThread DEF TurnAt
    <2> QED
      BY <1>5, <2>1, <2>3
  <1> QED
    BY <1>2, <1>3, <1>4, <1>5, ThreadFields DEF TurnPlaces

\* ThreadsApart: codexConversationIdentity puts the thread into the identity, beside the
\* session, so threads of one session never share state.
THEOREM ThreadsApartCorrect == Spec => []ThreadsApart
  <1>1. RequestInv => ThreadsApart
    <2> SUFFICES ASSUME RequestInv, NEW g \in Strongest(request),
                        g[2] \in {"Thread-Id", "thread_id"},
                        NEW other \in Names \ {request.field[g]}
                 PROVE  SessionKey([request EXCEPT !.field[g] = other]) # SessionKey(request)
      BY DEF ThreadsApart
    <2> DEFINE q == [request EXCEPT !.field[g] = other]
    <2>1. request \in RequestRec /\ IsRequest(request)
      BY RequestInvIsRequest
    <2>2. g \in Usable(request) /\ g \in Fields /\ g[1] \notin request.long
          /\ \A f \in Usable(request) : Rank(g) <= Rank(f)
      BY DEF Strongest, Usable
    <2>3. /\ q.field = [request.field EXCEPT ![g] = other]
          /\ q.caller = request.caller /\ q.long = request.long
      BY <2>1 DEF RequestRec
    <2> HIDE DEF q
    <2>4. request.field \in [Fields -> Names \cup {NoName, Unfit}]
      BY <2>1 DEF IsRequest
    <2>5. IsRequest(q)
      BY <2>1, <2>3, <2>4 DEF IsRequest
    <2>6. \A f \in Fields : q.field[f] = IF f = g THEN other ELSE request.field[f]
      BY <2>2, <2>3, <2>4
    <2>7. \A f \in Fields : Found(q)[f] = IF f = g THEN other ELSE Found(request)[f]
      <3>1. Normalized(other) = other
        BY NameAssumption DEF Normalized
      <3>2. \A f \in Fields :
              /\ Found(q)[f] = IF f[1] \in request.long THEN NoName ELSE Normalized(q.field[f])
              /\ Found(request)[f]
                 = IF f[1] \in request.long THEN NoName ELSE Normalized(request.field[f])
        BY <2>3 DEF Found
      <3> QED
        BY <2>2, <2>6, <3>1, <3>2
    <2>8. other # NoName /\ Found(q)[g] = other
      BY <2>2, <2>7, NameAssumption
    <2>9. Found(request)[g] = request.field[g] /\ Found(request)[g] # NoName
      BY <2>1, <2>2, UsableFound
    <2>10. Usable(q) = Usable(request)
      <3>1. \A f \in Fields : f \in Usable(q) <=> f \in Usable(request)
        BY <2>1, <2>5, <2>7, <2>8, <2>9, UsableFound
      <3>2. Usable(q) \subseteq Fields /\ Usable(request) \subseteq Fields
        BY DEF Usable
      <3> QED
        BY <3>1, <3>2
    <2> DEFINE k == Rank(g)
    <2>11. k \in 1..10
      BY <2>2, FieldHasRank
    <2>12. Identity(request) = Part(Found(request), k) /\ Identity(request) # NoIdentity
      BY <2>1, <2>2, <2>11, Led
    <2>13. Identity(q) = Part(Found(q), k) /\ Identity(q) # NoIdentity
      BY <2>2, <2>5, <2>10, <2>11, Led
    <2>14. Part(Found(request), k)[2][2] = request.field[g]
      BY <2>2, <2>9, ThreadLast
    <2>15. Part(Found(q), k)[2][2] = other
      BY <2>2, <2>8, ThreadLast
    <2>16. Identity(q) # Identity(request)
      BY <2>12, <2>13, <2>14, <2>15, Zenon
    <2>17. SessionKey(q) # SessionKey(request)
      BY <2>12, <2>13, <2>16 DEF SessionKey
    <2> QED
      BY <2>17 DEF q
  <1> QED
    BY <1>1, RequestKept, PTL
=============================================================================
