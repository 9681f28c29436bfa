-------------------------- MODULE RouteSafetyProofs --------------------------
(***************************************************************************)
(* Theorems about what the route state store keeps true: its index is      *)
(* exact and its maps are bounded, bindings are never rolled back, taint   *)
(* is cleared alone, and, in a store with room for every conversation,     *)
(* ambiguity taints and barriers last.                                     *)
(***************************************************************************)
EXTENDS RouteStateProofs

-----------------------------------------------------------------------------
(* The index and the requests it counts.                                   *)

PendingOn(pend, k, route) == {r \in PendingIn(pend, k) : pend[r].route = route}

\* IndexExact (pendingBySession agrees with the pending requests), of any index and any
\* map of requests.
Exact(idx, pend) ==
  \A k \in Sessions :
    /\ idx[k].count = Cardinality(PendingIn(pend, k))
    /\ \A route \in Routes \cup {NoRoute} :
         idx[k].routes[route] = Cardinality(PendingOn(pend, k, route))

\* IndexExact is that of the store's own maps.
LEMMA ExactIndex ==
  /\ IndexExact <=> Exact(index, pending)
  /\ IndexExact' <=> Exact(index', pending')
  BY DEF IndexExact, Exact, PendingOn

\* The sets that are counted are finite, and those of a route are part of the others.
LEMMA Counted ==
  ASSUME NEW pend, NEW k, NEW route
  PROVE  /\ IsFiniteSet(PendingIn(pend, k)) /\ Cardinality(PendingIn(pend, k)) \in Nat
         /\ IsFiniteSet(PendingOn(pend, k, route))
         /\ Cardinality(PendingOn(pend, k, route)) \in Nat
         /\ Cardinality(PendingOn(pend, k, route)) <= Cardinality(PendingIn(pend, k))
<1>1. IsFiniteSet(PendingIn(pend, k))
  <2>1. PendingIn(pend, k) \in SUBSET Requests
    BY DEF PendingIn
  <2> QED
    BY <2>1, FS_Subset, ConstantsAssumption
<1>2. PendingOn(pend, k, route) \in SUBSET PendingIn(pend, k)
  BY DEF PendingOn
<1>3. /\ IsFiniteSet(PendingOn(pend, k, route))
      /\ Cardinality(PendingOn(pend, k, route)) <= Cardinality(PendingIn(pend, k))
  BY <1>1, <1>2, FS_Subset
<1> QED
  BY <1>1, <1>3, FS_CardinalityType

\* A request that goes is counted no more, for its own session and route ...
LEMMA GoneFrom ==
  ASSUME NEW pend, NEW left, NEW r \in Requests, pend[r] # Absent,
         left[r] = Absent, \A q \in Requests \ {r} : left[q] = pend[q],
         NEW k, NEW route
  PROVE  /\ PendingIn(left, k) = PendingIn(pend, k) \ {r}
         /\ PendingOn(left, k, route) = PendingOn(pend, k, route) \ {r}
         /\ r \in PendingIn(pend, k) <=> k = pend[r].session
         /\ r \in PendingOn(pend, k, route) <=> k = pend[r].session /\ route = pend[r].route
<1>1. PendingIn(left, k) = PendingIn(pend, k) \ {r}
  BY DEF PendingIn
<1>2. PendingOn(left, k, route) = PendingOn(pend, k, route) \ {r}
  BY <1>1 DEF PendingOn, PendingIn
<1> QED
  BY <1>1, <1>2 DEF PendingIn, PendingOn

\* ... and one that comes is counted there.
LEMMA ComesTo ==
  ASSUME NEW pend, NEW more, NEW r \in Requests, pend[r] = Absent,
         NEW p \in PendingRec, more[r] = p,
         \A q \in Requests \ {r} : more[q] = pend[q], NEW k, NEW route
  PROVE  /\ r \notin PendingIn(pend, k) /\ r \notin PendingOn(pend, k, route)
         /\ PendingIn(more, k) =
              IF k = p.session THEN PendingIn(pend, k) \cup {r} ELSE PendingIn(pend, k)
         /\ PendingOn(more, k, route) =
              IF k = p.session /\ route = p.route
              THEN PendingOn(pend, k, route) \cup {r} ELSE PendingOn(pend, k, route)
<1>1. p # Absent
  BY AbsentAssumption
<1>2. PendingIn(more, k) =
        IF k = p.session THEN PendingIn(pend, k) \cup {r} ELSE PendingIn(pend, k)
  BY <1>1 DEF PendingIn
<1>3. PendingOn(more, k, route) =
        IF k = p.session /\ route = p.route
        THEN PendingOn(pend, k, route) \cup {r} ELSE PendingOn(pend, k, route)
  BY <1>1 DEF PendingOn, PendingIn
<1> QED
  BY <1>2, <1>3 DEF PendingIn, PendingOn

\* setPendingLocked keeps the index exact.
LEMMA AddExact ==
  ASSUME NEW pend \in PendingMap, NEW idx \in IndexMap, Exact(idx, pend),
         NEW r \in Requests, pend[r] = Absent, NEW p \in PendingRec
  PROVE  Exact(IndexAdd(idx, p), [pend EXCEPT ![r] = p])
<1> DEFINE more == [pend EXCEPT ![r] = p]
           added == IndexAdd(idx, p)
<1>1. p.session \in Sessions /\ p.route \in Routes \cup {NoRoute}
  BY DEF PendingRec
<1>2. SUFFICES ASSUME NEW k \in Sessions, NEW route \in Routes \cup {NoRoute}
      PROVE /\ added[k].count = Cardinality(PendingIn(more, k))
            /\ added[k].routes[route] = Cardinality(PendingOn(more, k, route))
  BY DEF Exact
<1>3. /\ idx[k].count = Cardinality(PendingIn(pend, k))
      /\ idx[k].routes[route] = Cardinality(PendingOn(pend, k, route))
      /\ idx[k] \in IndexRec
  BY DEF Exact, IndexMap
<1>6. /\ r \notin PendingIn(pend, k) /\ r \notin PendingOn(pend, k, route)
      /\ PendingIn(more, k) =
           IF k = p.session THEN PendingIn(pend, k) \cup {r} ELSE PendingIn(pend, k)
      /\ PendingOn(more, k, route) =
           IF k = p.session /\ route = p.route
           THEN PendingOn(pend, k, route) \cup {r} ELSE PendingOn(pend, k, route)
  <2>1. more[r] = p /\ \A q \in Requests \ {r} : more[q] = pend[q]
    BY DEF PendingMap
  <2> HIDE DEF more
  <2> QED
    BY <2>1, ComesTo
<1> HIDE DEF more
<1>4. CASE k # p.session
  <2>1. added[k] = idx[k]
    BY <1>4 DEF IndexAdd, IndexMap
  <2> QED
    BY <1>3, <1>4, <1>6, <2>1
<1>5. CASE k = p.session
  <2>1. added[k] = [count |-> idx[k].count + 1,
                    routes |-> [idx[k].routes EXCEPT ![p.route] = @ + 1]]
    BY <1>1, <1>5 DEF IndexAdd, IndexMap
  <2>2. /\ added[k].count = idx[k].count + 1
        /\ added[k].routes[route] =
             IF route = p.route THEN idx[k].routes[route] + 1 ELSE idx[k].routes[route]
    BY <1>3, <2>1 DEF IndexRec
  <2>3. Cardinality(PendingIn(pend, k) \cup {r}) = Cardinality(PendingIn(pend, k)) + 1
    BY <1>6, Counted, FS_AddElement
  <2>4. Cardinality(PendingOn(pend, k, route) \cup {r})
          = Cardinality(PendingOn(pend, k, route)) + 1
    BY <1>6, Counted, FS_AddElement
  <2> QED
    BY <1>3, <1>5, <1>6, <2>2, <2>3, <2>4
<1> QED
  BY <1>4, <1>5 DEF more

\* removePendingIndexLocked keeps it exact: no counter was zero, and a session's entry
\* is deleted with its last request.
LEMMA RemoveExact ==
  ASSUME NEW pend \in PendingMap, NEW idx \in IndexMap, Exact(idx, pend),
         NEW r \in Requests, pend[r] # Absent
  PROVE  Exact(IndexRemove(idx, pend[r]), [pend EXCEPT ![r] = Absent])
<1> DEFINE p == pend[r]
           left == [pend EXCEPT ![r] = Absent]
           removed == IndexRemove(idx, p)
<1>1. p \in PendingRec /\ p.session \in Sessions /\ p.route \in Routes \cup {NoRoute}
  BY DEF PendingRec, PendingMap
<1>2. SUFFICES ASSUME NEW k \in Sessions, NEW route \in Routes \cup {NoRoute}
      PROVE /\ removed[k].count = Cardinality(PendingIn(left, k))
            /\ removed[k].routes[route] = Cardinality(PendingOn(left, k, route))
  BY DEF Exact
<1>3. /\ idx[k].count = Cardinality(PendingIn(pend, k))
      /\ idx[k].routes[route] = Cardinality(PendingOn(pend, k, route))
      /\ idx[k] \in IndexRec
  BY DEF Exact, IndexMap
<1>4. /\ PendingIn(left, k) = PendingIn(pend, k) \ {r}
      /\ PendingOn(left, k, route) = PendingOn(pend, k, route) \ {r}
      /\ r \in PendingIn(pend, k) <=> k = p.session
      /\ r \in PendingOn(pend, k, route) <=> k = p.session /\ route = p.route
  <2>1. left[r] = Absent /\ \A q \in Requests \ {r} : left[q] = pend[q]
    BY DEF PendingMap
  <2> HIDE DEF left
  <2> QED
    BY <2>1, GoneFrom
<1>5. /\ Cardinality(PendingIn(left, k)) =
           IF k = p.session THEN idx[k].count - 1 ELSE idx[k].count
      /\ Cardinality(PendingOn(left, k, route)) =
           IF k = p.session /\ route = p.route
           THEN idx[k].routes[route] - 1 ELSE idx[k].routes[route]
      /\ Cardinality(PendingIn(left, k)) \in Nat
      /\ Cardinality(PendingOn(left, k, route)) \in Nat
      /\ Cardinality(PendingOn(left, k, route)) <= Cardinality(PendingIn(left, k))
  <2> HIDE DEF p, left
  <2>1. Cardinality(PendingIn(left, k)) =
          IF k = p.session THEN idx[k].count - 1 ELSE idx[k].count
    <3>1. IsFiniteSet(PendingIn(pend, k))
      BY Counted
    <3>2. CASE k = p.session
      <4>1. Cardinality(PendingIn(pend, k) \ {r}) = Cardinality(PendingIn(pend, k)) - 1
        BY <1>4, <3>1, <3>2, FS_RemoveElement
      <4> QED
        BY <1>3, <1>4, <3>2, <4>1
    <3>3. CASE k # p.session
      BY <1>3, <1>4, <3>3
    <3> QED
      BY <3>2, <3>3
  <2>2. Cardinality(PendingOn(left, k, route)) =
          IF k = p.session /\ route = p.route
          THEN idx[k].routes[route] - 1 ELSE idx[k].routes[route]
    <3>1. IsFiniteSet(PendingOn(pend, k, route))
      BY Counted
    <3>2. CASE k = p.session /\ route = p.route
      <4>1. Cardinality(PendingOn(pend, k, route) \ {r})
              = Cardinality(PendingOn(pend, k, route)) - 1
        BY <1>4, <3>1, <3>2, FS_RemoveElement
      <4> QED
        BY <1>3, <1>4, <3>2, <4>1
    <3>3. CASE ~(k = p.session /\ route = p.route)
      <4>1. PendingOn(pend, k, route) \ {r} = PendingOn(pend, k, route)
        BY <1>4, <3>3
      <4> QED
        BY <1>3, <1>4, <3>3, <4>1
    <3> QED
      BY <3>2, <3>3
  <2> QED
    BY <2>1, <2>2, Counted
<1> HIDE DEF p, left
<1>6. CASE k # p.session
  <2>1. removed[k] = idx[k]
    BY <1>6 DEF IndexRemove, IndexMap
  <2> QED
    BY <1>5, <1>6, <2>1
<1>7. CASE k = p.session /\ idx[k].count <= 1
  <2>1. removed[k] = NoPending
    BY <1>1, <1>7 DEF IndexRemove, IndexMap
  <2>2. Cardinality(PendingIn(left, k)) = 0 /\ Cardinality(PendingOn(left, k, route)) = 0
    <3>1. idx[k].count \in Nat
      BY <1>3 DEF IndexRec
    <3>2. Cardinality(PendingIn(left, k)) = 0
      BY <1>5, <1>7, <3>1
    <3>3. Cardinality(PendingOn(left, k, route)) \in Nat
      BY Counted
    <3>4. Cardinality(PendingOn(left, k, route)) <= Cardinality(PendingIn(left, k))
      BY Counted
    <3>5. Cardinality(PendingOn(left, k, route)) <= 0
      BY <3>2, <3>4
    <3> QED
      BY <3>2, <3>3, <3>5
  <2> QED
    BY <2>1, <2>2 DEF NoPending
<1>8. CASE k = p.session /\ ~(idx[k].count <= 1)
  <2>1. removed[k] = [count |-> idx[k].count - 1,
                      routes |-> [idx[k].routes EXCEPT ![p.route] =
                                    IF @ <= 1 THEN 0 ELSE @ - 1]]
    BY <1>1, <1>8 DEF IndexRemove, IndexMap
  <2>2. removed[k].count = idx[k].count - 1
    BY <2>1
  <2>3. removed[k].routes[route] =
          IF route = p.route
          THEN IF idx[k].routes[route] <= 1 THEN 0 ELSE idx[k].routes[route] - 1
          ELSE idx[k].routes[route]
    BY <1>3, <2>1 DEF IndexRec
  <2>4. idx[k].routes[route] \in Nat
    BY <1>3 DEF IndexRec
  <2> QED
    BY <1>5, <1>8, <2>2, <2>3, <2>4
<1> QED
  BY <1>6, <1>7, <1>8 DEF p, left

\* Forgetting a request that may not be there keeps it exact.
LEMMA WithoutExact ==
  ASSUME TypeOK, IndexExact, NEW r \in Requests
  PROVE  Exact(IndexWithout(r), PendingWithout(r))
<1>1. pending \in PendingMap /\ index \in IndexMap /\ Exact(index, pending)
  BY TypeOKParts, ExactIndex
<1>2. CASE pending[r] = Absent
  <2>1. PendingWithout(r) = pending
    BY <1>1, <1>2 DEF PendingWithout, PendingMap
  <2> QED
    BY <1>1, <1>2, <2>1 DEF IndexWithout
<1>3. CASE pending[r] # Absent
  BY <1>1, <1>3, RemoveExact DEF IndexWithout, PendingWithout
<1> QED
  BY <1>2, <1>3

\* So does tracking a request, whether or not another one is evicted.
LEMMA TrackExact ==
  ASSUME TypeOK, IndexExact, NEW r \in Requests, NEW p \in PendingRec, NEW ss,
         Track(r, p, ss)
  PROVE  Exact(index', pending')
<1> DEFINE pend == [pending EXCEPT ![r] = p]
           idx == IndexAdd(IndexWithout(r), p)
<1>1. /\ PendingWithout(r) \in PendingMap /\ IndexWithout(r) \in IndexMap
      /\ PendingWithout(r)[r] = Absent
      /\ pend = [PendingWithout(r) EXCEPT ![r] = p]
  BY TypeOKParts, WithoutType DEF PendingWithout, PendingMap
<1>2. Exact(idx, pend)
  BY <1>1, WithoutExact, AddExact
<1>3. pend \in PendingMap /\ idx \in IndexMap
  BY <1>1, TypeOKParts, IndexAddType DEF PendingMap
<1> HIDE DEF pend, idx
<1>4. CASE index' = idx /\ pending' = pend
  BY <1>2, <1>4
<1>5. ASSUME NEW v \in OldestPending(pend),
             pending' = [pend EXCEPT ![v] = Absent],
             index' = IndexRemove(idx, pend[v])
      PROVE  Exact(index', pending')
  <2>1. v \in Requests /\ pend[v] # Absent
    BY DEF OldestPending, Used
  <2> QED
    BY <1>2, <1>3, <1>5, <2>1, RemoveExact
<1> QED
  BY <1>4, <1>5 DEF Track, pend, idx

-----------------------------------------------------------------------------
(* The forms of a step: several methods of the store do the same to it.    *)

\* A request is forgotten and the conversations are left alone: discarded, failed, or
\* prepared again for a candidate that leaves no trace.
Forgets(r) ==
  /\ sweep = {}
  /\ pending' = PendingWithout(r) /\ index' = IndexWithout(r)
  /\ UNCHANGED <<sessions, sequence, now, sweep>>

\* What prepare keeps of the conversation of a candidate it tracks.
Observes(s, r, k, route) ==
  LET found == SessionOf(sessions, k)
  IN  /\ s \in SessionRec /\ s.updatedAt = now
      /\ s.route = found.route /\ s.seq = found.seq
      /\ s.overflow = found.overflow /\ s.retired = found.retired
      /\ s.tainted <=> \/ found.tainted
                       \/ route # NoRoute /\ RouteMismatch(IndexWithout(r), k, route)

\* A candidate is tracked, on a known route or on none.
Tracks(r, k, route) ==
  /\ sweep = {} /\ sweep' = {} /\ now' = now /\ sequence' = sequence + 1
  /\ \E s \in SessionRec, p \in PendingRec :
       /\ Observes(s, r, k, route)
       /\ p.session = k /\ p.route = route /\ p.seq = sequence + 1 /\ p.observedAt = now
       /\ \E ss \in TrimSessions([sessions EXCEPT ![k] = s], IndexWithout(r)) :
            Track(r, p, ss)

\* A session in which the update time and taint change, the rest not.
LEMMA TouchedFields ==
  ASSUME NEW s \in SessionRec, NEW t \in Int, NEW b \in BOOLEAN
  PROVE  /\ LET u == [s EXCEPT !.updatedAt = t] IN
            /\ u \in SessionRec /\ u.updatedAt = t /\ u.route = s.route /\ u.seq = s.seq
            /\ u.overflow = s.overflow /\ u.retired = s.retired /\ u.tainted = s.tainted
         /\ LET u == [s EXCEPT !.tainted = b, !.updatedAt = t] IN
            /\ u \in SessionRec /\ u.updatedAt = t /\ u.route = s.route /\ u.seq = s.seq
            /\ u.overflow = s.overflow /\ u.retired = s.retired /\ u.tainted = b
  BY FieldType, TaintedType, ZenonT(60) DEF SessionRec

\* The session that prepare decides on differs from the stored one in taint only, and
\* then counts as updated.
LEMMA ObservedFields ==
  ASSUME TypeOK, NEW r, NEW k \in Sessions, NEW route
  PROVE  LET s == Observed(r, k, route)
             found == SessionOf(sessions, k)
             idx == IF r = NoRequest THEN index ELSE IndexWithout(r)
         IN  /\ s \in SessionRec
             /\ s.route = found.route /\ s.seq = found.seq
             /\ s.overflow = found.overflow /\ s.retired = found.retired
             /\ s.tainted <=> found.tainted \/ RouteMismatch(idx, k, route)
<1> DEFINE found == SessionOf(sessions, k)
           idx == IF r = NoRequest THEN index ELSE IndexWithout(r)
           s == Observed(r, k, route)
<1>1. found \in SessionRec /\ now \in Int /\ found.tainted \in BOOLEAN
  BY TypeOKParts, SessionOfType DEF SessionRec
<1>2. s = IF RouteMismatch(idx, k, route)
          THEN [found EXCEPT !.tainted = TRUE, !.updatedAt = now] ELSE found
  BY DEF Observed
<1>3. RouteMismatch(idx, k, route) \in BOOLEAN
  BY DEF RouteMismatch
<1> HIDE DEF found, idx, s
<1>4. CASE RouteMismatch(idx, k, route)
  <2>1. s = [found EXCEPT !.tainted = TRUE, !.updatedAt = now]
    BY <1>2, <1>4
  <2>2. /\ s \in SessionRec /\ s.route = found.route /\ s.seq = found.seq
        /\ s.overflow = found.overflow /\ s.retired = found.retired /\ s.tainted = TRUE
    BY <1>1, <2>1, TouchedFields
  <2> QED
    BY <1>4, <2>2 DEF found, idx, s
<1>5. CASE ~RouteMismatch(idx, k, route)
  <2>1. s = found
    BY <1>2, <1>5
  <2> QED
    BY <1>1, <1>5, <2>1 DEF found, idx, s
<1> QED
  BY <1>3, <1>4, <1>5

\* prepare of a stripped candidate on an unknown route is of the form Tracks.
LEMMA UnknownTracks ==
  ASSUME TypeOK, NEW r \in Requests, NEW k \in Sessions, NEW payload \in Payloads,
         PrepareUnknown(r, k, payload)
  PROVE  Tracks(r, k, NoRoute)
<1> DEFINE s == [SessionOf(sessions, k) EXCEPT !.updatedAt = now]
           p == [session |-> k, route |-> NoRoute, seq |-> sequence + 1,
                 observedAt |-> now, canClearTaint |-> FALSE,
                 overflow |-> TooMany(payload.items),
                 retired |-> RetiredOnSuccess(payload.items)]
<1>1. SessionOf(sessions, k) \in SessionRec /\ now \in Int
  BY SessionOfType, TypeOKParts
<1>2. SessionOf(sessions, k).tainted \in BOOLEAN
  BY <1>1 DEF SessionRec
<1>3. Observes(s, r, k, NoRoute)
  <2>1. /\ s \in SessionRec /\ s.updatedAt = now
        /\ s.route = SessionOf(sessions, k).route /\ s.seq = SessionOf(sessions, k).seq
        /\ s.overflow = SessionOf(sessions, k).overflow
        /\ s.retired = SessionOf(sessions, k).retired
        /\ s.tainted = SessionOf(sessions, k).tainted
    BY <1>1, TouchedFields, ZenonT(60)
  <2> HIDE DEF s
  <2> QED
    BY <1>2, <2>1 DEF Observes
<1>4. /\ p \in PendingRec /\ p.session = k /\ p.route = NoRoute
      /\ p.seq = sequence + 1 /\ p.observedAt = now
  BY PayloadType DEF PendingRec, TypeOK
<1>5. \E ss \in TrimSessions([sessions EXCEPT ![k] = s], IndexWithout(r)) : Track(r, p, ss)
  BY DEF PrepareUnknown
<1>6. sweep = {} /\ sweep' = {} /\ now' = now /\ sequence' = sequence + 1
  BY DEF PrepareUnknown, Ready
<1> HIDE DEF s, p
<1>7. s \in SessionRec
  BY <1>3 DEF Observes
<1> QED
  BY <1>3, <1>4, <1>5, <1>6, <1>7 DEF Tracks

\* So is prepare of any other candidate that is not rejected.
LEMMA TrackedTracks ==
  ASSUME TypeOK, NEW r \in Requests, NEW k \in Sessions, NEW route \in Routes,
         NEW payload \in Payloads, PrepareTracked(r, k, route, payload)
  PROVE  Tracks(r, k, route)
<1> DEFINE session == Observed(r, k, route)
           strip == Strips(session, route, payload)
           clean == strip \/ ~RouteBound(payload)
           alone == ~HasPending(IndexWithout(r), k)
           s == [session EXCEPT !.updatedAt = now]
           clears == session.tainted /\ clean /\ alone
           overflows == strip /\ TooMany(payload.items)
           retires == IF strip THEN RetiredOnSuccess(payload.items) ELSE {}
           p == [session |-> k, route |-> route, seq |-> sequence + 1,
                 observedAt |-> now, canClearTaint |-> clears,
                 overflow |-> overflows, retired |-> retires]
<1>1. r # NoRequest /\ route # NoRoute /\ now \in Int
  BY ConstantsAssumption, TypeOKParts
<1>2. /\ session \in SessionRec
      /\ session.route = SessionOf(sessions, k).route
      /\ session.seq = SessionOf(sessions, k).seq
      /\ session.overflow = SessionOf(sessions, k).overflow
      /\ session.retired = SessionOf(sessions, k).retired
      /\ session.tainted <=> SessionOf(sessions, k).tainted
                               \/ RouteMismatch(IndexWithout(r), k, route)
  <2> HIDE DEF session
  <2> QED
    BY <1>1, ObservedFields DEF session
<1>3. clears \in BOOLEAN /\ overflows \in BOOLEAN /\ retires \in SUBSET Items
  BY PayloadType
<1>4. \E ss \in TrimSessions([sessions EXCEPT ![k] = s], IndexWithout(r)) : Track(r, p, ss)
  BY DEF PrepareTracked
<1>5. sweep = {} /\ sweep' = {} /\ now' = now /\ sequence' = sequence + 1
  BY DEF PrepareTracked, Ready
<1> HIDE DEF session, clears, overflows, retires
<1>6. /\ p \in PendingRec /\ p.session = k /\ p.route = route
      /\ p.seq = sequence + 1 /\ p.observedAt = now
  BY <1>3 DEF PendingRec, TypeOK
<1>7. /\ s \in SessionRec /\ s.updatedAt = now
      /\ s.route = session.route /\ s.seq = session.seq
      /\ s.overflow = session.overflow /\ s.retired = session.retired
      /\ s.tainted = session.tainted
  BY <1>1, <1>2, TouchedFields
<1> HIDE DEF s, p
<1>8. Observes(s, r, k, route)
  BY <1>1, <1>2, <1>7 DEF Observes
<1> QED
  BY <1>4, <1>5, <1>6, <1>7, <1>8 DEF Tracks

\* The session that complete() stores for a successful request p, with the index idx
\* that is left: after retiring, and after committing.
RetiredBy(p) ==
  LET found == SessionOf(sessions, p.session)
  IN  IF p.overflow THEN MarkRetiredOverflow(found)
      ELSE IF p.retired # {} THEN RetireItems(found, p.retired, p.route)
      ELSE found

CommittedBy(p, idx) ==
  [RetiredBy(p) EXCEPT !.route = p.route, !.seq = p.seq, !.updatedAt = now,
                       !.tainted = @ /\ ~ClearsTaint(p, idx)]

SucceededBy(p, idx) ==
  IF Commits(RetiredBy(p), p) THEN CommittedBy(p, idx) ELSE RetiredBy(p)

\* A success in these terms.
LEMMA SucceededForm ==
  ASSUME TypeOK, NEW r \in Requests, CompleteSucceeded(r)
  PROVE  /\ pending[r] \in PendingRec /\ pending[r].session \in Sessions
         /\ pending[r].route \in Routes \cup {NoRoute}
         /\ pending' = PendingWithout(r) /\ index' = IndexWithout(r)
         /\ sessions' \in TrimSessions([sessions EXCEPT ![pending[r].session] =
                                          SucceededBy(pending[r], index')], index')
         /\ sweep = {} /\ UNCHANGED <<sequence, now, sweep>>
<1>1. pending[r] \in PendingRec
  BY TypeOKParts DEF CompleteSucceeded, PendingMap
<1>2. sessions' \in TrimSessions([sessions EXCEPT ![pending[r].session] =
                                    SucceededBy(pending[r], IndexWithout(r))],
                                 IndexWithout(r))
  BY DEF CompleteSucceeded, SucceededBy, CommittedBy, RetiredBy
<1>3. index' = IndexWithout(r) /\ pending' = PendingWithout(r)
  BY DEF CompleteSucceeded
<1>4. sweep = {} /\ UNCHANGED <<sequence, now, sweep>>
  BY DEF CompleteSucceeded, Ready
<1> QED
  BY <1>1, <1>2, <1>3, <1>4 DEF PendingRec

\* Retiring changes neither the binding nor taint.
LEMMA RetiredFields ==
  ASSUME TypeOK, NEW s \in SessionRec, NEW items \in SUBSET Items,
         NEW route \in Routes \cup {NoRoute},
         NEW u \in {MarkRetiredOverflow(s), RetireItems(s, items, route)}
  PROVE  /\ u \in SessionRec /\ u.updatedAt = now
         /\ u.route = s.route /\ u.seq = s.seq /\ u.tainted = s.tainted
<1>1. now \in Nat
  BY DEF TypeOK
<1>2. u \in SessionRec
  BY <1>1, OverflowType, RetireType
<1>3. /\ MarkRetiredOverflow(s).updatedAt = now
      /\ MarkRetiredOverflow(s).route = s.route /\ MarkRetiredOverflow(s).seq = s.seq
      /\ MarkRetiredOverflow(s).tainted = s.tainted
  BY DEF MarkRetiredOverflow, SessionRec
<1>4. ASSUME NEW f
      PROVE  LET v == [s EXCEPT !.updatedAt = now, !.retired = f] IN
             /\ v.updatedAt = now
             /\ v.route = s.route /\ v.seq = s.seq /\ v.tainted = s.tainted
  BY DEF SessionRec
<1>5. LET v == [s EXCEPT !.updatedAt = now] IN
      /\ v.updatedAt = now
      /\ v.route = s.route /\ v.seq = s.seq /\ v.tainted = s.tainted
  BY DEF SessionRec
<1>6. LET v == RetireItems(s, items, route) IN
      /\ v.updatedAt = now
      /\ v.route = s.route /\ v.seq = s.seq /\ v.tainted = s.tainted
  BY <1>3, <1>4, <1>5 DEF RetireItems
<1> QED
  BY <1>2, <1>3, <1>6

\* What a success changes of its conversation.
LEMMA SucceededFields ==
  ASSUME TypeOK, NEW p \in PendingRec, NEW idx
  PROVE  LET found == SessionOf(sessions, p.session)
             s == SucceededBy(p, idx)
         IN  /\ s \in SessionRec
             /\ s = found \/ s.updatedAt = now
             /\ Commits(found, p) =>
                  /\ s.route = p.route /\ s.seq = p.seq /\ s.updatedAt = now
                  /\ s.tainted <=> found.tainted /\ ~ClearsTaint(p, idx)
             /\ ~Commits(found, p) =>
                  /\ s = RetiredBy(p)
                  /\ s.route = found.route /\ s.seq = found.seq
                  /\ s.tainted = found.tainted
<1> DEFINE found == SessionOf(sessions, p.session)
           retired == RetiredBy(p)
           bound == CommittedBy(p, idx)
           clears == ClearsTaint(p, idx)
           s == SucceededBy(p, idx)
<1>1. /\ p.session \in Sessions /\ p.route \in Routes \cup {NoRoute}
      /\ p.seq \in Nat /\ p.retired \in SUBSET Items /\ now \in Int
  BY TypeOKParts DEF PendingRec
<1>2. found \in SessionRec
  BY <1>1, TypeOKParts, SessionOfType
<1>3. retired \in {found, MarkRetiredOverflow(found), RetireItems(found, p.retired, p.route)}
  BY DEF RetiredBy
<1> HIDE DEF found, retired
<1>4. /\ retired \in SessionRec /\ (retired = found \/ retired.updatedAt = now)
      /\ retired.route = found.route /\ retired.seq = found.seq
      /\ retired.tainted = found.tainted
  BY <1>1, <1>2, <1>3, RetiredFields
<1>5. bound = [retired EXCEPT !.route = p.route, !.seq = p.seq, !.updatedAt = now,
                              !.tainted = @ /\ ~clears]
  BY DEF CommittedBy, retired
<1>6. clears \in BOOLEAN
  <2>1. p.canClearTaint \in BOOLEAN
    BY DEF PendingRec
  <2> QED
    BY <2>1 DEF ClearsTaint
<1> HIDE DEF bound, clears
<1>7. /\ bound \in SessionRec /\ bound.route = p.route /\ bound.seq = p.seq
      /\ bound.updatedAt = now /\ (bound.tainted <=> retired.tainted /\ ~clears)
  <2>1. (retired.tainted /\ ~clears) \in BOOLEAN
    BY <1>6
  <2>2. bound \in SessionRec
    BY <1>1, <1>4, <1>5, <2>1, CommittedType, ZenonT(60)
  <2> QED
    BY <1>4, <1>5, <2>1, <2>2 DEF SessionRec
<1>8. Commits(retired, p) <=> Commits(found, p)
  BY <1>4 DEF Commits
<1>9. s = IF Commits(retired, p) THEN bound ELSE retired
  BY DEF SucceededBy, retired, bound
<1> HIDE DEF s
<1>10. CASE Commits(found, p)
  <2>1. s = bound
    BY <1>8, <1>9, <1>10
  <2> QED
    BY <1>4, <1>7, <1>10, <2>1 DEF s, found, clears
<1>11. CASE ~Commits(found, p)
  <2>1. s = retired
    BY <1>8, <1>9, <1>11
  <2> QED
    BY <1>4, <1>11, <2>1 DEF s, found, retired
<1> QED
  BY <1>10, <1>11

\* An undecryptable item in these terms: the conversation is tainted, and unbound only
\* from the route of the request that failed.
LEMMA InvalidForm ==
  ASSUME TypeOK, NEW r \in Requests, CompleteInvalid(r)
  PROVE  LET p == pending[r]
             found == SessionOf(sessions, p.session)
         IN  /\ p \in PendingRec /\ p.session \in Sessions
             /\ pending' = PendingWithout(r) /\ index' = IndexWithout(r)
             /\ sweep = {} /\ UNCHANGED <<sequence, now, sweep>>
             /\ \E s \in SessionRec :
                  /\ s.tainted /\ s.updatedAt = now
                  /\ s.overflow = found.overflow /\ s.retired = found.retired
                  /\ \/ s.route = found.route /\ s.seq = found.seq
                     \/ s.route = NoRoute /\ s.seq = p.seq
                  /\ sessions' \in TrimSessions([sessions EXCEPT ![p.session] = s], index')
<1> DEFINE p == pending[r]
           old == SessionOf(sessions, p.session)
           found == [old EXCEPT !.tainted = TRUE, !.updatedAt = now]
           unbinds == found.route # NoRoute /\ found.route = p.route /\ found.seq <= p.seq
           unbound == [found EXCEPT !.route = NoRoute, !.seq = p.seq]
           s == IF unbinds THEN unbound ELSE found
<1>1. p \in PendingRec /\ p.session \in Sessions /\ p.seq \in Nat
  <2>1. p # Absent
    BY DEF CompleteInvalid
  <2>2. p \in PendingRec
    BY <2>1, TypeOKParts DEF PendingMap
  <2> QED
    BY <2>2 DEF PendingRec
<1>2. old \in SessionRec /\ now \in Int
  BY <1>1, TypeOKParts, SessionOfType
<1> HIDE DEF old
<1>3. /\ found \in SessionRec /\ found.tainted /\ found.updatedAt = now
      /\ found.route = old.route /\ found.seq = old.seq
      /\ found.overflow = old.overflow /\ found.retired = old.retired
  <2>1. found = [old EXCEPT !.tainted = TRUE, !.updatedAt = now]
    OBVIOUS
  <2> HIDE DEF found
  <2> QED
    BY <1>2, <2>1, TouchedFields, ZenonT(60)
<1>4. /\ unbound \in SessionRec /\ unbound.tainted /\ unbound.updatedAt = now
      /\ unbound.route = NoRoute /\ unbound.seq = p.seq
      /\ unbound.overflow = old.overflow /\ unbound.retired = old.retired
  <2> HIDE DEF found, p
  <2> QED
    BY <1>1, <1>3, BoundType DEF SessionRec
<1>5. /\ s \in SessionRec /\ s.tainted /\ s.updatedAt = now
      /\ s.overflow = old.overflow /\ s.retired = old.retired
      /\ \/ s.route = old.route /\ s.seq = old.seq
         \/ s.route = NoRoute /\ s.seq = p.seq
  <2> HIDE DEF found, unbound, unbinds, p
  <2> QED
    BY <1>3, <1>4
<1>6. sessions' \in TrimSessions([sessions EXCEPT ![p.session] = s], IndexWithout(r))
  BY DEF CompleteInvalid, old
<1>7. /\ pending' = PendingWithout(r) /\ index' = IndexWithout(r)
      /\ sweep = {} /\ UNCHANGED <<sequence, now, sweep>>
  BY DEF CompleteInvalid, Ready
<1> HIDE DEF s
<1> QED
  BY <1>1, <1>5, <1>6, <1>7 DEF old

\* Rejecting in these terms.
LEMMA RejectedForm ==
  ASSUME TypeOK, NEW r \in Requests \cup {NoRequest}, NEW k \in Sessions,
         NEW route \in Routes, NEW payload \in Payloads,
         PrepareRejected(r, k, route, payload)
  PROVE  LET found == SessionOf(sessions, k)
         IN  /\ IF r = NoRequest THEN UNCHANGED <<pending, index>>
                ELSE r \in Requests /\ pending' = PendingWithout(r) /\ index' = IndexWithout(r)
             /\ sweep = {} /\ UNCHANGED <<sequence, now, sweep>>
             /\ \E s \in SessionRec :
                  /\ s.updatedAt = now /\ s.route = found.route /\ s.seq = found.seq
                  /\ s.tainted <=> found.tainted \/ RouteMismatch(index', k, route)
                  /\ sessions' \in TrimSessions([sessions EXCEPT ![k] = s], index')
<1> DEFINE session == Observed(r, k, route)
           found == SessionOf(sessions, k)
           idx == IF r = NoRequest THEN index ELSE IndexWithout(r)
           s == RetireItems(session, payload.items, route)
<1>1. /\ session \in SessionRec /\ session.route = found.route /\ session.seq = found.seq
      /\ session.tainted <=> found.tainted \/ RouteMismatch(idx, k, route)
  BY ObservedFields
<1>2. payload.items \in SUBSET Items
  BY PayloadType
<1> HIDE DEF session
<1>3. /\ s \in SessionRec /\ s.updatedAt = now
      /\ s.route = session.route /\ s.seq = session.seq /\ s.tainted = session.tainted
  BY <1>1, <1>2, RetiredFields
<1>4. index' = idx /\ sessions' \in TrimSessions([sessions EXCEPT ![k] = s], idx)
  BY DEF PrepareRejected, session
<1>5. /\ IF r = NoRequest THEN UNCHANGED <<pending, index>>
         ELSE r \in Requests /\ pending' = PendingWithout(r) /\ index' = IndexWithout(r)
      /\ sweep = {} /\ UNCHANGED <<sequence, now, sweep>>
  BY DEF PrepareRejected, Ready
<1> HIDE DEF s, idx, found
<1>6. /\ s.updatedAt = now /\ s.route = found.route /\ s.seq = found.seq
      /\ s.tainted <=> found.tainted \/ RouteMismatch(index', k, route)
  BY <1>1, <1>3, <1>4
<1>7. sessions' \in TrimSessions([sessions EXCEPT ![k] = s], index')
  BY <1>4
<1> QED
  BY <1>3, <1>5, <1>6, <1>7 DEF found

\* Every step has one of these forms.
LEMMA StepForms ==
  ASSUME TypeOK, [Next]_stateVars
  PROVE  \/ /\ UNCHANGED <<sessions, pending, index, sequence, sweep>>
            /\ now' = now \/ (sweep = {} /\ now' = now + 1)
         \/ \E r \in Requests : Forgets(r)
         \/ \E r \in Requests, k \in Sessions, route \in Routes \cup {NoRoute} :
              Tracks(r, k, route)
         \/ \E r \in Requests \cup {NoRequest}, k \in Sessions, route \in Routes,
              payload \in Payloads : PrepareRejected(r, k, route, payload)
         \/ \E r \in Requests :
              CompleteSucceeded(r) \/ CompleteInvalid(r) \/ ExpirePending(r)
         \/ Sweep
         \/ Reopen
<1> DEFINE Idle == /\ UNCHANGED <<sessions, pending, index, sequence, sweep>>
                   /\ now' = now \/ (sweep = {} /\ now' = now + 1)
<1>1. ASSUME NEW r \in Requests \cup {NoRequest}, NEW k, NEW route, NEW payload,
             PrepareUntracked(r, k, route, payload)
      PROVE  Idle \/ \E q \in Requests : Forgets(q)
  BY <1>1 DEF PrepareUntracked, Forgets, Ready
<1>2. ASSUME NEW payload \in Payloads, NEW r \in Requests, NEW k \in Sessions,
             PrepareUnknown(r, k, payload)
      PROVE  Tracks(r, k, NoRoute)
  BY <1>2, UnknownTracks
<1>3. ASSUME NEW payload \in Payloads, NEW r \in Requests, NEW k \in Sessions,
             NEW route \in Routes, PrepareTracked(r, k, route, payload)
      PROVE  Tracks(r, k, route)
  BY <1>3, TrackedTracks
<1>4. ASSUME NEW k, NEW route, NEW payload, PrepareAnonymous(k, route, payload)
      PROVE  Idle
  BY <1>4 DEF PrepareAnonymous, stateVars, vars
<1>5. ASSUME NEW r \in Requests, CompleteFailed(r) \/ DiscardPending(r)
      PROVE  Forgets(r)
  BY <1>5 DEF CompleteFailed, DiscardPending, Forgets, Ready
<1>6. CASE Tick \/ Save \/ UNCHANGED stateVars
  BY <1>6 DEF Tick, Save, stateVars, vars
<1>7. CASE \E payload \in Payloads : Prepare(payload)
  <2>1. PICK payload \in Payloads : Prepare(payload)
    BY <1>7
  <2> HIDE DEF Idle
  <2>2. CASE \E r \in Requests \cup {NoRequest}, k \in Sessions \cup {NoSession},
             route \in Routes \cup {NoRoute} : PrepareUntracked(r, k, route, payload)
    BY <2>2, <1>1 DEF Idle
  <2>3. CASE \E r \in Requests, k \in Sessions : PrepareUnknown(r, k, payload)
    BY <2>3, <1>2
  <2>4. CASE \E r \in Requests \cup {NoRequest}, k \in Sessions, route \in Routes :
               PrepareRejected(r, k, route, payload)
    BY <2>4
  <2>5. CASE \E k \in Sessions, route \in Routes : PrepareAnonymous(k, route, payload)
    BY <2>5, <1>4 DEF Idle
  <2>6. CASE \E r \in Requests, k \in Sessions, route \in Routes :
               PrepareTracked(r, k, route, payload)
    BY <2>6, <1>3
  <2> QED
    BY <2>1, <2>2, <2>3, <2>4, <2>5, <2>6 DEF Prepare
<1>8. CASE \E r \in Requests : Complete(r) \/ DiscardPending(r)
  BY <1>8, <1>5 DEF Complete
<1> QED
  BY <1>6, <1>7, <1>8 DEF Next

\* A store that is opened has nothing in flight, and such sessions of one content, saved
\* or empty, as have not expired since.
LEMMA ReopenForm ==
  ASSUME Reopen
  PROVE  /\ Used(pending') = {} /\ index' = [k \in Sessions |-> NoPending]
         /\ sweep = {} /\ now' = now
         /\ \E content \in saved \cup {NoContent} :
              /\ sequence' = content.sequence
              /\ \A k \in Live(sessions') :
                   k \in Live(content.sessions) /\ sessions'[k] = content.sessions[k]
<1>1. PICK asked \in saved \cup {NoContent} : Load(asked)
  BY DEF Reopen
<1>2. PICK content \in {asked, NoContent} :
        sessions' = Restored(content.sessions) /\ sequence' = content.sequence
  BY <1>1, LoadForm
<1>3. \A k \in Live(sessions') :
        k \in Live(content.sessions) /\ sessions'[k] = content.sessions[k]
  BY <1>2 DEF Restored, Live
<1>4. content \in saved \cup {NoContent}
  BY <1>1, <1>2
<1> QED
  BY <1>1, <1>2, <1>3, <1>4 DEF Load, Used

\* What the file has held grows by what a save writes.
LEMMA SavedForm ==
  ASSUME [Next]_stateVars
  PROVE  saved' \in {saved, saved \cup {Content}}
<1>1. ASSUME NEW payload, Prepare(payload)
      PROVE  saved' = saved
  BY <1>1 DEF Prepare, PrepareUntracked, PrepareUnknown, PrepareRejected, PrepareAnonymous,
              PrepareTracked, stateVars
<1>2. ASSUME NEW r, \/ CompleteSucceeded(r) \/ CompleteFailed(r) \/ CompleteInvalid(r)
                   \/ DiscardPending(r) \/ ExpirePending(r)
      PROVE  saved' = saved
  BY <1>2 DEF CompleteSucceeded, CompleteFailed, CompleteInvalid, DiscardPending,
              ExpirePending
<1>3. CASE Sweep \/ Reopen \/ Tick \/ UNCHANGED stateVars
  BY <1>3 DEF Sweep, Reopen, Load, Tick, stateVars
<1>4. CASE Save
  BY <1>4 DEF Save
<1> QED
  BY <1>1, <1>2, <1>3, <1>4 DEF Next, Complete

-----------------------------------------------------------------------------
(* The index is exact.                                                     *)

\* Every method of the store keeps the index exact.
LEMMA StepExact ==
  ASSUME TypeOK, IndexExact, [Next]_stateVars
  PROVE  IndexExact'
<1>1. ASSUME UNCHANGED <<pending, index>>
      PROVE  Exact(index', pending')
  BY <1>1, ExactIndex
<1>2. ASSUME NEW r \in Requests, pending' = PendingWithout(r), index' = IndexWithout(r)
      PROVE  Exact(index', pending')
  BY <1>2, WithoutExact
<1>3. ASSUME NEW r \in Requests, NEW k, NEW route, Tracks(r, k, route)
      PROVE  Exact(index', pending')
  <2>1. PICK p \in PendingRec : \E ss : Track(r, p, ss)
    BY <1>3 DEF Tracks
  <2> QED
    BY <2>1, TrackExact
<1>4. ASSUME NEW r \in Requests \cup {NoRequest}, NEW k \in Sessions, NEW route \in Routes,
             NEW payload \in Payloads, PrepareRejected(r, k, route, payload)
      PROVE  Exact(index', pending')
  BY <1>4, <1>1, <1>2, RejectedForm
<1>5. ASSUME Reopen
      PROVE  Exact(index', pending')
  <2> SUFFICES ASSUME NEW k \in Sessions, NEW route \in Routes \cup {NoRoute}
               PROVE  /\ index'[k].count = Cardinality(PendingIn(pending', k))
                      /\ index'[k].routes[route] = Cardinality(PendingOn(pending', k, route))
    BY DEF Exact
  <2>1. PendingIn(pending', k) = {} /\ PendingOn(pending', k, route) = {}
    BY <1>5, ReopenForm DEF Used, PendingIn, PendingOn
  <2>2. index'[k].count = 0 /\ index'[k].routes[route] = 0
    BY <1>5, ReopenForm DEF NoPending
  <2> QED
    BY <2>1, <2>2, FS_EmptySet
<1>6. ASSUME NEW r \in Requests, CompleteSucceeded(r) \/ CompleteInvalid(r) \/ ExpirePending(r)
      PROVE  Exact(index', pending')
  BY <1>6, <1>2 DEF CompleteSucceeded, CompleteInvalid, ExpirePending
<1>7. ASSUME Sweep
      PROVE  Exact(index', pending')
  BY <1>7, <1>1 DEF Sweep
<1> QED
  BY <1>1, <1>2, <1>3, <1>4, <1>5, <1>6, <1>7, StepForms, ExactIndex DEF Forgets

\* The empty index counts the empty store.
LEMMA InitExact == Init => IndexExact
<1> SUFFICES ASSUME Init, NEW k \in Sessions, NEW route \in Routes \cup {NoRoute}
             PROVE  /\ index[k].count = Cardinality(PendingIn(pending, k))
                    /\ index[k].routes[route] = Cardinality(PendingOn(pending, k, route))
  BY ExactIndex DEF Exact
<1>1. PendingIn(pending, k) = {} /\ PendingOn(pending, k, route) = {}
  BY DEF Init, PendingIn, PendingOn
<1>2. index[k].count = 0 /\ index[k].routes[route] = 0
  BY DEF Init, NoPending
<1> QED
  BY <1>1, <1>2, FS_EmptySet

\* pendingBySession always agrees with the pending requests, however often requests are
\* replaced, evicted, discarded and expired: none of its counters leaks or runs out early
\* (setPendingLocked, removePendingIndexLocked).
THEOREM IndexCorrect == Spec => []IndexExact
<1>1. TypeOK /\ IndexExact /\ [Next]_stateVars => IndexExact'
  BY StepExact
<1> QED
  BY <1>1, InitExact, TypeCorrect, PTL DEF Spec

-----------------------------------------------------------------------------
(* Both maps are bounded.                                                  *)

\* The keys of both maps are finitely many.
LEMMA FiniteKeys ==
  ASSUME NEW ss, NEW pend
  PROVE  /\ IsFiniteSet(Live(ss)) /\ Cardinality(Live(ss)) \in Nat
         /\ IsFiniteSet(Used(pend)) /\ Cardinality(Used(pend)) \in Nat
<1>1. Live(ss) \in SUBSET Sessions /\ Used(pend) \in SUBSET Requests
  BY DEF Live, Used
<1>2. IsFiniteSet(Live(ss)) /\ IsFiniteSet(Used(pend))
  BY <1>1, FS_Subset, ConstantsAssumption
<1> QED
  BY <1>2, FS_CardinalityType

\* A set that gains at most one element grows by at most one, and does not grow if it
\* gains none.
LEMMA GrowsByOne ==
  ASSUME NEW S, IsFiniteSet(S), NEW x, NEW T
  PROVE  /\ T \subseteq S => Cardinality(T) <= Cardinality(S)
         /\ T \subseteq S \cup {x} => Cardinality(T) <= Cardinality(S) + 1
<1>1. Cardinality(S) \in Nat
  BY FS_CardinalityType
<1>2. /\ IsFiniteSet(S \cup {x})
      /\ Cardinality(S \cup {x}) = IF x \in S THEN Cardinality(S) ELSE Cardinality(S) + 1
  BY FS_AddElement
<1>3. Cardinality(S \cup {x}) <= Cardinality(S) + 1
  BY <1>1, <1>2
<1>4. ASSUME T \subseteq S \cup {x}
      PROVE  Cardinality(T) <= Cardinality(S) + 1
  <2>1. IsFiniteSet(T) /\ Cardinality(T) <= Cardinality(S \cup {x})
    BY <1>2, <1>4, FS_Subset
  <2>2. Cardinality(T) \in Nat /\ Cardinality(S \cup {x}) \in Nat
    BY <1>2, <2>1, FS_CardinalityType
  <2> QED
    BY <1>1, <1>3, <2>1, <2>2
<1> QED
  BY <1>4, FS_Subset

\* One eviction brings a map of sessions that is one above its cap back to it
\* (trimSessionsLocked).
LEMMA TrimBounds ==
  ASSUME NEW ss \in SessionMap, Cardinality(Live(ss)) <= MaxSessions + 1, NEW idx,
         NEW tt \in TrimSessions(ss, idx)
  PROVE  Cardinality(Live(tt)) <= MaxSessions
<1>1. CASE Cardinality(Live(ss)) <= MaxSessions
  BY <1>1 DEF TrimSessions
<1>2. CASE ~(Cardinality(Live(ss)) <= MaxSessions)
  <2>1. PICK v \in Victims(ss, idx) : tt = [ss EXCEPT ![v] = Absent]
    BY <1>2 DEF TrimSessions
  <2>2. v \in Live(ss)
    BY DEF Victims
  <2>3. Live(tt) = Live(ss) \ {v}
    BY <2>1 DEF Live, SessionMap
  <2>4. Cardinality(Live(tt)) = Cardinality(Live(ss)) - 1
    BY <2>2, <2>3, FiniteKeys, FS_RemoveElement
  <2> QED
    BY <2>4, FiniteKeys, BoundsAssumption
<1> QED
  BY <1>1, <1>2

\* Storing a session, or tainting one, present or not, adds at most one.
LEMMA StoreBounds ==
  ASSUME NEW ss \in SessionMap, Cardinality(Live(ss)) <= MaxSessions,
         NEW k \in Sessions, NEW s
  PROVE  /\ Cardinality(Live([ss EXCEPT ![k] = s])) <= MaxSessions + 1
         /\ Cardinality(Live(TaintSession(ss, k))) <= MaxSessions + 1
<1>1. Cardinality(Live(ss)) \in Nat /\ IsFiniteSet(Live(ss)) /\ MaxSessions \in Nat
  BY FiniteKeys, BoundsAssumption
<1>2. ASSUME NEW u
      PROVE  Cardinality(Live([ss EXCEPT ![k] = u])) <= MaxSessions + 1
  <2> DEFINE tt == [ss EXCEPT ![k] = u]
  <2>1. Live(tt) \subseteq Live(ss) \cup {k}
    BY DEF Live, SessionMap
  <2> HIDE DEF tt
  <2>2. Cardinality(Live(tt)) <= Cardinality(Live(ss)) + 1 /\ Cardinality(Live(tt)) \in Nat
    BY <1>1, <2>1, GrowsByOne, FiniteKeys
  <2>3. Cardinality(Live(tt)) <= MaxSessions + 1
    BY <1>1, <2>2
  <2> QED
    BY <2>3 DEF tt
<1> QED
  BY <1>2 DEF TaintSession

\* The sessions stored by a method, once trimmed, and by the eviction of a request after
\* it, are within the cap, and so are the requests (setPendingLocked, trimPendingLocked).
LEMMA TrackBounds ==
  ASSUME TypeOK, Bounded, NEW r \in Requests, NEW p \in PendingRec, NEW ss \in SessionMap,
         Cardinality(Live(ss)) <= MaxSessions, Track(r, p, ss)
  PROVE  Bounded'
<1> DEFINE pend == [pending EXCEPT ![r] = p]
           idx == IndexAdd(IndexWithout(r), p)
<1>1. pend \in PendingMap
  BY TypeOKParts DEF PendingMap
<1>2. Cardinality(Used(pend)) <= MaxPending + 1
  <2>1. Used(pend) \subseteq Used(pending) \cup {r}
    BY TypeOKParts DEF Used, PendingMap
  <2> HIDE DEF pend
  <2>2. Cardinality(Used(pend)) <= Cardinality(Used(pending)) + 1
    BY <2>1, FiniteKeys, GrowsByOne
  <2>3. Cardinality(Used(pending)) <= MaxPending
    BY DEF Bounded
  <2> QED
    BY <2>2, <2>3, FiniteKeys, BoundsAssumption
<1> HIDE DEF pend, idx
<1>3. CASE /\ Cardinality(Used(pend)) <= MaxPending
           /\ sessions' = ss /\ pending' = pend
  BY <1>3 DEF Bounded
<1>4. ASSUME NEW v \in OldestPending(pend),
             pending' = [pend EXCEPT ![v] = Absent],
             sessions' \in TrimSessions(TaintSession(ss, pend[v].session),
                                       IndexRemove(idx, pend[v]))
      PROVE  Bounded'
  <2>1. v \in Used(pend) /\ pend[v].session \in Sessions
    BY <1>1 DEF OldestPending, Used, PendingMap, PendingRec
  <2>2. Used(pending') = Used(pend) \ {v}
    BY <1>1, <1>4 DEF Used, PendingMap
  <2>3. Cardinality(Used(pending')) = Cardinality(Used(pend)) - 1
    BY <2>1, <2>2, FiniteKeys, FS_RemoveElement
  <2>4. Cardinality(Used(pending')) <= MaxPending
    BY <1>2, <2>3, FiniteKeys, BoundsAssumption
  <2>5. /\ TaintSession(ss, pend[v].session) \in SessionMap
        /\ Cardinality(Live(TaintSession(ss, pend[v].session))) <= MaxSessions + 1
    BY <2>1, TypeOKParts, TaintType, StoreBounds
  <2>6. Cardinality(Live(sessions')) <= MaxSessions
    BY <1>4, <2>5, TrimBounds
  <2> QED
    BY <2>4, <2>6 DEF Bounded
<1> QED
  BY <1>3, <1>4 DEF Track, pend, idx

\* Nor was the cap exceeded by what the state file has held.
SavedBounded == \A content \in saved : Cardinality(Live(content.sessions)) <= MaxSessions

\* Every step keeps both maps within their caps.
LEMMA StepBounded ==
  ASSUME TypeOK, Bounded, SavedBounded, [Next]_stateVars
  PROVE  Bounded' /\ SavedBounded'
<1> SUFFICES Bounded'
  BY SavedForm DEF SavedBounded, Content, Bounded
<1>1. ASSUME Cardinality(Live(sessions')) <= MaxSessions, Used(pending') \subseteq Used(pending)
      PROVE  Bounded'
  <2>1. Cardinality(Used(pending')) <= Cardinality(Used(pending))
    BY <1>1, FiniteKeys, FS_Subset
  <2> QED
    BY <1>1, <2>1, FiniteKeys, BoundsAssumption DEF Bounded
<1>2. ASSUME Live(sessions') \subseteq Live(sessions)
      PROVE  Cardinality(Live(sessions')) <= MaxSessions
  <2>1. Cardinality(Live(sessions')) <= Cardinality(Live(sessions))
    BY <1>2, FiniteKeys, FS_Subset
  <2> QED
    BY <2>1, FiniteKeys, BoundsAssumption DEF Bounded
<1>3. ASSUME NEW k \in Sessions, NEW s \in SessionRec, NEW idx,
             NEW tt \in TrimSessions([sessions EXCEPT ![k] = s], idx)
      PROVE  tt \in SessionMap /\ Cardinality(Live(tt)) <= MaxSessions
  <2>1. [sessions EXCEPT ![k] = s] \in SessionMap
    BY TypeOKParts, StoreType
  <2>2. Cardinality(Live([sessions EXCEPT ![k] = s])) <= MaxSessions + 1
    BY TypeOKParts, StoreBounds DEF Bounded
  <2> QED
    BY <2>1, <2>2, TrimType, TrimBounds
<1>4. ASSUME NEW r \in Requests
      PROVE  Used(PendingWithout(r)) \subseteq Used(pending)
  BY TypeOKParts DEF Used, PendingWithout, PendingMap
<1>5. ASSUME NEW r \in Requests, Forgets(r)
      PROVE  Bounded'
  BY <1>5, <1>1, <1>2, <1>4 DEF Forgets
<1>6. ASSUME NEW r \in Requests, NEW k \in Sessions, NEW route, Tracks(r, k, route)
      PROVE  Bounded'
  <2>1. PICK s \in SessionRec, p \in PendingRec :
          \E ss \in TrimSessions([sessions EXCEPT ![k] = s], IndexWithout(r)) :
            Track(r, p, ss)
    BY <1>6 DEF Tracks
  <2>2. PICK ss \in TrimSessions([sessions EXCEPT ![k] = s], IndexWithout(r)) :
          Track(r, p, ss)
    BY <2>1
  <2> QED
    BY <2>2, <1>3, TrackBounds
<1>7. ASSUME NEW r \in Requests \cup {NoRequest}, NEW k \in Sessions, NEW route \in Routes,
             NEW payload \in Payloads, PrepareRejected(r, k, route, payload)
      PROVE  Bounded'
  <2>1. Cardinality(Live(sessions')) <= MaxSessions
    BY <1>7, <1>3, RejectedForm
  <2>2. Used(pending') \subseteq Used(pending)
    BY <1>7, <1>4, RejectedForm
  <2> QED
    BY <2>1, <2>2, <1>1
<1>8. ASSUME NEW r \in Requests, CompleteSucceeded(r)
      PROVE  Bounded'
  <2>1. SucceededBy(pending[r], index') \in SessionRec /\ pending[r].session \in Sessions
    BY <1>8, SucceededForm, SucceededFields
  <2>2. Cardinality(Live(sessions')) <= MaxSessions
    BY <1>8, <2>1, <1>3, SucceededForm
  <2>3. Used(pending') \subseteq Used(pending)
    BY <1>8, <1>4, SucceededForm
  <2> QED
    BY <2>2, <2>3, <1>1
<1>9. ASSUME NEW r \in Requests, CompleteInvalid(r)
      PROVE  Bounded'
  <2>1. Cardinality(Live(sessions')) <= MaxSessions
    BY <1>9, <1>3, InvalidForm
  <2>2. Used(pending') \subseteq Used(pending)
    BY <1>9, <1>4, InvalidForm
  <2> QED
    BY <2>1, <2>2, <1>1
<1>10. ASSUME NEW r \in Requests, ExpirePending(r)
       PROVE  Bounded'
  <2>1. pending[r].session \in Sessions
    BY <1>10, TypeOKParts DEF ExpirePending, Used, PendingMap, PendingRec
  <2>2. /\ TaintSession(sessions, pending[r].session) \in SessionMap
        /\ Cardinality(Live(TaintSession(sessions, pending[r].session))) <= MaxSessions + 1
    BY <2>1, TypeOKParts, TaintType, StoreBounds DEF Bounded
  <2>3. Cardinality(Live(sessions')) <= MaxSessions
    BY <1>10, <2>2, TrimBounds DEF ExpirePending
  <2>4. Used(pending') \subseteq Used(pending)
    BY <1>10, <1>4 DEF ExpirePending
  <2> QED
    BY <2>3, <2>4, <1>1
<1>11. CASE Sweep
  <2>1. Live(sessions') \subseteq Live(sessions) /\ pending' = pending
    BY <1>11 DEF Sweep, Live
  <2> QED
    BY <2>1, <1>1, <1>2
<1>12. CASE Reopen
  <2>1. PICK content \in saved \cup {NoContent} : Live(sessions') \subseteq Live(content.sessions)
    BY <1>12, ReopenForm
  <2>2. Cardinality(Live(content.sessions)) <= MaxSessions
    <3>1. Live(NoContent.sessions) = {}
      BY DEF NoContent, NoSessions, Live
    <3> QED
      BY <3>1, FS_EmptySet, BoundsAssumption DEF SavedBounded
  <2>3. Cardinality(Live(sessions')) <= Cardinality(Live(content.sessions))
    BY <2>1, FiniteKeys, FS_Subset
  <2>4. Cardinality(Live(sessions')) <= MaxSessions
    BY <2>2, <2>3, FiniteKeys, BoundsAssumption
  <2>5. Used(pending') \subseteq Used(pending)
    BY <1>12, ReopenForm
  <2> QED
    BY <2>4, <2>5, <1>1
<1>13. CASE UNCHANGED <<sessions, pending>>
  BY <1>13 DEF Bounded
<1> QED
  BY <1>5, <1>6, <1>7, <1>8, <1>9, <1>10, <1>11, <1>12, <1>13, StepForms

\* The store never holds more sessions or pending requests than its caps, although each
\* of the two evictions inserts into the other's map (trimSessionsLocked,
\* trimPendingLocked).
THEOREM BoundedCorrect == Spec => []Bounded
<1>1. Init => Bounded /\ SavedBounded
  <2> SUFFICES ASSUME Init PROVE Bounded /\ SavedBounded
    OBVIOUS
  <2>1. Live(sessions) = {} /\ Used(pending) = {}
    BY DEF Init, Live, Used
  <2> QED
    BY <2>1, FS_EmptySet, BoundsAssumption DEF Bounded, SavedBounded, Init
<1>2. TypeOK /\ Bounded /\ SavedBounded /\ [Next]_stateVars => (Bounded /\ SavedBounded)'
  BY StepBounded
<1> QED
  BY <1>1, <1>2, TypeCorrect, PTL DEF Spec

-----------------------------------------------------------------------------
(* What a step does to one conversation that is in the store after it.     *)

\* Nothing but the update time changes, and taint may come.
Continues(old, new) ==
  /\ new.route = old.route /\ new.seq = old.seq
  /\ new.overflow = old.overflow /\ new.retired = old.retired
  /\ old.tainted => new.tainted

\* What a candidate or an expiry of any conversation does: the session continues, or it was
\* evicted and entered again, tainted and bound to no route.
Drifts(old, new) ==
  /\ new = old \/ new.updatedAt = now
  /\ Continues(old, new) \/ (new.tainted /\ new.route = NoRoute /\ new.seq = 0)

\* The conversation is tainted and bound to no route: evicted and entered again, or
\* unbound by a failed request of its own.
Unbinds(k, new) ==
  /\ new.tainted /\ new.route = NoRoute
  /\ \/ new.seq = 0
     \/ \E r \in Used(pending) \ Used(pending') :
          pending[r].session = k /\ new.seq = pending[r].seq

\* A request of the conversation succeeded.
Settles(k, new) ==
  /\ sweep = {}
  /\ \E r \in Used(pending) :
       /\ pending[r].session = k
       /\ pending' = PendingWithout(r) /\ index' = IndexWithout(r)
       /\ new = SucceededBy(pending[r], index')

\* A candidate of the conversation was rejected and its items were retired.
Retires(old, new) ==
  /\ CompactionPolicy = "block"
  /\ new.route = old.route /\ new.seq = old.seq
  /\ old.tainted => new.tainted

Evolves(k, old, new) ==
  /\ new = old \/ new.updatedAt = now
  /\ Continues(old, new) \/ Unbinds(k, new) \/ Settles(k, new) \/ Retires(old, new)

\* What drifts evolves.
LEMMA DriftEvolves ==
  ASSUME NEW k, NEW old, NEW new, Drifts(old, new)
  PROVE  Evolves(k, old, new)
  BY DEF Drifts, Evolves, Unbinds

\* Trimming keeps or evicts a session.
LEMMA TrimKeeps ==
  ASSUME NEW ss \in SessionMap, NEW idx, NEW tt \in TrimSessions(ss, idx), NEW k \in Sessions
  PROVE  tt[k] = ss[k] \/ tt[k] = Absent
  BY DEF TrimSessions, SessionMap

\* Tainting a session changes nothing else, of it or of another.
LEMMA TaintFields ==
  ASSUME TypeOK, NEW ss \in SessionMap, NEW k \in Sessions, NEW j \in Sessions
  PROVE  LET new == TaintSession(ss, k)[j]
             old == SessionOf(ss, k)
         IN  IF j # k THEN new = ss[j]
             ELSE /\ new \in SessionRec /\ new.tainted /\ new.updatedAt = now
                  /\ new.route = old.route /\ new.seq = old.seq
                  /\ new.overflow = old.overflow /\ new.retired = old.retired
<1>1. TaintSession(ss, k)[j] =
        IF j # k THEN ss[j]
        ELSE [SessionOf(ss, k) EXCEPT !.tainted = TRUE, !.updatedAt = now]
  BY DEF TaintSession, SessionMap
<1>2. SessionOf(ss, k) \in SessionRec /\ now \in Int
  BY SessionOfType, TypeOKParts
<1> DEFINE new == [SessionOf(ss, k) EXCEPT !.tainted = TRUE, !.updatedAt = now]
<1>3. /\ new \in SessionRec /\ new.updatedAt = now /\ new.tainted = TRUE
      /\ new.route = SessionOf(ss, k).route /\ new.seq = SessionOf(ss, k).seq
      /\ new.overflow = SessionOf(ss, k).overflow /\ new.retired = SessionOf(ss, k).retired
  BY <1>2, TouchedFields, ZenonT(60)
<1> HIDE DEF new
<1> QED
  BY <1>1, <1>3 DEF new

\* Storing a session and trimming does to each session what storing does to one.
LEMMA StoreEvolves ==
  ASSUME TypeOK, NEW j \in Sessions, NEW s \in SessionRec, NEW idx,
         Evolves(j, SessionOf(sessions, j), s),
         NEW tt \in TrimSessions([sessions EXCEPT ![j] = s], idx),
         NEW k \in Sessions, tt[k] # Absent
  PROVE  Evolves(k, SessionOf(sessions, k), tt[k])
<1> DEFINE stored == [sessions EXCEPT ![j] = s]
<1>1. stored \in SessionMap /\ stored[k] = IF k = j THEN s ELSE sessions[k]
  BY TypeOKParts, StoreType DEF SessionMap
<1> HIDE DEF stored
<1>2. tt[k] = stored[k]
  BY <1>1, TrimKeeps DEF stored
<1>3. CASE k = j
  BY <1>1, <1>2, <1>3
<1>4. CASE k # j
  <2>1. tt[k] = SessionOf(sessions, k)
    BY <1>1, <1>2, <1>4 DEF SessionOf
  <2> QED
    BY <2>1 DEF Evolves, Continues
<1> QED
  BY <1>3, <1>4

\* Tainting a session afterwards, which may have been evicted, and trimming again does so too.
LEMMA TaintDrifts ==
  ASSUME TypeOK, NEW ss \in SessionMap, NEW v \in Sessions, NEW idx,
         \A j \in Sessions : ss[j] # Absent =>
           /\ Continues(SessionOf(sessions, j), ss[j])
           /\ ss[j] = SessionOf(sessions, j) \/ ss[j].updatedAt = now,
         NEW tt \in TrimSessions(TaintSession(ss, v), idx),
         NEW k \in Sessions, tt[k] # Absent
  PROVE  Drifts(SessionOf(sessions, k), tt[k])
<1>1. tt[k] = TaintSession(ss, v)[k]
  BY TaintType, TypeOKParts, TrimKeeps
<1>2. CASE k # v
  <2>1. tt[k] = ss[k]
    BY <1>1, <1>2, TaintFields
  <2> QED
    BY <2>1 DEF Drifts
<1>3. CASE k = v
  <2>1. /\ tt[k].tainted /\ tt[k].updatedAt = now
        /\ tt[k].route = SessionOf(ss, k).route /\ tt[k].seq = SessionOf(ss, k).seq
        /\ tt[k].overflow = SessionOf(ss, k).overflow
        /\ tt[k].retired = SessionOf(ss, k).retired
    BY <1>1, <1>3, TaintFields
  <2>2. CASE ss[k] = Absent
    <3>1. tt[k].route = NoRoute /\ tt[k].seq = 0
      BY <2>1, <2>2 DEF SessionOf, Blank
    <3> QED
      BY <2>1, <3>1 DEF Drifts
  <2>3. CASE ss[k] # Absent
    <3>1. SessionOf(ss, k) = ss[k]
      BY <2>3 DEF SessionOf
    <3>2. Continues(SessionOf(sessions, k), tt[k])
      BY <2>1, <2>3, <3>1 DEF Continues
    <3> QED
      BY <2>1, <3>2 DEF Drifts
  <2> QED
    BY <2>2, <2>3
<1> QED
  BY <1>2, <1>3

\* Tracking a candidate, with the evictions it causes.
LEMMA TracksDrifts ==
  ASSUME TypeOK, NEW r \in Requests, NEW j \in Sessions, NEW route, Tracks(r, j, route),
         NEW k \in Sessions, sessions'[k] # Absent
  PROVE  Drifts(SessionOf(sessions, k), sessions'[k])
<1>1. PICK s \in SessionRec, p \in PendingRec :
        /\ Observes(s, r, j, route)
        /\ \E ss \in TrimSessions([sessions EXCEPT ![j] = s], IndexWithout(r)) :
             Track(r, p, ss)
  BY DEF Tracks
<1>2. PICK ss \in TrimSessions([sessions EXCEPT ![j] = s], IndexWithout(r)) :
        Track(r, p, ss)
  BY <1>1
<1> DEFINE stored == [sessions EXCEPT ![j] = s]
<1>3. stored \in SessionMap
  BY TypeOKParts, StoreType
<1>4. ss \in SessionMap
  BY <1>3, TrimType
<1>5. ASSUME NEW i \in Sessions, ss[i] # Absent
      PROVE  /\ Continues(SessionOf(sessions, i), ss[i])
             /\ ss[i] = SessionOf(sessions, i) \/ ss[i].updatedAt = now
  <2>1. stored[i] = IF i = j THEN s ELSE sessions[i]
    BY TypeOKParts DEF SessionMap
  <2> HIDE DEF stored
  <2>2. ss[i] = stored[i]
    BY <1>3, <1>5, TrimKeeps DEF stored
  <2>3. CASE i = j
    BY <1>1, <2>1, <2>2, <2>3 DEF Observes, Continues
  <2>4. CASE i # j
    <3>1. ss[i] = SessionOf(sessions, i)
      BY <1>5, <2>1, <2>2, <2>4 DEF SessionOf
    <3> QED
      BY <3>1 DEF Continues
  <2> QED
    BY <2>3, <2>4
<1> HIDE DEF stored
<1>6. CASE sessions' = ss
  BY <1>5, <1>6 DEF Drifts
<1>7. ASSUME NEW v \in Sessions, NEW idx, sessions' \in TrimSessions(TaintSession(ss, v), idx)
      PROVE  Drifts(SessionOf(sessions, k), sessions'[k])
  BY <1>4, <1>5, <1>7, TaintDrifts
<1>8. ASSUME NEW v \in OldestPending([pending EXCEPT ![r] = p])
      PROVE  [pending EXCEPT ![r] = p][v].session \in Sessions
  <2>1. [pending EXCEPT ![r] = p] \in PendingMap
    BY TypeOKParts DEF PendingMap
  <2> QED
    BY <2>1, <1>8 DEF OldestPending, Used, PendingMap, PendingRec
<1> QED
  BY <1>2, <1>6, <1>7, <1>8 DEF Track

\* Whatever a step does to a store in use, each session that is there afterwards continues, is
\* unbound and tainted, settles a request of its own, or has items of a rejected one retired.
LEMMA StepEvolves ==
  ASSUME TypeOK, [Next]_stateVars, ~Reopen, NEW k \in Sessions, sessions'[k] # Absent
  PROVE  Evolves(k, SessionOf(sessions, k), sessions'[k])
<1> DEFINE old == SessionOf(sessions, k)
           new == sessions'[k]
<1>1. ASSUME new = sessions[k]
      PROVE  Evolves(k, old, new)
  <2>1. new = old
    BY <1>1 DEF SessionOf
  <2> HIDE DEF old, new
  <2> QED
    BY <2>1 DEF Evolves, Continues
<1>2. ASSUME NEW r \in Requests \cup {NoRequest}, NEW j \in Sessions, NEW route \in Routes,
             NEW payload \in Payloads, PrepareRejected(r, j, route, payload)
      PROVE  Evolves(k, old, new)
  <2>1. PICK s \in SessionRec :
          /\ s.updatedAt = now
          /\ s.route = SessionOf(sessions, j).route /\ s.seq = SessionOf(sessions, j).seq
          /\ s.tainted <=> SessionOf(sessions, j).tainted \/ RouteMismatch(index', j, route)
          /\ sessions' \in TrimSessions([sessions EXCEPT ![j] = s], index')
    BY <1>2, RejectedForm
  <2>2. CompactionPolicy = "block"
    BY <1>2 DEF PrepareRejected, Rejects
  <2>3. Evolves(j, SessionOf(sessions, j), s)
    BY <2>1, <2>2 DEF Evolves, Retires
  <2> QED
    BY <2>1, <2>3, StoreEvolves
<1>3. ASSUME NEW r \in Requests, CompleteSucceeded(r)
      PROVE  Evolves(k, old, new)
  <2> DEFINE p == pending[r]
             s == SucceededBy(p, index')
  <2>1. /\ p \in PendingRec /\ p.session \in Sessions /\ r \in Used(pending)
        /\ pending' = PendingWithout(r) /\ index' = IndexWithout(r)
        /\ sessions' \in TrimSessions([sessions EXCEPT ![p.session] = s], index')
        /\ sweep = {}
    BY <1>3, SucceededForm DEF CompleteSucceeded, Used
  <2>2. s \in SessionRec /\ (s = SessionOf(sessions, p.session) \/ s.updatedAt = now)
    BY <2>1, SucceededFields
  <2>3. Evolves(p.session, SessionOf(sessions, p.session), s)
    BY <2>1, <2>2 DEF Evolves, Settles
  <2> HIDE DEF s
  <2> QED
    BY <2>1, <2>2, <2>3, StoreEvolves
<1>4. ASSUME NEW r \in Requests, CompleteInvalid(r)
      PROVE  Evolves(k, old, new)
  <2> DEFINE p == pending[r]
  <2>1. /\ p \in PendingRec /\ p.session \in Sessions /\ pending' = PendingWithout(r)
    BY <1>4, InvalidForm
  <2>2. r \in Used(pending) \ Used(pending')
    BY <1>4, <2>1, TypeOKParts DEF CompleteInvalid, Used, PendingWithout, PendingMap
  <2>3. PICK s \in SessionRec :
          /\ s.tainted /\ s.updatedAt = now
          /\ s.overflow = SessionOf(sessions, p.session).overflow
          /\ s.retired = SessionOf(sessions, p.session).retired
          /\ \/ /\ s.route = SessionOf(sessions, p.session).route
                /\ s.seq = SessionOf(sessions, p.session).seq
             \/ s.route = NoRoute /\ s.seq = p.seq
          /\ sessions' \in TrimSessions([sessions EXCEPT ![p.session] = s], index')
    BY <1>4, InvalidForm
  <2>4. Evolves(p.session, SessionOf(sessions, p.session), s)
    BY <2>2, <2>3 DEF Evolves, Continues, Unbinds
  <2> QED
    BY <2>1, <2>3, <2>4, StoreEvolves
<1>5. ASSUME NEW r \in Requests, ExpirePending(r)
      PROVE  Evolves(k, old, new)
  <2>1. pending[r].session \in Sessions
    BY <1>5, TypeOKParts DEF ExpirePending, Used, PendingMap, PendingRec
  <2>2. \A j \in Sessions : sessions[j] # Absent =>
          /\ Continues(SessionOf(sessions, j), sessions[j])
          /\ sessions[j] = SessionOf(sessions, j) \/ sessions[j].updatedAt = now
    BY DEF SessionOf, Continues
  <2>3. sessions \in SessionMap
    BY TypeOKParts
  <2>4. sessions' \in TrimSessions(TaintSession(sessions, pending[r].session), IndexWithout(r))
    BY <1>5 DEF ExpirePending
  <2> QED
    BY <2>1, <2>2, <2>3, <2>4, TaintDrifts, DriftEvolves
<1>6. CASE Sweep
  <2>1. new = sessions[k]
    BY <1>6 DEF Sweep
  <2> QED
    BY <2>1, <1>1
<1> QED
  BY <1>1, <1>2, <1>3, <1>4, <1>5, <1>6, TracksDrifts, DriftEvolves, StepForms DEF Forgets

\* Whatever a step does to the store, the requests that are pending afterwards were pending
\* before, but for one candidate that it tracks and numbers.
LEMMA StepRequests ==
  ASSUME TypeOK, [Next]_stateVars
  PROVE  \/ /\ \A r \in Used(pending') : r \in Used(pending) /\ pending'[r] = pending[r]
            /\ sequence' = sequence \/ (Used(pending') = {} /\ Reopen)
         \/ /\ sequence' = sequence + 1
            /\ \E q \in Requests :
                 /\ \E k \in Sessions, route \in Routes \cup {NoRoute} : Tracks(q, k, route)
                 /\ \A r \in Used(pending') :
                      IF r = q THEN pending'[q].seq = sequence + 1
                      ELSE r \in Used(pending) /\ pending'[r] = pending[r]
<1> DEFINE Kept == /\ \A r \in Used(pending') : r \in Used(pending) /\ pending'[r] = pending[r]
                   /\ sequence' = sequence \/ (Used(pending') = {} /\ Reopen)
<1>1. ASSUME NEW r \in Requests, pending' = PendingWithout(r), sequence' = sequence
      PROVE  Kept
  BY <1>1, TypeOKParts DEF Used, PendingWithout, PendingMap
<1>2. ASSUME pending' = pending, sequence' = sequence
      PROVE  Kept
  BY <1>2
<1>3. ASSUME NEW r \in Requests \cup {NoRequest}, NEW k \in Sessions, NEW route \in Routes,
             NEW payload \in Payloads, PrepareRejected(r, k, route, payload)
      PROVE  Kept
  <2>1. sequence' = sequence
    BY <1>3, RejectedForm
  <2>2. pending' = pending \/ \E q \in Requests : pending' = PendingWithout(q)
    BY <1>3, RejectedForm
  <2> HIDE DEF Kept
  <2> QED
    BY <2>1, <2>2, <1>1, <1>2
<1>4. ASSUME NEW q \in Requests, NEW k \in Sessions, NEW route, Tracks(q, k, route)
      PROVE  /\ sequence' = sequence + 1
             /\ \A r \in Used(pending') :
                  IF r = q THEN pending'[q].seq = sequence + 1
                  ELSE r \in Used(pending) /\ pending'[r] = pending[r]
  <2>1. sequence' = sequence + 1
    BY <1>4 DEF Tracks
  <2>2. PICK p \in PendingRec :
          /\ p.seq = sequence + 1
          /\ \E ss : Track(q, p, ss)
    BY <1>4 DEF Tracks
  <2> DEFINE pend == [pending EXCEPT ![q] = p]
  <2>3. \A r \in Requests : pend[r] = IF r = q THEN p ELSE pending[r]
    BY TypeOKParts DEF PendingMap
  <2>4. pend \in PendingMap
    BY TypeOKParts DEF PendingMap
  <2>5. pending' = pend \/ \E v \in Requests : pending' = [pend EXCEPT ![v] = Absent]
    BY <2>2 DEF Track, OldestPending, Used
  <2> HIDE DEF pend
  <2>6. \A r \in Used(pending') : r \in Requests /\ pending'[r] = pend[r] /\ pend[r] # Absent
    BY <2>4, <2>5 DEF Used, PendingMap
  <2> QED
    BY <2>1, <2>2, <2>3, <2>6 DEF Used
<1>5. ASSUME NEW r \in Requests,
             \/ CompleteSucceeded(r) \/ CompleteInvalid(r)
             \/ ExpirePending(r) \/ Forgets(r)
      PROVE  Kept
  <2>1. pending' = PendingWithout(r) /\ sequence' = sequence
    BY <1>5 DEF CompleteSucceeded, CompleteInvalid, ExpirePending, Forgets
  <2> QED
    BY <2>1, <1>1
<1>6. CASE Reopen
  BY <1>6, ReopenForm
<1>7. CASE Sweep \/ UNCHANGED <<pending, sequence>>
  <2>1. pending' = pending /\ sequence' = sequence
    BY <1>7 DEF Sweep
  <2> QED
    BY <2>1, <1>2
<1> QED
  BY <1>3, <1>4, <1>5, <1>6, <1>7, StepForms

-----------------------------------------------------------------------------
(* Bindings are never rolled back.                                         *)

\* What numbers mean: every pending request has a number of its own, no greater than the
\* newest, and no session bears the number of one that is still pending.
Numbered ==
  /\ \A r \in Used(pending) : pending[r].seq \in 1..sequence
  /\ \A r, q \in Used(pending) : pending[r].seq = pending[q].seq => r = q
  /\ \A k \in Live(sessions) :
       /\ sessions[k].seq <= sequence
       /\ \A r \in Used(pending) : pending[r].seq # sessions[k].seq

\* So it was in what the state file has held: no session was newer than the sequence.
SavedNumbered ==
  \A content \in saved : \A k \in Live(content.sessions) :
    content.sessions[k].seq <= content.sequence

\* In a store in use, a session takes its number from the one before, or from a request
\* that is no longer pending.
LEMMA StepNumbers ==
  ASSUME TypeOK, [Next]_stateVars, ~Reopen, NEW k \in Sessions, sessions'[k] # Absent
  PROVE  \/ sessions'[k].seq = 0
         \/ sessions[k] # Absent /\ sessions'[k].seq = sessions[k].seq
         \/ \E r \in Used(pending) \ Used(pending') : sessions'[k].seq = pending[r].seq
<1> DEFINE old == SessionOf(sessions, k)
           new == sessions'[k]
<1>1. IF sessions[k] = Absent THEN old.seq = 0 ELSE old = sessions[k]
  BY DEF SessionOf, Blank
<1>2. CASE Settles(k, new)
  <2>1. PICK r \in Used(pending) :
          /\ pending[r].session = k /\ pending' = PendingWithout(r)
          /\ new = SucceededBy(pending[r], index')
    BY <1>2 DEF Settles
  <2>2. pending[r] \in PendingRec /\ r \notin Used(pending')
    BY <2>1, TypeOKParts DEF Used, PendingWithout, PendingMap
  <2>3. new.seq = pending[r].seq \/ new.seq = old.seq
    BY <2>1, <2>2, SucceededFields
  <2> QED
    BY <1>1, <2>2, <2>3
<1>3. Evolves(k, old, new)
  BY StepEvolves
<1>4. new.seq = old.seq \/ Unbinds(k, new) \/ Settles(k, new)
  BY <1>3 DEF Evolves, Continues, Retires
<1> QED
  BY <1>1, <1>2, <1>4 DEF Unbinds

\* Every step keeps Numbered.
LEMMA StepNumbered ==
  ASSUME TypeOK, Numbered, SavedNumbered, [Next]_stateVars
  PROVE  Numbered' /\ SavedNumbered'
<1> SUFFICES Numbered'
  BY SavedForm DEF SavedNumbered, Content, Numbered
<1>1. /\ \A r \in Used(pending) : pending[r].seq \in Nat
      /\ \A k \in Live(sessions) : sessions[k].seq \in Nat
      /\ sequence \in Nat
  BY TypeOKParts DEF Used, Live, PendingMap, PendingRec, SessionMap, SessionRec
<1>2. ASSUME \A r \in Used(pending') : r \in Used(pending) /\ pending'[r] = pending[r],
             sequence' = sequence, ~Reopen
      PROVE  Numbered'
  <2>1. ASSUME NEW k \in Live(sessions')
        PROVE  /\ sessions'[k].seq <= sequence'
               /\ \A r \in Used(pending') : pending'[r].seq # sessions'[k].seq
    <3>1. \/ sessions'[k].seq = 0
          \/ sessions[k] # Absent /\ sessions'[k].seq = sessions[k].seq
          \/ \E r \in Used(pending) \ Used(pending') : sessions'[k].seq = pending[r].seq
      BY <1>2, StepNumbers DEF Live
    <3> QED
      BY <1>1, <1>2, <3>1 DEF Numbered, Live
  <2> QED
    BY <1>2, <2>1 DEF Numbered
<1>3. ASSUME NEW q \in Requests, sequence' = sequence + 1, ~Reopen,
             \A r \in Used(pending') :
               IF r = q THEN pending'[q].seq = sequence + 1
               ELSE r \in Used(pending) /\ pending'[r] = pending[r]
      PROVE  Numbered'
  <2>1. ASSUME NEW k \in Live(sessions')
        PROVE  /\ sessions'[k].seq <= sequence
               /\ \A r \in Used(pending') : pending'[r].seq # sessions'[k].seq
    <3>1. \/ sessions'[k].seq = 0
          \/ sessions[k] # Absent /\ sessions'[k].seq = sessions[k].seq
          \/ \E r \in Used(pending) \ Used(pending') : sessions'[k].seq = pending[r].seq
      BY <1>3, StepNumbers DEF Live
    <3>2. sessions'[k].seq <= sequence
      BY <1>1, <3>1 DEF Numbered, Live
    <3>3. \A r \in Used(pending') \ {q} : pending'[r].seq # sessions'[k].seq
      BY <1>1, <1>3, <3>1 DEF Numbered, Live
    <3>4. sessions'[k].seq # sequence + 1
      BY <1>1, <3>1, <3>2 DEF Live
    <3> QED
      BY <1>3, <3>2, <3>3, <3>4
  <2>2. \A k \in Live(sessions') : sessions'[k].seq <= sequence'
    <3>1. \A k \in Live(sessions') : sessions'[k].seq \in Nat
      <4>1. sessions' \in SessionMap
        BY StepType DEF TypeOK, SessionMap
      <4> QED
        BY <4>1 DEF Live, SessionMap, SessionRec
    <3> QED
      BY <1>1, <1>3, <2>1, <3>1
  <2>3. \A r \in Used(pending') : pending'[r].seq \in 1..sequence'
    BY <1>1, <1>3 DEF Numbered
  <2>4. \A r, s \in Used(pending') : pending'[r].seq = pending'[s].seq => r = s
    BY <1>1, <1>3 DEF Numbered
  <2> QED
    BY <2>1, <2>2, <2>3, <2>4 DEF Numbered
<1>4. CASE Reopen
  <2>1. PICK content \in saved \cup {NoContent} :
          /\ sequence' = content.sequence
          /\ \A k \in Live(sessions') :
               k \in Live(content.sessions) /\ sessions'[k] = content.sessions[k]
    BY <1>4, ReopenForm
  <2>2. \A k \in Live(content.sessions) : content.sessions[k].seq <= content.sequence
    BY DEF SavedNumbered, NoContent, NoSessions, Live
  <2>3. Used(pending') = {}
    BY <1>4, ReopenForm
  <2> QED
    BY <2>1, <2>2, <2>3 DEF Numbered
<1> QED
  BY <1>2, <1>3, <1>4, StepRequests

\* In a store in use a binding is replaced only by that of a request with a greater number.
LEMMA StepNoRollback ==
  ASSUME TypeOK, Numbered, [Next]_stateVars, ~Reopen, NEW k \in Sessions, Stays(k),
         sessions[k].route # NoRoute,
         sessions'[k].route \notin {NoRoute, sessions[k].route}
  PROVE  sessions'[k].seq > sessions[k].seq
<1> DEFINE old == sessions[k]
           new == sessions'[k]
<1>1. old # Absent /\ new # Absent /\ SessionOf(sessions, k) = old
  BY DEF Stays, SessionOf
<1>2. Settles(k, new)
  BY <1>1, StepEvolves DEF Evolves, Continues, Unbinds, Retires
<1>3. PICK r \in Used(pending) :
        pending[r].session = k /\ new = SucceededBy(pending[r], index')
  BY <1>2 DEF Settles
<1>4. pending[r] \in PendingRec /\ old \in SessionRec
  BY <1>1, TypeOKParts DEF Used, PendingMap, SessionMap
<1>5. Commits(old, pending[r]) /\ new.seq = pending[r].seq
  BY <1>1, <1>3, <1>4, SucceededFields
<1>6. pending[r].seq >= old.seq
  BY <1>5 DEF Commits
<1>7. pending[r].seq # old.seq
  BY <1>1 DEF Numbered, Live
<1>8. pending[r].seq \in Nat /\ old.seq \in Nat
  BY <1>4 DEF PendingRec, SessionRec
<1> QED
  BY <1>5, <1>6, <1>7, <1>8

\* The order of completions does not matter: while a store is in use, whatever completes
\* late, a conversation is bound from its present route only to that of a request prepared
\* later (complete).  Opening a store is excepted: it goes back to what was saved.
THEOREM NoRollbackCorrect == Spec => NoRollback
<1>1. Init => Numbered /\ SavedNumbered
  BY DEF Init, Numbered, SavedNumbered, Used, Live
<1>2. TypeOK /\ Numbered /\ SavedNumbered /\ [Next]_stateVars => (Numbered /\ SavedNumbered)'
  BY StepNumbered
<1>3. TypeOK /\ Numbered /\ [Next]_stateVars =>
        [~Reopen => \A k \in Sessions :
           /\ Stays(k)
           /\ sessions[k].route # NoRoute
           /\ sessions'[k].route \notin {NoRoute, sessions[k].route}
           => sessions'[k].seq > sessions[k].seq]_vars
  BY StepNoRollback
<1> QED
  BY <1>1, <1>2, <1>3, TypeCorrect, PTL DEF Spec, NoRollback

-----------------------------------------------------------------------------
(* Taint is cleared by a request that is alone.                            *)

\* A session loses its taint only to a request of its own that commits while, by the exact
\* index, no other is left.
LEMMA StepTaintCleared ==
  ASSUME TypeOK, IndexExact, [Next]_stateVars, ~Reopen, NEW k \in Sessions, Stays(k),
         sessions[k].tainted, ~sessions'[k].tainted
  PROVE  /\ PendingIn(pending', k) = {}
         /\ \E r \in PendingIn(pending, k) :
              /\ sessions'[k].route = pending[r].route
              /\ sessions'[k].seq = pending[r].seq
<1> DEFINE old == sessions[k]
           new == sessions'[k]
<1>1. old # Absent /\ new # Absent /\ SessionOf(sessions, k) = old
  BY DEF Stays, SessionOf
<1>2. Settles(k, new)
  BY <1>1, StepEvolves DEF Evolves, Continues, Unbinds, Retires
<1>3. PICK r \in Used(pending) :
        pending[r].session = k /\ new = SucceededBy(pending[r], index')
  BY <1>2 DEF Settles
<1>4. pending[r] \in PendingRec /\ r \in PendingIn(pending, k)
  BY <1>3, TypeOKParts DEF Used, PendingIn, PendingMap
<1>5. /\ Commits(old, pending[r]) /\ ClearsTaint(pending[r], index')
      /\ new.route = pending[r].route /\ new.seq = pending[r].seq
  BY <1>1, <1>3, <1>4, SucceededFields
<1>6. PendingIn(pending', k) = {}
  <2>1. index'[k].count = Cardinality(PendingIn(pending', k))
    BY StepExact DEF IndexExact
  <2>2. ~(index'[k].count > 0)
    BY <1>3, <1>5 DEF ClearsTaint, HasPending
  <2>3. IsFiniteSet(PendingIn(pending', k)) /\ Cardinality(PendingIn(pending', k)) \in Nat
    BY Counted
  <2>4. Cardinality(PendingIn(pending', k)) = 0
    BY <2>1, <2>2, <2>3
  <2> QED
    BY <2>3, <2>4, FS_EmptySet
<1> QED
  BY <1>4, <1>5, <1>6

\* While a store is in use, a conversation that stays in it leaves taint only by the commit of
\* a request of its own with no other left, as complete() decides by pendingBySession.
\* Opening a store is excepted: it has the taint that was saved.
THEOREM TaintClearedCorrect == Spec => TaintClearedAlone
<1>1. TypeOK /\ IndexExact /\ [Next]_stateVars =>
        [~Reopen => \A k \in Sessions :
           /\ Stays(k)
           /\ sessions[k].tainted
           /\ ~sessions'[k].tainted
           => /\ PendingIn(pending', k) = {}
              /\ \E r \in PendingIn(pending, k) :
                   /\ sessions'[k].route = pending[r].route
                   /\ sessions'[k].seq = pending[r].seq]_vars
  BY StepTaintCleared
<1> QED
  BY <1>1, IndexCorrect, TypeCorrect, PTL DEF Spec, TaintClearedAlone

-----------------------------------------------------------------------------
(* A store with room for every conversation.                               *)

\* No session is evicted: the hypothesis of the theorems below, which a store that evicts
\* conversations does not satisfy (cfg.MaxSessions).
Room == Cardinality(Sessions) <= MaxSessions

\* trimSessionsLocked leaves the sessions as they are.
LEMMA RoomTrims ==
  ASSUME Room, NEW ss, NEW idx
  PROVE  TrimSessions(ss, idx) = {ss}
<1>1. Live(ss) \in SUBSET Sessions
  BY DEF Live
<1>2. Cardinality(Live(ss)) <= Cardinality(Sessions)
  BY <1>1, FS_Subset, ConstantsAssumption
<1>3. Cardinality(Live(ss)) \in Nat /\ Cardinality(Sessions) \in Nat
  BY FiniteKeys, FS_CardinalityType, ConstantsAssumption
<1>4. Cardinality(Live(ss)) <= MaxSessions
  BY <1>2, <1>3, BoundsAssumption DEF Room
<1> QED
  BY <1>4 DEF TrimSessions

\* What a session that is stored does, with room.
LEMMA RoomStores ==
  ASSUME Room, TypeOK, NEW j \in Sessions, NEW s, NEW idx,
         NEW tt \in TrimSessions([sessions EXCEPT ![j] = s], idx), NEW k \in Sessions
  PROVE  tt[k] = IF k = j THEN s ELSE sessions[k]
<1>1. tt = [sessions EXCEPT ![j] = s]
  BY RoomTrims
<1> QED
  BY <1>1, TypeOKParts DEF SessionMap

\* Tracking a candidate, with room: its session is stored, a request that is evicted taints
\* its own.
LEMMA RoomTracks ==
  ASSUME Room, TypeOK, NEW r \in Requests, NEW k \in Sessions,
         NEW route \in Routes \cup {NoRoute}, Tracks(r, k, route)
  PROVE  \E s \in SessionRec, p \in PendingRec :
           /\ Observes(s, r, k, route)
           /\ p.session = k /\ p.route = route /\ p.seq = sequence + 1 /\ p.observedAt = now
           /\ \A q \in Used(pending') :
                IF q = r THEN pending'[q] = p
                ELSE q \in Used(pending) /\ pending'[q] = pending[q]
           /\ \A j \in Sessions :
                \/ sessions'[j] = IF j = k THEN s ELSE sessions[j]
                \/ sessions'[j] # Absent /\ sessions'[j].tainted /\ sessions'[j].updatedAt = now
<1>1. PICK s \in SessionRec, p \in PendingRec :
        /\ Observes(s, r, k, route)
        /\ p.session = k /\ p.route = route /\ p.seq = sequence + 1 /\ p.observedAt = now
        /\ \E ss \in TrimSessions([sessions EXCEPT ![k] = s], IndexWithout(r)) :
             Track(r, p, ss)
  BY DEF Tracks
<1> DEFINE stored == [sessions EXCEPT ![k] = s]
           pend == [pending EXCEPT ![r] = p]
<1>2. Track(r, p, stored)
  BY <1>1, RoomTrims
<1>3. stored \in SessionMap /\ pend \in PendingMap
  BY TypeOKParts, StoreType DEF PendingMap
<1>4. /\ \A q \in Requests : pend[q] = IF q = r THEN p ELSE pending[q]
      /\ \A j \in Sessions : stored[j] = IF j = k THEN s ELSE sessions[j]
  BY TypeOKParts DEF PendingMap, SessionMap
<1> HIDE DEF stored, pend
<1>5. pending' = pend \/ \E v \in Requests : pending' = [pend EXCEPT ![v] = Absent]
  BY <1>2 DEF Track, OldestPending, Used, pend
<1>6. \A q \in Used(pending') : q \in Requests /\ pending'[q] = pend[q] /\ pend[q] # Absent
  BY <1>3, <1>5 DEF Used, PendingMap
<1>7. \/ sessions' = stored
      \/ \E v \in OldestPending(pend) : sessions' = TaintSession(stored, pend[v].session)
  <2>1. \/ sessions' = stored
        \/ \E v \in OldestPending(pend) : \E left :
             sessions' \in TrimSessions(TaintSession(stored, pend[v].session), left)
    BY <1>2 DEF Track, pend
  <2>2. ASSUME NEW v \in OldestPending(pend), NEW left,
               sessions' \in TrimSessions(TaintSession(stored, pend[v].session), left)
        PROVE  sessions' = TaintSession(stored, pend[v].session)
    BY <2>2, RoomTrims
  <2> QED
    BY <2>1, <2>2
<1>8. ASSUME NEW v \in OldestPending(pend), NEW j \in Sessions,
             sessions' = TaintSession(stored, pend[v].session)
      PROVE  \/ sessions'[j] = stored[j]
             \/ sessions'[j] # Absent /\ sessions'[j].tainted /\ sessions'[j].updatedAt = now
  <2>1. pend[v].session \in Sessions
    BY <1>3 DEF OldestPending, Used, PendingMap, PendingRec
  <2>2. IF j # pend[v].session THEN sessions'[j] = stored[j]
        ELSE /\ sessions'[j] \in SessionRec /\ sessions'[j].tainted
             /\ sessions'[j].updatedAt = now
    BY <1>3, <1>8, <2>1, TaintFields
  <2> QED
    BY <2>2, AbsentAssumption
<1>9. \A j \in Sessions :
        \/ sessions'[j] = stored[j]
        \/ sessions'[j] # Absent /\ sessions'[j].tainted /\ sessions'[j].updatedAt = now
  BY <1>7, <1>8
<1>10. \A q \in Used(pending') :
         IF q = r THEN pending'[q] = p ELSE q \in Used(pending) /\ pending'[q] = pending[q]
  BY <1>4, <1>6 DEF Used
<1>11. \A j \in Sessions :
         \/ sessions'[j] = IF j = k THEN s ELSE sessions[j]
         \/ sessions'[j] # Absent /\ sessions'[j].tainted /\ sessions'[j].updatedAt = now
  BY <1>4, <1>9
<1> QED
  BY <1>1, <1>10, <1>11

\* A pending request that the purge in progress is not about to drop has its session, which
\* was updated no earlier than the request was observed: the session cannot expire first.
Attached ==
  \A r \in Used(pending) \ sweep :
    LET k == pending[r].session
    IN  /\ pending[r].observedAt <= now
        /\ sessions[k] # Absent
        /\ pending[r].observedAt <= sessions[k].updatedAt

\* With room, only a purge and a restart delete sessions.
LEMMA RoomKeeps ==
  ASSUME Room, TypeOK, [Next]_stateVars, ~Sweep, ~Reopen, NEW k \in Sessions, sessions[k] # Absent
  PROVE  sessions'[k] # Absent
<1>1. ASSUME NEW j \in Sessions, NEW s \in SessionRec, NEW idx,
             sessions' \in TrimSessions([sessions EXCEPT ![j] = s], idx)
      PROVE  sessions'[k] # Absent
  <2>1. sessions'[k] = IF k = j THEN s ELSE sessions[k]
    BY <1>1, RoomStores
  <2> QED
    BY <2>1, AbsentAssumption
<1>2. ASSUME NEW r \in Requests \cup {NoRequest}, NEW j \in Sessions, NEW route \in Routes,
             NEW payload \in Payloads, PrepareRejected(r, j, route, payload)
      PROVE  sessions'[k] # Absent
  BY <1>1, <1>2, RejectedForm
<1>3. ASSUME NEW r \in Requests, CompleteSucceeded(r)
      PROVE  sessions'[k] # Absent
  <2>1. SucceededBy(pending[r], index') \in SessionRec /\ pending[r].session \in Sessions
    BY <1>3, SucceededForm, SucceededFields
  <2> QED
    BY <1>1, <1>3, <2>1, SucceededForm
<1>4. ASSUME NEW r \in Requests, CompleteInvalid(r)
      PROVE  sessions'[k] # Absent
  BY <1>1, <1>4, InvalidForm
<1>5. ASSUME NEW r \in Requests, ExpirePending(r)
      PROVE  sessions'[k] # Absent
  <2>1. pending[r].session \in Sessions
    BY <1>5, TypeOKParts DEF ExpirePending, Used, PendingMap, PendingRec
  <2>2. sessions' = TaintSession(sessions, pending[r].session)
    BY <1>5, RoomTrims DEF ExpirePending
  <2> QED
    BY <2>1, <2>2, TypeOKParts, TaintFields, AbsentAssumption
<1>6. ASSUME NEW r \in Requests, NEW j \in Sessions, NEW route \in Routes \cup {NoRoute},
             Tracks(r, j, route)
      PROVE  sessions'[k] # Absent
  BY <1>6, RoomTracks, AbsentAssumption
<1>7. CASE sessions' = sessions
  BY <1>7
<1> QED
  BY <1>2, <1>3, <1>4, <1>5, <1>6, <1>7, StepForms DEF Forgets

\* A purge in progress leaves room for nothing but dropping what it found expired.
LEMMA PurgeAlone ==
  ASSUME TypeOK, [Next]_stateVars, sweep # {}
  PROVE  \/ UNCHANGED <<sessions, pending, index, sequence, now, sweep>>
         \/ \E r \in Requests : ExpirePending(r)
<1>1. ASSUME NEW r \in Requests \cup {NoRequest}, NEW j \in Sessions, NEW route \in Routes,
             NEW payload \in Payloads, PrepareRejected(r, j, route, payload)
      PROVE  FALSE
  BY <1>1 DEF PrepareRejected, Ready
<1>2. ASSUME NEW r \in Requests, CompleteSucceeded(r) \/ CompleteInvalid(r)
      PROVE  FALSE
  BY <1>2 DEF CompleteSucceeded, CompleteInvalid, Ready
<1> QED
  BY <1>1, <1>2, StepForms, ReopenForm DEF Forgets, Tracks, Sweep

\* The requests that a step leaves pending, and does not mark as expired, were so before,
\* or were tracked by it.
LEMMA StepUnexpired ==
  ASSUME TypeOK, [Next]_stateVars, NEW r \in Used(pending') \ sweep'
  PROVE  r \notin sweep
<1>1. CASE sweep = {}
  BY <1>1
<1>2. CASE UNCHANGED <<sessions, pending, index, sequence, now, sweep>>
  BY <1>2
<1>3. ASSUME NEW q \in Requests, ExpirePending(q)
      PROVE  r \notin sweep
  BY <1>3, TypeOKParts DEF ExpirePending, Used, PendingWithout, PendingMap
<1> QED
  BY <1>1, <1>2, <1>3, PurgeAlone

\* With room, every step keeps requests attached.
LEMMA StepAttached ==
  ASSUME Room, TypeOK, Attached, [Next]_stateVars
  PROVE  Attached'
<1>1. SUFFICES ASSUME NEW r \in Used(pending') \ sweep'
               PROVE  LET k == pending'[r].session
                      IN  /\ pending'[r].observedAt <= now'
                          /\ sessions'[k] # Absent
                          /\ pending'[r].observedAt <= sessions'[k].updatedAt
  BY DEF Attached
<1>2. /\ now \in Nat /\ now' \in Nat /\ now <= now'
      /\ pending \in PendingMap /\ pending' \in PendingMap
      /\ sessions \in SessionMap /\ sessions' \in SessionMap
  <2>1. TypeOK'
    BY StepType
  <2>2. now' = now \/ now' = now + 1
    <3>1. ASSUME NEW q, NEW k, NEW route, NEW payload, PrepareRejected(q, k, route, payload)
          PROVE  now' = now
      BY <3>1 DEF PrepareRejected
    <3>2. ASSUME NEW q, CompleteSucceeded(q) \/ CompleteInvalid(q) \/ ExpirePending(q)
          PROVE  now' = now
      BY <3>2 DEF CompleteSucceeded, CompleteInvalid, ExpirePending
    <3>3. CASE Sweep \/ Reopen
      BY <3>3, ReopenForm DEF Sweep
    <3> QED
      BY <3>1, <3>2, <3>3, StepForms DEF Forgets, Tracks
  <2> QED
    BY <2>1, <2>2 DEF TypeOK, PendingMap, SessionMap
<1>3. pending'[r] \in PendingRec /\ pending'[r].session \in Sessions
  BY <1>1, <1>2 DEF Used, PendingMap, PendingRec
<1> DEFINE k == pending'[r].session
<1>4. ASSUME r \in Used(pending), pending'[r] = pending[r], ~Sweep, ~Reopen
      PROVE  /\ pending'[r].observedAt <= now'
             /\ sessions'[k] # Absent
             /\ pending'[r].observedAt <= sessions'[k].updatedAt
  <2>1. /\ pending[r].observedAt <= now /\ sessions[k] # Absent
        /\ pending[r].observedAt <= sessions[k].updatedAt
    BY <1>4, StepUnexpired DEF Attached
  <2>2. sessions'[k] # Absent
    BY <1>3, <1>4, <2>1, RoomKeeps
  <2>3. sessions'[k] = sessions[k] \/ sessions'[k].updatedAt = now
    BY <1>3, <1>4, <2>1, <2>2, StepEvolves DEF Evolves, SessionOf
  <2>4. pending'[r].observedAt \in Nat
    BY <1>3 DEF PendingRec
  <2> QED
    BY <1>2, <1>4, <2>1, <2>2, <2>3, <2>4
<1>5. CASE Sweep
  <2>1. /\ r \in Used(pending) /\ sweep = {} /\ pending' = pending /\ now' = now
        /\ ~(now - pending[r].observedAt > StateTTL)
    BY <1>1, <1>5 DEF Sweep, Used
  <2>2. /\ pending[r].observedAt <= now /\ sessions[k] # Absent
        /\ pending[r].observedAt <= sessions[k].updatedAt
    BY <2>1 DEF Attached
  <2>3. pending[r].observedAt \in Nat /\ sessions[k].updatedAt \in Int
    BY <1>2, <1>3, <2>1, <2>2 DEF PendingRec, SessionMap, SessionRec
  <2>4. ~(now - sessions[k].updatedAt > StateTTL)
    BY <1>2, <2>1, <2>2, <2>3, BoundsAssumption
  <2>5. sessions'[k] = sessions[k]
    BY <1>3, <1>5, <2>4 DEF Sweep
  <2> QED
    BY <2>1, <2>2, <2>5
<1>6. ASSUME NEW q \in Requests, NEW j \in Sessions, NEW route \in Routes \cup {NoRoute},
             Tracks(q, j, route), r = q
      PROVE  /\ pending'[r].observedAt <= now'
             /\ sessions'[k] # Absent
             /\ pending'[r].observedAt <= sessions'[k].updatedAt
  <2>1. PICK s \in SessionRec, p \in PendingRec :
          /\ Observes(s, q, j, route) /\ p.session = j /\ p.observedAt = now
          /\ pending'[r] = p
          /\ \/ sessions'[j] = s
             \/ sessions'[j] # Absent /\ sessions'[j].tainted /\ sessions'[j].updatedAt = now
    BY <1>1, <1>6, RoomTracks
  <2>2. sessions'[j] # Absent /\ sessions'[j].updatedAt = now
    BY <2>1, AbsentAssumption DEF Observes
  <2> QED
    BY <1>2, <2>1, <2>2
<1>7. ASSUME NEW q \in Requests, NEW j \in Sessions, NEW route \in Routes \cup {NoRoute},
             Tracks(q, j, route), r # q
      PROVE  r \in Used(pending) /\ pending'[r] = pending[r] /\ ~Sweep /\ ~Reopen
  <2>1. r \in Used(pending) /\ pending'[r] = pending[r]
    BY <1>1, <1>7, RoomTracks
  <2>2. sequence \in Nat /\ sequence' = sequence + 1 /\ Used(pending') # {}
    BY <1>1, <1>7 DEF Tracks, TypeOK
  <2>3. ~Sweep /\ ~Reopen
    <3>1. ~Reopen
      BY <2>2, ReopenForm
    <3>2. ~Sweep
      BY <2>2 DEF Sweep
    <3> QED
      BY <3>1, <3>2
  <2> QED
    BY <2>1, <2>3
<1>8. ASSUME ~Sweep, \A q \in Used(pending') : q \in Used(pending) /\ pending'[q] = pending[q]
      PROVE  r \in Used(pending) /\ pending'[r] = pending[r] /\ ~Sweep /\ ~Reopen
  BY <1>1, <1>8, ReopenForm
<1>9. \/ \A q \in Used(pending') : q \in Used(pending) /\ pending'[q] = pending[q]
      \/ \E q \in Requests, j \in Sessions, route \in Routes \cup {NoRoute} :
           Tracks(q, j, route)
  BY StepRequests
<1> QED
  BY <1>4, <1>5, <1>6, <1>7, <1>8, <1>9

\* A step leaves taint in place while another request of the conversation is pending.
LEMMA TaintStays ==
  ASSUME TypeOK, IndexExact, [Next]_stateVars, NEW k \in Sessions, Stays(k),
         sessions[k].tainted, PendingIn(pending', k) # {}
  PROVE  sessions'[k].tainted
<1>1. ~Reopen
  BY ReopenForm DEF PendingIn, Used
<1> QED
  BY <1>1, StepTaintCleared

\* A candidate whose conversation has another request on another known route is tracked
\* tainted: the exact index counts more requests than those of its route.
LEMMA TracksTainted ==
  ASSUME Room, TypeOK, IndexExact, NEW r \in Requests, NEW k \in Sessions,
         NEW route \in Routes, Tracks(r, k, route),
         NEW q \in Used(pending), q # r, pending[q].session = k, pending[q].route # route
  PROVE  sessions'[k].tainted
<1> DEFINE idx == IndexWithout(r)
           pend == PendingWithout(r)
<1>1. Exact(idx, pend)
  BY WithoutExact
<1>2. route # NoRoute
  BY ConstantsAssumption
<1>3. q \in PendingIn(pend, k) /\ q \notin PendingOn(pend, k, route)
  BY TypeOKParts DEF PendingWithout, PendingMap, PendingIn, PendingOn, Used
<1>4. /\ idx[k].count = Cardinality(PendingIn(pend, k))
      /\ idx[k].routes[route] = Cardinality(PendingOn(pend, k, route))
  BY <1>1 DEF Exact
<1> HIDE DEF idx, pend
<1>5. Cardinality(PendingOn(pend, k, route)) <= Cardinality(PendingIn(pend, k)) - 1
  <2>1. PendingOn(pend, k, route) \in SUBSET (PendingIn(pend, k) \ {q})
    BY <1>3 DEF PendingOn
  <2>2. IsFiniteSet(PendingIn(pend, k) \ {q})
    BY Counted, FS_RemoveElement
  <2>3. Cardinality(PendingIn(pend, k) \ {q}) = Cardinality(PendingIn(pend, k)) - 1
    BY <1>3, Counted, FS_RemoveElement
  <2>4. Cardinality(PendingOn(pend, k, route)) <= Cardinality(PendingIn(pend, k) \ {q})
    BY <2>1, <2>2, FS_Subset
  <2> QED
    BY <2>3, <2>4
<1>6. RouteMismatch(idx, k, route)
  <2>1. /\ Cardinality(PendingOn(pend, k, route)) \in Nat
        /\ Cardinality(PendingIn(pend, k)) \in Nat
    BY Counted
  <2> QED
    BY <1>4, <1>5, <2>1 DEF RouteMismatch
<1>7. PICK s \in SessionRec :
        /\ Observes(s, r, k, route)
        /\ sessions'[k] = s \/ sessions'[k].tainted
  BY RoomTracks
<1>8. s.tainted
  BY <1>2, <1>6, <1>7 DEF Observes, idx
<1> QED
  BY <1>7, <1>8

\* With room, every step keeps a conversation with requests in flight on two routes tainted.
LEMMA StepAmbiguity ==
  ASSUME Room, TypeOK, IndexExact, Attached, AmbiguityTainted, [Next]_stateVars
  PROVE  AmbiguityTainted'
<1>1. pending \in PendingMap /\ pending' \in PendingMap
  BY StepType DEF TypeOK, PendingMap
<1>2. ASSUME NEW r1 \in Used(pending'), NEW r2 \in Used(pending'),
             r1 \in Used(pending), pending'[r1] = pending[r1],
             r2 \in Used(pending), pending'[r2] = pending[r2],
             pending[r1].session = pending[r2].session,
             pending[r1].route # pending[r2].route,
             NoRoute \notin {pending[r1].route, pending[r2].route},
             sessions'[pending[r1].session] # Absent
      PROVE  sessions'[pending[r1].session].tainted
  <2> DEFINE k == pending[r1].session
  <2>1. k \in Sessions /\ PendingIn(pending', k) # {}
    BY <1>1, <1>2 DEF Used, PendingMap, PendingRec, PendingIn
  <2>2. CASE sessions[k] # Absent
    <3>1. sessions[k].tainted /\ Stays(k)
      BY <1>2, <2>2 DEF AmbiguityTainted, Stays
    <3> QED
      BY <2>1, <3>1, TaintStays
  <2>3. CASE sessions[k] = Absent
    <3>1. r1 \in sweep
      BY <1>2, <2>3 DEF Attached
    <3>2. PICK q \in Requests : ExpirePending(q)
      BY <1>2, <2>3, <3>1, PurgeAlone
    <3>3. pending[q].session \in Sessions
      BY <1>1, <3>2, TypeOKParts DEF ExpirePending, Used, PendingMap, PendingRec
    <3>4. sessions' = TaintSession(sessions, pending[q].session)
      BY <3>2, RoomTrims DEF ExpirePending
    <3>5. sessions'[k] = sessions[k] \/ sessions'[k].tainted
      BY <2>1, <3>3, <3>4, TypeOKParts, TaintFields
    <3> QED
      BY <1>2, <2>3, <3>5
  <2> QED
    BY <2>2, <2>3
<1>3. ASSUME NEW q \in Requests, NEW j \in Sessions, NEW route \in Routes \cup {NoRoute},
             Tracks(q, j, route), NEW r \in Used(pending'), r # q,
             q \in Used(pending'),
             pending'[q].session = pending'[r].session,
             pending'[q].route # pending'[r].route,
             NoRoute \notin {pending'[q].route, pending'[r].route}
      PROVE  sessions'[pending'[q].session].tainted
  <2>1. /\ pending'[q].session = j /\ pending'[q].route = route
        /\ r \in Used(pending) /\ pending'[r] = pending[r]
    BY <1>3, RoomTracks
  <2>2. route \in Routes /\ pending[r].session = j /\ pending[r].route # route
    BY <1>3, <2>1
  <2>3. sessions'[j].tainted
    BY <1>3, <2>1, <2>2, TracksTainted
  <2> QED
    BY <2>1, <2>3
<1>4. CASE \A r \in Used(pending') : r \in Used(pending) /\ pending'[r] = pending[r]
  BY <1>2, <1>4 DEF AmbiguityTainted
<1>5. ASSUME NEW q \in Requests, NEW j \in Sessions, NEW route \in Routes \cup {NoRoute},
             Tracks(q, j, route),
             \A r \in Used(pending') : r # q => r \in Used(pending) /\ pending'[r] = pending[r]
      PROVE  AmbiguityTainted'
  <2> SUFFICES ASSUME NEW r1 \in Used(pending'), NEW r2 \in Used(pending'),
                      pending'[r1].session = pending'[r2].session,
                      pending'[r1].route # pending'[r2].route,
                      NoRoute \notin {pending'[r1].route, pending'[r2].route},
                      sessions'[pending'[r1].session] # Absent
               PROVE  sessions'[pending'[r1].session].tainted
    BY DEF AmbiguityTainted
  <2>1. CASE r1 = q
    BY <1>3, <1>5, <2>1
  <2>2. CASE r2 = q
    BY <1>3, <1>5, <2>2
  <2>3. CASE r1 # q /\ r2 # q
    BY <1>2, <1>5, <2>3
  <2> QED
    BY <2>1, <2>2, <2>3
<1> QED
  BY <1>4, <1>5, StepRequests

\* With room for every conversation, the store trusts no route for a conversation while
\* requests of it are in flight on two ("Different credentials/models in flight for one
\* conversation create an ambiguous continuation order", prepare).
THEOREM AmbiguityCorrect ==
  ASSUME Room
  PROVE  Spec => []AmbiguityTainted
<1>1. Init => Attached /\ AmbiguityTainted
  BY DEF Init, Attached, AmbiguityTainted, Used
<1>2. TypeOK /\ IndexExact /\ Attached /\ AmbiguityTainted /\ [Next]_stateVars
        => (Attached /\ AmbiguityTainted)'
  BY StepAttached, StepAmbiguity
<1> QED
  BY <1>1, <1>2, TypeCorrect, IndexCorrect, PTL DEF Spec

\* With room, a conversation that a newer request bound to a route stays tainted until the
\* requests on other routes that were in flight then are gone.
Outranked ==
  \A r \in Used(pending) :
    LET p == pending[r]
        s == sessions[p.session]
    IN  /\ s # Absent
        /\ p.route # NoRoute /\ s.route \notin {NoRoute, p.route}
        /\ s.seq > p.seq
        => s.tainted

\* With room, every step keeps Outranked.
LEMMA StepOutranked ==
  ASSUME Room, TypeOK, IndexExact, Numbered, SavedNumbered, Attached, AmbiguityTainted,
         Outranked, [Next]_stateVars
  PROVE  Outranked'
<1>1. /\ pending \in PendingMap /\ pending' \in PendingMap
      /\ sessions \in SessionMap /\ sessions' \in SessionMap
  BY StepType DEF TypeOK, PendingMap, SessionMap
<1>2. SUFFICES ASSUME NEW r \in Used(pending'),
                      sessions'[pending'[r].session] # Absent,
                      pending'[r].route # NoRoute,
                      sessions'[pending'[r].session].route \notin {NoRoute, pending'[r].route},
                      sessions'[pending'[r].session].seq > pending'[r].seq
               PROVE  sessions'[pending'[r].session].tainted
  BY DEF Outranked
<1> DEFINE p == pending'[r]
           k == p.session
           old == SessionOf(sessions, k)
           new == sessions'[k]
<1>3. p \in PendingRec /\ k \in Sessions /\ p.seq \in Nat
  BY <1>1 DEF Used, PendingMap, PendingRec
<1>4. CASE pending'[r].seq = sequence + 1 /\ sequence' = sequence + 1
  <2>1. new.seq <= sequence'
    BY <1>2, <1>3, StepNumbered DEF Numbered, Live
  <2>2. new.seq \in Nat
    BY <1>1, <1>2, <1>3 DEF SessionMap, SessionRec
  <2> QED
    BY <1>2, <1>3, <1>4, <2>1, <2>2
<1>5. CASE r \in Used(pending) /\ pending'[r] = pending[r]
  <2>1. ASSUME new.route = old.route, new.seq = old.seq
        PROVE  sessions[k] # Absent /\ old = sessions[k] /\ old.tainted
    <3>1. sessions[k] # Absent
      BY <1>2, <2>1 DEF SessionOf, Blank
    <3>2. old = sessions[k]
      BY <3>1 DEF SessionOf
    <3> QED
      BY <1>2, <1>5, <2>1, <3>1, <3>2 DEF Outranked
  <2>2. CASE Continues(old, new) \/ Retires(old, new)
    <3>1. new.route = old.route /\ new.seq = old.seq /\ (old.tainted => new.tainted)
      BY <2>2 DEF Continues, Retires
    <3> QED
      BY <2>1, <3>1
  <2>3. CASE Unbinds(k, new)
    BY <2>3 DEF Unbinds
  <2>4. CASE Settles(k, new)
    <3>1. PICK q \in Used(pending) :
            /\ pending[q].session = k /\ pending' = PendingWithout(q)
            /\ new = SucceededBy(pending[q], index')
      BY <2>4 DEF Settles
    <3>2. pending[q] \in PendingRec /\ q # r
      BY <1>1, <1>2, <3>1 DEF Used, PendingMap, PendingWithout
    <3>3. sessions[k] # Absent /\ old = sessions[k]
      BY <1>5, <2>4 DEF Settles, Attached, SessionOf
    <3>4. CASE ~Commits(old, pending[q])
      <4>1. new.route = old.route /\ new.seq = old.seq /\ new.tainted = old.tainted
        BY <3>1, <3>2, <3>4, SucceededFields
      <4> QED
        BY <2>1, <4>1
    <3>5. CASE Commits(old, pending[q])
      <4>1. new.route = pending[q].route
        BY <3>1, <3>2, <3>5, SucceededFields
      <4>2. old.tainted
        BY <1>2, <1>5, <3>1, <3>3, <4>1 DEF AmbiguityTainted
      <4>3. Stays(k) /\ PendingIn(pending', k) # {}
        BY <1>2, <3>3 DEF Stays, PendingIn, Used
      <4> QED
        BY <1>3, <3>3, <4>2, <4>3, TaintStays
    <3> QED
      BY <3>4, <3>5
  <2>5. Evolves(k, old, new)
    BY <1>2, <1>3, ReopenForm, StepEvolves
  <2> QED
    BY <2>2, <2>3, <2>4, <2>5 DEF Evolves
<1> QED
  BY <1>2, <1>4, <1>5, StepRequests

-----------------------------------------------------------------------------
(* Barriers last.                                                          *)

\* Retiring for every route, or for the route a session is bound to, or giving up counting,
\* adds to its barrier.
LEMMA RetireGrows ==
  ASSUME NEW s \in SessionRec, NEW items \in SUBSET Items, NEW route \in {NoRoute, s.route}
  PROVE  /\ Barrier(s) \subseteq Barrier(RetireItems(s, items, route))
         /\ Barrier(s) \subseteq Barrier(MarkRetiredOverflow(s))
<1> DEFINE scope == IF route = NoRoute THEN AnyRoute ELSE route
           f == [i \in Items |-> IF i \in items THEN scope ELSE s.retired[i]]
           u == [s EXCEPT !.updatedAt = now, !.retired = f]
           v == [s EXCEPT !.updatedAt = now]
<1>1. Barrier(s) \subseteq Items
  BY DEF Barrier
<1>2. Barrier(MarkRetiredOverflow(s)) = Items
  BY DEF Barrier, MarkRetiredOverflow, SessionRec
<1>3. v.route = s.route /\ v.overflow = s.overflow /\ v.retired = s.retired
  BY DEF SessionRec
<1>4. u.route = s.route /\ u.overflow = s.overflow /\ u.retired = f
  <2> HIDE DEF f
  <2> QED
    BY DEF SessionRec
<1>5. RetireItems(s, items, route) \in {v, MarkRetiredOverflow(s), u}
  BY DEF RetireItems
<1> HIDE DEF u, v
<1>6. Barrier(s) \subseteq Barrier(v)
  BY <1>3 DEF Barrier
<1>7. scope \in {AnyRoute, s.route}
  OBVIOUS
<1> HIDE DEF scope
<1>8. Barrier(s) \subseteq Barrier(u)
  BY <1>4, <1>7 DEF Barrier
<1> QED
  BY <1>1, <1>2, <1>5, <1>6, <1>8

\* What a success retires adds to the barrier of a session that stays bound to its route, if
\* the request was for that route or an unknown one.
LEMMA SuccessGrows ==
  ASSUME TypeOK, NEW p \in PendingRec, NEW idx,
         LET old == SessionOf(sessions, p.session)
             new == SucceededBy(p, idx)
         IN  /\ new.route = old.route
             /\ p.route \in {NoRoute, old.route}
  PROVE  Barrier(SessionOf(sessions, p.session)) \subseteq Barrier(SucceededBy(p, idx))
<1> DEFINE old == SessionOf(sessions, p.session)
           new == SucceededBy(p, idx)
           retired == RetiredBy(p)
<1>1. /\ p.session \in Sessions /\ p.retired \in SUBSET Items /\ old \in SessionRec
      /\ p.route \in Routes \cup {NoRoute}
  BY TypeOKParts, SessionOfType DEF PendingRec
<1>2. retired \in {old, MarkRetiredOverflow(old), RetireItems(old, p.retired, p.route)}
  BY DEF RetiredBy
<1> HIDE DEF old
<1>3. Barrier(old) \subseteq Barrier(retired)
  <2> HIDE DEF retired
  <2> QED
    BY <1>1, <1>2, RetireGrows DEF old
<1>4. retired \in SessionRec /\ retired.route = old.route
  <2> HIDE DEF retired
  <2> QED
    BY <1>1, <1>2, RetiredFields
<1>5. new = retired \/ new = CommittedBy(p, idx)
  BY DEF SucceededBy
<1>6. /\ CommittedBy(p, idx).retired = retired.retired
      /\ CommittedBy(p, idx).overflow = retired.overflow
  <2> HIDE DEF retired
  <2> QED
    BY <1>4 DEF CommittedBy, SessionRec, retired
<1> HIDE DEF new, retired
<1>7. Barrier(retired) \subseteq Barrier(new)
  BY <1>4, <1>5, <1>6 DEF Barrier, old, new
<1> QED
  BY <1>3, <1>7 DEF old, new

\* A step weakens no barrier of a session that stays bound to its route, unless it rejects.
LEMMA StepBarrier ==
  ASSUME TypeOK, Attached, Outranked, CompactionPolicy = "strip", [Next]_stateVars, ~Reopen,
         NEW k \in Sessions, Stays(k), sessions[k].route # NoRoute,
         sessions'[k].route = sessions[k].route,
         ~sessions[k].tainted, ~sessions'[k].tainted
  PROVE  Barrier(sessions[k]) \subseteq Barrier(sessions'[k])
<1> DEFINE old == sessions[k]
           new == sessions'[k]
<1>1. old # Absent /\ new # Absent /\ SessionOf(sessions, k) = old
  BY DEF Stays, SessionOf
<1>2. Continues(old, new) \/ Settles(k, new)
  BY <1>1, StepEvolves DEF Evolves, Unbinds, Retires
<1>3. CASE Continues(old, new)
  BY <1>3 DEF Continues, Barrier
<1>4. CASE Settles(k, new)
  <2>1. PICK r \in Used(pending) :
          pending[r].session = k /\ new = SucceededBy(pending[r], index')
    BY <1>4 DEF Settles
  <2>2. pending[r] \in PendingRec /\ old \in SessionRec
    BY <1>1, TypeOKParts DEF Used, PendingMap, SessionMap
  <2>3. CASE Commits(old, pending[r])
    <3>1. new.route = pending[r].route
      BY <1>1, <2>1, <2>2, <2>3, SucceededFields
    <3> QED
      BY <1>1, <2>1, <2>2, <3>1, SuccessGrows
  <2>4. CASE ~Commits(old, pending[r])
    <3>1. pending[r].route = NoRoute \/ ~(pending[r].seq >= old.seq)
      BY <2>4 DEF Commits
    <3>2. pending[r].seq \in Nat /\ old.seq \in Nat
      BY <2>2 DEF PendingRec, SessionRec
    <3>3. pending[r].route \in {NoRoute, old.route}
      BY <1>1, <2>1, <3>1, <3>2 DEF Outranked
    <3> QED
      BY <1>1, <2>1, <2>2, <3>3, SuccessGrows
  <2> QED
    BY <2>3, <2>4
<1> QED
  BY <1>2, <1>3, <1>4

\* With room and the strip policy, while a store is in use, nothing that happens to other
\* candidates weakens the barrier of a conversation that stays bound and untainted (prepare:
\* "without poisoning the previously committed route").  Under the block policy a rejection
\* does (PrepareRejected).  Opening a store is excepted: it has the barrier that was saved.
THEOREM BarrierKeptCorrect ==
  ASSUME Room, CompactionPolicy = "strip"
  PROVE  Spec => BarrierKept
<1>1. Init => /\ TypeOK /\ IndexExact /\ Numbered /\ SavedNumbered
              /\ Attached /\ AmbiguityTainted /\ Outranked
  <2>1. Init => Numbered /\ SavedNumbered
    BY DEF Init, Numbered, SavedNumbered, Used, Live
  <2>2. Init => Attached /\ AmbiguityTainted /\ Outranked
    BY DEF Init, Attached, AmbiguityTainted, Outranked, Used
  <2> QED
    BY <2>1, <2>2, InitType, InitExact
<1>2. TypeOK /\ IndexExact /\ Numbered /\ SavedNumbered
      /\ Attached /\ AmbiguityTainted /\ Outranked /\ [Next]_stateVars
        => (TypeOK /\ IndexExact /\ Numbered /\ SavedNumbered
            /\ Attached /\ AmbiguityTainted /\ Outranked)'
  BY StepType, StepExact, StepNumbered, StepAttached, StepAmbiguity, StepOutranked
<1>3. TypeOK /\ Attached /\ Outranked /\ [Next]_stateVars =>
        [~Reopen => \A k \in Sessions :
           /\ Stays(k)
           /\ sessions[k].route # NoRoute
           /\ sessions'[k].route = sessions[k].route
           /\ ~sessions[k].tainted /\ ~sessions'[k].tainted
           => Barrier(sessions[k]) \subseteq Barrier(sessions'[k])]_vars
  BY StepBarrier
<1> QED
  BY <1>1, <1>2, <1>3, PTL DEF Spec, BarrierKept
=============================================================================
