-------------------------- MODULE RouteStateProofs --------------------------
(***************************************************************************)
(* Proofs about RouteState, for every value of its constants that the      *)
(* assumptions of RouteState admit.                                        *)
(***************************************************************************)
EXTENDS RouteState, FiniteSetTheorems, TLAPS

\* The types of the three maps, whatever their values.
SessionMap == [Sessions -> SessionRec \cup {Absent}]
PendingMap == [Requests -> PendingRec \cup {Absent}]
IndexMap == [Sessions -> IndexRec]

-----------------------------------------------------------------------------
(* Types of the operators on sessions.                                     *)

\* The zero session is a session.
LEMMA BlankType == Blank \in SessionRec
  BY BoundsAssumption, ConstantsAssumption DEF Blank, SessionRec, ZeroTime

\* Reading the map gives a session, whether the key is there or not.
LEMMA SessionOfType ==
  ASSUME NEW ss \in SessionMap, NEW k \in Sessions
  PROVE  SessionOf(ss, k) \in SessionRec
  BY BlankType, AbsentAssumption DEF SessionMap, SessionOf

\* Changing one field of a session gives a session.
LEMMA FieldType ==
  ASSUME NEW s \in SessionRec
  PROVE  /\ \A t \in Int : [s EXCEPT !.updatedAt = t] \in SessionRec
         /\ \A b \in BOOLEAN : [s EXCEPT !.tainted = b] \in SessionRec
         /\ \A b \in BOOLEAN : [s EXCEPT !.overflow = b] \in SessionRec
         /\ \A n \in Nat : [s EXCEPT !.seq = n] \in SessionRec
         /\ \A route \in Routes \cup {NoRoute} : [s EXCEPT !.route = route] \in SessionRec
         /\ \A f \in [Items -> Routes \cup {NotRetired, AnyRoute}] :
              [s EXCEPT !.retired = f] \in SessionRec
  BY DEF SessionRec

\* Tainting, binding and committing give a session.
LEMMA TaintedType ==
  ASSUME NEW s \in SessionRec, NEW b \in BOOLEAN, NEW t \in Int
  PROVE  [s EXCEPT !.tainted = b, !.updatedAt = t] \in SessionRec
<1>1. [s EXCEPT !.tainted = b] \in SessionRec
  BY FieldType
<1> QED
  BY <1>1, FieldType

\* Binding a session to a route, or to none, gives a session.
LEMMA BoundType ==
  ASSUME NEW s \in SessionRec, NEW route \in Routes \cup {NoRoute}, NEW n \in Nat
  PROVE  [s EXCEPT !.route = route, !.seq = n] \in SessionRec
<1>1. [s EXCEPT !.route = route] \in SessionRec
  BY FieldType
<1> QED
  BY <1>1, FieldType

\* So does everything a commit changes.
LEMMA CommittedType ==
  ASSUME NEW s \in SessionRec, NEW route \in Routes \cup {NoRoute}, NEW n \in Nat,
         NEW t \in Int, NEW b \in BOOLEAN
  PROVE  [s EXCEPT !.route = route, !.seq = n, !.updatedAt = t, !.tainted = b]
           \in SessionRec
<1>1. [s EXCEPT !.route = route, !.seq = n] \in SessionRec
  BY BoundType
<1>2. [s EXCEPT !.route = route, !.seq = n, !.updatedAt = t] \in SessionRec
  BY <1>1, FieldType
<1> QED
  BY <1>2, FieldType

\* Emptying the barrier gives a session.
LEMMA OverflowType ==
  ASSUME NEW s \in SessionRec, now \in Nat
  PROVE  MarkRetiredOverflow(s) \in SessionRec
<1> DEFINE none == [i \in Items |-> NotRetired]
<1>1. none \in [Items -> Routes \cup {NotRetired, AnyRoute}]
  OBVIOUS
<1> HIDE DEF none
<1>2. now \in Int
  OBVIOUS
<1>3. [s EXCEPT !.overflow = TRUE] \in SessionRec
  BY DEF SessionRec
<1>4. [s EXCEPT !.overflow = TRUE, !.updatedAt = now] \in SessionRec
  BY <1>2, <1>3, FieldType
<1>5. [s EXCEPT !.overflow = TRUE, !.updatedAt = now, !.retired = none] \in SessionRec
  BY <1>1, <1>4, FieldType
<1> QED
  BY <1>5 DEF MarkRetiredOverflow, none

\* Retiring items gives a session, whether or not their route is known.
LEMMA RetireType ==
  ASSUME NEW s \in SessionRec, NEW items \in SUBSET Items,
         NEW route \in Routes \cup {NoRoute}, now \in Nat
  PROVE  RetireItems(s, items, route) \in SessionRec
<1> DEFINE scope == IF route = NoRoute THEN AnyRoute ELSE route
           retired == [i \in Items |-> IF i \in items THEN scope ELSE s.retired[i]]
<1>1. retired \in [Items -> Routes \cup {NotRetired, AnyRoute}]
  BY DEF SessionRec
<1>2. [s EXCEPT !.updatedAt = now] \in SessionRec
  BY FieldType
<1>3. [s EXCEPT !.updatedAt = now, !.retired = retired] \in SessionRec
  <2> HIDE DEF retired
  <2> QED
    BY <1>1, <1>2, FieldType
<1>4. RetireItems(s, items, route) \in
        {[s EXCEPT !.updatedAt = now], MarkRetiredOverflow(s),
         [s EXCEPT !.updatedAt = now, !.retired = retired]}
  BY DEF RetireItems
<1> QED
  BY <1>2, <1>3, <1>4, OverflowType

\* A map stays a map of sessions when one of them is stored, tainted or evicted.
LEMMA StoreType ==
  ASSUME NEW ss \in SessionMap, NEW k, NEW s \in SessionRec
  PROVE  [ss EXCEPT ![k] = s] \in SessionMap
  BY DEF SessionMap

\* Tainting a session of the map, present or not, gives a map of sessions.
LEMMA TaintType ==
  ASSUME NEW ss \in SessionMap, NEW k \in Sessions, now \in Nat
  PROVE  TaintSession(ss, k) \in SessionMap
<1>1. SessionOf(ss, k) \in SessionRec /\ now \in Int
  BY SessionOfType
<1>2. [SessionOf(ss, k) EXCEPT !.tainted = TRUE, !.updatedAt = now] \in SessionRec
  BY <1>1, TaintedType
<1> QED
  BY <1>2, StoreType DEF TaintSession

\* Evicting a session gives a map of sessions.
LEMMA TrimType ==
  ASSUME NEW ss \in SessionMap, NEW idx, NEW tt \in TrimSessions(ss, idx)
  PROVE  tt \in SessionMap
  BY DEF TrimSessions, SessionMap

-----------------------------------------------------------------------------
(* Types of the operators on pending requests and their index.             *)

\* An entry that does not exist counts nothing.
LEMMA NoPendingType == NoPending \in IndexRec
  BY DEF NoPending, IndexRec

\* Counting one request more.
LEMMA IndexAddType ==
  ASSUME NEW idx \in IndexMap, NEW p \in PendingRec
  PROVE  IndexAdd(idx, p) \in IndexMap
<1> DEFINE e == idx[p.session]
           n == [count |-> e.count + 1, routes |-> [e.routes EXCEPT ![p.route] = @ + 1]]
<1>1. e \in IndexRec /\ p.route \in Routes \cup {NoRoute}
  BY DEF IndexMap, PendingRec
<1>2. n \in IndexRec
  BY <1>1 DEF IndexRec
<1>3. [idx EXCEPT ![p.session] = n] \in IndexMap
  BY <1>2 DEF IndexMap
<1> QED
  BY <1>3 DEF IndexAdd

\* Counting one request less: no counter becomes negative.
LEMMA IndexRemoveType ==
  ASSUME NEW idx \in IndexMap, NEW p \in PendingRec
  PROVE  IndexRemove(idx, p) \in IndexMap
<1> DEFINE e == idx[p.session]
           n == [count |-> e.count - 1,
                 routes |-> [e.routes EXCEPT ![p.route] = IF @ <= 1 THEN 0 ELSE @ - 1]]
           m == IF e.count <= 1 THEN NoPending ELSE n
<1>1. e \in IndexRec /\ p.route \in Routes \cup {NoRoute}
  BY DEF IndexMap, PendingRec
<1>2. ASSUME e.count > 1 PROVE n \in IndexRec
  BY <1>1, <1>2 DEF IndexRec
<1>3. m \in IndexRec
  <2>1. CASE e.count <= 1
    BY <2>1, NoPendingType
  <2>2. CASE ~(e.count <= 1)
    <3>1. e.count \in Nat
      BY <1>1 DEF IndexRec
    <3>2. e.count > 1
      BY <3>1, <2>2
    <3> QED
      BY <3>2, <1>2, <2>2
  <2> QED
    BY <2>1, <2>2
<1>4. [idx EXCEPT ![p.session] = m] \in IndexMap
  BY <1>3 DEF IndexMap
<1> QED
  BY <1>4 DEF IndexRemove

\* Forgetting a request keeps the types, whether or not it is there.
LEMMA WithoutType ==
  ASSUME NEW r \in Requests, pending \in PendingMap, index \in IndexMap
  PROVE  PendingWithout(r) \in PendingMap /\ IndexWithout(r) \in IndexMap
<1>1. PendingWithout(r) \in PendingMap
  BY DEF PendingWithout, PendingMap
<1>2. CASE pending[r] = Absent
  BY <1>1, <1>2 DEF IndexWithout
<1>3. CASE pending[r] # Absent
  <2>1. pending[r] \in PendingRec
    BY <1>3 DEF PendingMap
  <2> QED
    BY <1>1, <1>3, <2>1, IndexRemoveType DEF IndexWithout
<1> QED
  BY <1>2, <1>3

\* Tracking a request keeps the types, whether or not another one is evicted.
LEMMA TrackType ==
  ASSUME TypeOK, NEW r \in Requests, NEW p \in PendingRec, NEW ss \in SessionMap,
         Track(r, p, ss)
  PROVE  sessions' \in SessionMap /\ pending' \in PendingMap /\ index' \in IndexMap
<1> DEFINE pend == [pending EXCEPT ![r] = p]
           idx == IndexAdd(IndexWithout(r), p)
<1>1. pending \in PendingMap /\ index \in IndexMap /\ now \in Nat
  BY DEF TypeOK, PendingMap, IndexMap
<1>2. pend \in PendingMap
  BY <1>1 DEF PendingMap
<1>3. idx \in IndexMap
  BY <1>1, WithoutType, IndexAddType
<1> HIDE DEF pend, idx
<1>4. CASE sessions' = ss /\ pending' = pend /\ index' = idx
  BY <1>2, <1>3, <1>4
<1>5. ASSUME NEW v \in OldestPending(pend),
             pending' = [pend EXCEPT ![v] = Absent],
             index' = IndexRemove(idx, pend[v]),
             sessions' \in TrimSessions(TaintSession(ss, pend[v].session),
                                       IndexRemove(idx, pend[v]))
      PROVE  sessions' \in SessionMap /\ pending' \in PendingMap /\ index' \in IndexMap
  <2>1. v \in Requests /\ pend[v] \in PendingRec
    BY <1>2 DEF OldestPending, Used, PendingMap
  <2>2. TaintSession(ss, pend[v].session) \in SessionMap
    BY <1>1, <2>1, TaintType DEF PendingRec
  <2>3. sessions' \in SessionMap
    BY <1>5, <2>2, TrimType
  <2>4. index' \in IndexMap
    BY <1>3, <1>5, <2>1, IndexRemoveType
  <2>5. pending' \in PendingMap
    BY <1>2, <1>5 DEF PendingMap
  <2> QED
    BY <2>3, <2>4, <2>5
<1> QED
  BY <1>4, <1>5 DEF Track, pend, idx

\* The session prepare decides on is a session.
LEMMA ObservedType ==
  ASSUME TypeOK, NEW r, NEW k \in Sessions, NEW route
  PROVE  Observed(r, k, route) \in SessionRec
<1>1. SessionOf(sessions, k) \in SessionRec /\ now \in Nat
  BY SessionOfType DEF TypeOK, SessionMap
<1>2. now \in Int
  BY <1>1
<1>3. [SessionOf(sessions, k) EXCEPT !.tainted = TRUE, !.updatedAt = now] \in SessionRec
  BY <1>1, <1>2, TaintedType
<1> QED
  BY <1>1, <1>3 DEF Observed

\* What a completed request leaves of its session is a session.
LEMMA SucceededType ==
  ASSUME TypeOK, NEW p \in PendingRec, NEW b \in BOOLEAN
  PROVE  LET found == SessionOf(sessions, p.session)
             retired == IF p.overflow THEN MarkRetiredOverflow(found)
                        ELSE IF p.retired # {} THEN RetireItems(found, p.retired, p.route)
                        ELSE found
         IN  /\ retired \in SessionRec
             /\ [retired EXCEPT !.route = p.route, !.seq = p.seq, !.updatedAt = now,
                               !.tainted = @ /\ b] \in SessionRec
<1> DEFINE found == SessionOf(sessions, p.session)
           retired == IF p.overflow THEN MarkRetiredOverflow(found)
                      ELSE IF p.retired # {} THEN RetireItems(found, p.retired, p.route)
                      ELSE found
<1>1. /\ p.session \in Sessions /\ p.route \in Routes \cup {NoRoute}
      /\ p.seq \in Nat /\ p.retired \in SUBSET Items
  BY DEF PendingRec
<1>2. found \in SessionRec /\ now \in Nat
  BY <1>1, SessionOfType DEF TypeOK, SessionMap
<1> HIDE DEF found
<1>3. retired \in SessionRec
  BY <1>1, <1>2, OverflowType, RetireType
<1> HIDE DEF retired
<1>4. now \in Int /\ (retired.tainted /\ b) \in BOOLEAN
  BY <1>2
<1>5. [retired EXCEPT !.route = p.route, !.seq = p.seq, !.updatedAt = now,
                      !.tainted = retired.tainted /\ b] \in SessionRec
  BY <1>1, <1>3, <1>4, CommittedType
<1> QED
  BY <1>3, <1>5 DEF retired, found

-----------------------------------------------------------------------------
(* Type correctness.                                                       *)

\* Types of the three maps and of the rest make up TypeOK.
LEMMA TypeOKParts ==
  TypeOK <=> /\ sessions \in SessionMap /\ pending \in PendingMap /\ index \in IndexMap
             /\ sequence \in Nat /\ now \in Nat /\ nextPurge \in Nat
             /\ sweep \subseteq Used(pending) /\ saved \subseteq ContentRec
  BY DEF TypeOK, SessionMap, PendingMap, IndexMap

\* The empty store has the types.
LEMMA InitType == Init => TypeOK
<1> SUFFICES ASSUME Init PROVE TypeOK
  OBVIOUS
<1>1. index \in IndexMap
  BY NoPendingType DEF Init, IndexMap
<1>2. sessions \in SessionMap /\ pending \in PendingMap
  BY DEF Init, SessionMap, PendingMap
<1> QED
  BY <1>1, <1>2, TypeOKParts DEF Init

\* The payloads of requests carry items.
LEMMA PayloadType ==
  ASSUME NEW payload \in Payloads
  PROVE  /\ payload.items \in SUBSET Items
         /\ TooMany(payload.items) \in BOOLEAN
         /\ RetiredOnSuccess(payload.items) \in SUBSET Items
  BY DEF Payloads, TooMany, RetiredOnSuccess

\* Each method of the store keeps TypeOK.
LEMMA PrepareUntrackedType ==
  ASSUME TypeOK, NEW r \in Requests \cup {NoRequest}, NEW k, NEW route, NEW payload,
         PrepareUntracked(r, k, route, payload)
  PROVE  TypeOK'
<1>1. CASE r = NoRequest
  BY <1>1 DEF PrepareUntracked, TypeOK, Used
<1>2. CASE r \in Requests
  <2>1. PendingWithout(r) \in PendingMap /\ IndexWithout(r) \in IndexMap
    BY <1>2, TypeOKParts, WithoutType
  <2>2. pending' = PendingWithout(r) /\ index' = IndexWithout(r)
    BY <1>2, ConstantsAssumption DEF PrepareUntracked
  <2> QED
    BY <2>1, <2>2 DEF PrepareUntracked, TypeOK, PendingMap, IndexMap, Ready
<1> QED
  BY <1>1, <1>2

\* Tracking a stripped request on an unknown route keeps the types.
LEMMA PrepareUnknownType ==
  ASSUME TypeOK, NEW r \in Requests, NEW k \in Sessions, NEW payload \in Payloads,
         PrepareUnknown(r, k, payload)
  PROVE  TypeOK'
<1> DEFINE s == [SessionOf(sessions, k) EXCEPT !.updatedAt = now]
           stored == [sessions EXCEPT ![k] = s]
           p == [session |-> k, route |-> NoRoute, seq |-> sequence + 1,
                 observedAt |-> now, canClearTaint |-> FALSE,
                 overflow |-> TooMany(payload.items),
                 retired |-> RetiredOnSuccess(payload.items)]
<1>1. SessionOf(sessions, k) \in SessionRec /\ now \in Int /\ sessions \in SessionMap
  BY SessionOfType, TypeOKParts
<1>2. s \in SessionRec
  BY <1>1, FieldType
<1>3. stored \in SessionMap
  BY <1>1, <1>2, StoreType
<1>4. p \in PendingRec
  BY PayloadType DEF PendingRec, TypeOK
<1> HIDE DEF s, stored, p
<1>5. PICK ss \in TrimSessions(stored, IndexWithout(r)) : Track(r, p, ss)
  BY DEF PrepareUnknown, stored, s, p
<1>6. sessions' \in SessionMap /\ pending' \in PendingMap /\ index' \in IndexMap
  BY <1>3, <1>4, <1>5, TrimType, TrackType
<1> QED
  BY <1>6 DEF PrepareUnknown, TypeOK, SessionMap, PendingMap, IndexMap, Ready

\* Rejecting a candidate keeps the types.
LEMMA PrepareRejectedType ==
  ASSUME TypeOK, NEW r \in Requests \cup {NoRequest}, NEW k \in Sessions,
         NEW route \in Routes, NEW payload \in Payloads,
         PrepareRejected(r, k, route, payload)
  PROVE  TypeOK'
<1> DEFINE s == RetireItems(Observed(r, k, route), payload.items, route)
           idx == IF r = NoRequest THEN index ELSE IndexWithout(r)
<1>1. s \in SessionRec
  BY ObservedType, PayloadType, RetireType DEF TypeOK
<1>2. [sessions EXCEPT ![k] = s] \in SessionMap
  BY <1>1, TypeOKParts, StoreType
<1>3. idx \in IndexMap
  BY TypeOKParts, WithoutType
<1>4. pending' \in PendingMap
  BY TypeOKParts, WithoutType DEF PrepareRejected
<1> HIDE DEF s
<1>5. sessions' \in TrimSessions([sessions EXCEPT ![k] = s], idx) /\ index' = idx
  BY DEF PrepareRejected, s
<1>6. sessions' \in SessionMap
  BY <1>2, <1>5, TrimType
<1> QED
  BY <1>3, <1>4, <1>5, <1>6
     DEF PrepareRejected, TypeOK, SessionMap, PendingMap, IndexMap, Ready

\* Tracking a candidate on a known route keeps the types.
LEMMA PrepareTrackedType ==
  ASSUME TypeOK, NEW r \in Requests, NEW k \in Sessions, NEW route \in Routes,
         NEW payload \in Payloads, PrepareTracked(r, k, route, payload)
  PROVE  TypeOK'
<1> DEFINE session == Observed(r, k, route)
           strip == Strips(session, route, payload)
           clean == strip \/ ~RouteBound(payload)
           alone == ~HasPending(IndexWithout(r), k)
           s == [session EXCEPT !.updatedAt = now]
           stored == [sessions EXCEPT ![k] = s]
           p == [session |-> k, route |-> route, seq |-> sequence + 1,
                 observedAt |-> now,
                 canClearTaint |-> session.tainted /\ clean /\ alone,
                 overflow |-> strip /\ TooMany(payload.items),
                 retired |-> IF strip THEN RetiredOnSuccess(payload.items) ELSE {}]
<1>1. session \in SessionRec /\ now \in Int /\ sessions \in SessionMap
  BY ObservedType, TypeOKParts
<1> HIDE DEF session
<1>2. s \in SessionRec
  BY <1>1, FieldType
<1>3. stored \in SessionMap
  BY <1>1, <1>2, StoreType
<1>4. /\ (session.tainted /\ clean /\ alone) \in BOOLEAN
      /\ (strip /\ TooMany(payload.items)) \in BOOLEAN
  OBVIOUS
<1>5. (IF strip THEN RetiredOnSuccess(payload.items) ELSE {}) \in SUBSET Items
  BY PayloadType
<1>6. p \in PendingRec
  <2> HIDE DEF strip, clean, alone
  <2> QED
    BY <1>4, <1>5 DEF PendingRec, TypeOK
<1> HIDE DEF s, stored, p
<1>7. PICK ss \in TrimSessions(stored, IndexWithout(r)) : Track(r, p, ss)
  BY DEF PrepareTracked, stored, s, p, session
<1>8. sessions' \in SessionMap /\ pending' \in PendingMap /\ index' \in IndexMap
  BY <1>3, <1>6, <1>7, TrimType, TrackType
<1> QED
  BY <1>8 DEF PrepareTracked, TypeOK, SessionMap, PendingMap, IndexMap, Ready

\* Committing a successful request keeps the types.
LEMMA CompleteSucceededType ==
  ASSUME TypeOK, NEW r \in Requests, CompleteSucceeded(r)
  PROVE  TypeOK'
<1> DEFINE p == pending[r]
           idx == IndexWithout(r)
           found == SessionOf(sessions, p.session)
           retired == IF p.overflow THEN MarkRetiredOverflow(found)
                      ELSE IF p.retired # {} THEN RetireItems(found, p.retired, p.route)
                      ELSE found
           bound == [retired EXCEPT !.route = p.route, !.seq = p.seq, !.updatedAt = now,
                                    !.tainted = @ /\ ~ClearsTaint(p, idx)]
           current == IF Commits(retired, p) THEN bound ELSE retired
<1>1. p \in PendingRec
  BY TypeOKParts DEF CompleteSucceeded, PendingMap
<1>2. (~ClearsTaint(p, idx)) \in BOOLEAN
  OBVIOUS
<1>3. retired \in SessionRec /\ bound \in SessionRec
  <2> HIDE DEF p, idx
  <2> QED
    BY <1>1, <1>2, SucceededType
<1>4. current \in SessionRec
  <2> HIDE DEF retired, bound
  <2> QED
    BY <1>3
<1>5. sessions' \in TrimSessions([sessions EXCEPT ![p.session] = current], idx)
  BY DEF CompleteSucceeded
<1> HIDE DEF current
<1>6. sessions' \in SessionMap
  BY <1>4, <1>5, TypeOKParts, StoreType, TrimType
<1>7. PendingWithout(r) \in PendingMap /\ IndexWithout(r) \in IndexMap
  BY TypeOKParts, WithoutType
<1> QED
  BY <1>6, <1>7
     DEF CompleteSucceeded, TypeOK, SessionMap, PendingMap, IndexMap, Ready

\* An undecryptable item keeps the types.
LEMMA CompleteInvalidType ==
  ASSUME TypeOK, NEW r \in Requests, CompleteInvalid(r)
  PROVE  TypeOK'
<1> DEFINE p == pending[r]
           found == [SessionOf(sessions, p.session) EXCEPT !.tainted = TRUE,
                                                           !.updatedAt = now]
           unbinds == found.route # NoRoute /\ found.route = p.route /\ found.seq <= p.seq
           unbound == [found EXCEPT !.route = NoRoute, !.seq = p.seq]
           current == IF unbinds THEN unbound ELSE found
<1>1. p \in PendingRec
  BY TypeOKParts DEF CompleteInvalid, PendingMap
<1>2. SessionOf(sessions, p.session) \in SessionRec /\ now \in Int
  BY <1>1, TypeOKParts, SessionOfType DEF PendingRec
<1>3. found \in SessionRec
  BY <1>2, TaintedType
<1>4. unbound \in SessionRec
  <2> HIDE DEF found
  <2> QED
    BY <1>1, <1>3, BoundType DEF PendingRec
<1>5. current \in SessionRec
  <2> HIDE DEF found, unbound, unbinds
  <2> QED
    BY <1>3, <1>4
<1>6. sessions' \in TrimSessions([sessions EXCEPT ![p.session] = current], IndexWithout(r))
  BY DEF CompleteInvalid
<1> HIDE DEF current
<1>7. sessions' \in SessionMap
  BY <1>5, <1>6, TypeOKParts, StoreType, TrimType
<1>8. PendingWithout(r) \in PendingMap /\ IndexWithout(r) \in IndexMap
  BY TypeOKParts, WithoutType
<1> QED
  BY <1>7, <1>8
     DEF CompleteInvalid, TypeOK, SessionMap, PendingMap, IndexMap, Ready

\* Forgetting a request, or discarding it, keeps the types.
LEMMA ForgottenType ==
  ASSUME TypeOK, NEW r \in Requests, CompleteFailed(r) \/ DiscardPending(r)
  PROVE  TypeOK'
<1>1. PendingWithout(r) \in PendingMap /\ IndexWithout(r) \in IndexMap
  BY TypeOKParts, WithoutType
<1> QED
  BY <1>1 DEF CompleteFailed, DiscardPending, TypeOK, PendingMap, IndexMap, Ready

\* A purge schedules the next one at a natural number: TypeOK is kept.
LEMMA SweepType ==
  ASSUME TypeOK, Sweep
  PROVE  TypeOK'
<1> DEFINE goneSessions == {k \in Live(sessions) : now - sessions[k].updatedAt > StateTTL}
           gonePending == {r \in Used(pending) : now - pending[r].observedAt > StateTTL}
           deadlines == Deadlines(Live(sessions) \ goneSessions, Used(pending) \ gonePending)
<1>1. sessions' \in SessionMap
  BY TypeOKParts DEF Sweep, SessionMap
<1>2. sweep' \subseteq Used(pending')
  BY DEF Sweep, Used
<1>3. \A k \in Live(sessions) : sessions[k].updatedAt \in Int
  BY TypeOKParts DEF Live, SessionMap, SessionRec
<1>4. \A r \in Used(pending) : pending[r].observedAt \in Nat
  BY TypeOKParts DEF Used, PendingMap, PendingRec
<1>5. \A d \in deadlines : d \in Nat
  <2>1. now + SweepInterval \in Nat
    BY BoundsAssumption DEF TypeOK
  <2>2. \A k \in Live(sessions) \ goneSessions : sessions[k].updatedAt + StateTTL + 1 \in Nat
    BY <1>3, BoundsAssumption DEF TypeOK
  <2>3. \A r \in Used(pending) \ gonePending : pending[r].observedAt + StateTTL + 1 \in Nat
    BY <1>4, BoundsAssumption
  <2> HIDE DEF goneSessions, gonePending
  <2> QED
    BY <2>1, <2>2, <2>3 DEF Deadlines
<1>6. nextPurge' \in deadlines
  BY DEF Sweep
<1>7. nextPurge' \in Nat
  <2> HIDE DEF deadlines
  <2> QED
    BY <1>5, <1>6
<1> QED
  BY <1>1, <1>2, <1>7 DEF Sweep, TypeOK, SessionMap

\* Dropping an expired pending request keeps the types.
LEMMA ExpirePendingType ==
  ASSUME TypeOK, NEW r \in Requests, ExpirePending(r)
  PROVE  TypeOK'
<1>1. pending[r] \in PendingRec
  BY TypeOKParts DEF ExpirePending, Used, PendingMap
<1>2. TaintSession(sessions, pending[r].session) \in SessionMap
  BY <1>1, TypeOKParts, TaintType DEF PendingRec
<1>3. sessions' \in SessionMap
  BY <1>2, TrimType DEF ExpirePending
<1>4. PendingWithout(r) \in PendingMap /\ IndexWithout(r) \in IndexMap
  BY TypeOKParts, WithoutType
<1>5. sweep' \subseteq Used(pending')
  BY TypeOKParts DEF ExpirePending, Used, PendingWithout, PendingMap
<1> QED
  BY <1>3, <1>4, <1>5 DEF ExpirePending, TypeOK, SessionMap, PendingMap, IndexMap

\* A file without sessions is a content too.
LEMMA NoContentType == NoContent \in ContentRec
  BY DEF NoContent, NoSessions, ContentRec

\* A store that is opened holds what has not expired of what it loads, or nothing.
LEMMA LoadForm ==
  ASSUME NEW content, Load(content)
  PROVE  \E accepted \in {content, NoContent} :
            sessions' = Restored(accepted.sessions) /\ sequence' = accepted.sequence
  BY DEF Load

\* What is restored is a map of sessions, each as it was saved, and none has expired.
LEMMA RestoredType ==
  ASSUME NEW ss \in SessionMap
  PROVE  /\ Restored(ss) \in SessionMap
         /\ \A k \in Live(Restored(ss)) : /\ Restored(ss)[k] = ss[k]
                                        /\ k \in Live(ss)
                                        /\ ~(now - ss[k].updatedAt > StateTTL)
  BY DEF Restored, SessionMap, Live

\* Loading a content keeps the types.
LEMMA LoadType ==
  ASSUME TypeOK, NEW content \in ContentRec, Load(content)
  PROVE  TypeOK'
<1>1. PICK accepted \in {content, NoContent} :
        sessions' = Restored(accepted.sessions) /\ sequence' = accepted.sequence
  BY LoadForm
<1>2. accepted.sessions \in SessionMap /\ accepted.sequence \in Nat
  BY NoContentType DEF ContentRec, SessionMap
<1>3. sessions' \in SessionMap /\ sequence' \in Nat
  BY <1>1, <1>2, RestoredType
<1>4. pending' \in PendingMap
  BY DEF Load, PendingMap
<1>5. index' \in IndexMap
  BY NoPendingType DEF Load, IndexMap
<1>6. sweep' \subseteq Used(pending')
  BY DEF Load
<1> QED
  BY <1>3, <1>4, <1>5, <1>6 DEF Load, TypeOK, SessionMap, PendingMap, IndexMap

\* What a store is opened with is a content.
LEMMA ReopenLoads ==
  ASSUME TypeOK, Reopen
  PROVE  \E content \in ContentRec : Load(content)
  BY NoContentType DEF Reopen, TypeOK

\* A save adds a content to those the file has held.
LEMMA SaveType ==
  ASSUME TypeOK, Save
  PROVE  TypeOK'
<1>1. Content \in ContentRec
  BY DEF TypeOK, Content, ContentRec
<1> QED
  BY <1>1 DEF Save, vars, TypeOK, Used

\* Every step keeps TypeOK.
LEMMA StepType ==
  ASSUME TypeOK, [Next]_stateVars
  PROVE  TypeOK'
<1>1. CASE \E payload \in Payloads : Prepare(payload)
  <2>1. PICK payload \in Payloads : Prepare(payload)
    BY <1>1
  <2>2. ASSUME NEW k, NEW route, PrepareAnonymous(k, route, payload)
        PROVE  TypeOK'
    BY <2>2 DEF PrepareAnonymous, stateVars, vars, TypeOK, Used
  <2> QED
    BY <2>1, <2>2, PrepareUntrackedType, PrepareUnknownType, PrepareRejectedType,
       PrepareTrackedType DEF Prepare
<1>2. CASE \E r \in Requests : Complete(r) \/ DiscardPending(r)
  BY <1>2, CompleteSucceededType, CompleteInvalidType, ForgottenType DEF Complete
<1>3. CASE Sweep
  BY <1>3, SweepType
<1>4. CASE \E r \in Requests : ExpirePending(r)
  BY <1>4, ExpirePendingType
<1>5. CASE Tick
  BY <1>5 DEF Tick, TypeOK, Used
<1>6. CASE Reopen
  BY <1>6, ReopenLoads, LoadType
<1>7. CASE Save
  BY <1>7, SaveType
<1>8. CASE UNCHANGED stateVars
  BY <1>8 DEF stateVars, vars, TypeOK, Used
<1> QED
  BY <1>1, <1>2, <1>3, <1>4, <1>5, <1>6, <1>7, <1>8 DEF Next

\* In every reachable state of the store each variable has its type; in particular a
\* purge in progress only ever holds requests that are still pending.
THEOREM TypeCorrect == Spec => []TypeOK
<1>1. Init => TypeOK
  BY InitType
<1>2. TypeOK /\ [Next]_stateVars => TypeOK'
  BY StepType
<1> QED
  BY <1>1, <1>2, PTL DEF Spec

-----------------------------------------------------------------------------
(* Freshness: FreshBindings follows from where the next purge is scheduled. *)

\* The next purge comes no later than the first moment at which a binding can
\* expire ...
FreshMap(ss) ==
  \A k \in Live(ss) :
    ss[k].route # NoRoute => nextPurge <= ss[k].updatedAt + StateTTL + 1

\* ... or a pending request that the purge in progress is not about to drop ...
FreshPend(pend) ==
  \A r \in Used(pend) \ sweep : nextPurge <= pend[r].observedAt + StateTTL + 1

\* ... which whatever is stored from now on does not, because the next purge is never
\* further away than the sweep interval.
FreshInv ==
  /\ nextPurge <= now + SweepInterval
  /\ FreshMap(sessions)
  /\ FreshPend(pending)

\* What is stored now cannot expire before the next purge.
LEMMA NowIsFresh ==
  ASSUME TypeOK, FreshInv
  PROVE  nextPurge <= now + StateTTL + 1
  BY BoundsAssumption DEF TypeOK, FreshInv

\* Storing a session keeps freshness if the session is unbound or fresh itself.
LEMMA StoreFresh ==
  ASSUME NEW ss \in SessionMap, FreshMap(ss), NEW k \in Sessions, NEW s \in SessionRec,
         s.route = NoRoute \/ nextPurge <= s.updatedAt + StateTTL + 1
  PROVE  FreshMap([ss EXCEPT ![k] = s])
  BY DEF FreshMap, Live, SessionMap

\* Evicting a session keeps freshness.
LEMMA TrimFresh ==
  ASSUME NEW ss \in SessionMap, FreshMap(ss), NEW idx, NEW tt \in TrimSessions(ss, idx)
  PROVE  FreshMap(tt)
  BY DEF FreshMap, Live, SessionMap, TrimSessions

\* Tainting a session counts as an update and keeps freshness.
LEMMA TaintFresh ==
  ASSUME TypeOK, FreshInv, NEW ss \in SessionMap, FreshMap(ss), NEW k \in Sessions
  PROVE  FreshMap(TaintSession(ss, k))
<1> DEFINE s == [SessionOf(ss, k) EXCEPT !.tainted = TRUE, !.updatedAt = now]
<1>1. SessionOf(ss, k) \in SessionRec /\ now \in Int
  BY SessionOfType, TypeOKParts
<1>2. s \in SessionRec
  BY <1>1, TaintedType
<1>3. s.updatedAt = now
  BY <1>1 DEF SessionRec
<1> HIDE DEF s
<1>4. FreshMap([ss EXCEPT ![k] = s])
  BY <1>2, <1>3, NowIsFresh, StoreFresh
<1> QED
  BY <1>4 DEF TaintSession, s

\* Forgetting a request keeps freshness.
LEMMA WithoutFresh ==
  ASSUME TypeOK, FreshInv, NEW r
  PROVE  FreshPend(PendingWithout(r))
  BY TypeOKParts DEF FreshInv, FreshPend, Used, PendingWithout, PendingMap

\* Tracking a request that was observed now keeps freshness.
LEMMA TrackFresh ==
  ASSUME TypeOK, FreshInv, NEW r \in Requests, NEW p \in PendingRec, p.observedAt = now,
         NEW ss \in SessionMap, FreshMap(ss), Track(r, p, ss)
  PROVE  FreshMap(sessions') /\ FreshPend(pending')
<1> DEFINE pend == [pending EXCEPT ![r] = p]
           idx == IndexAdd(IndexWithout(r), p)
<1>1. pend \in PendingMap
  BY TypeOKParts DEF PendingMap
<1>2. FreshPend(pend)
  BY TypeOKParts, NowIsFresh DEF FreshInv, FreshPend, Used, PendingMap
<1> HIDE DEF pend, idx
<1>3. CASE sessions' = ss /\ pending' = pend
  BY <1>2, <1>3 DEF FreshMap, FreshPend
<1>4. ASSUME NEW v \in OldestPending(pend),
             pending' = [pend EXCEPT ![v] = Absent],
             sessions' \in TrimSessions(TaintSession(ss, pend[v].session),
                                       IndexRemove(idx, pend[v]))
      PROVE  FreshMap(sessions') /\ FreshPend(pending')
  <2>1. pend[v].session \in Sessions
    BY <1>1 DEF OldestPending, Used, PendingMap, PendingRec
  <2>2. TaintSession(ss, pend[v].session) \in SessionMap
    BY <2>1, TypeOKParts, TaintType
  <2>3. FreshMap(TaintSession(ss, pend[v].session))
    BY <2>1, TaintFresh
  <2>4. FreshMap(sessions')
    BY <1>4, <2>2, <2>3, TrimFresh
  <2>5. FreshPend(pending')
    BY <1>1, <1>2, <1>4 DEF FreshPend, Used, PendingMap
  <2> QED
    BY <2>4, <2>5
<1> QED
  BY <1>3, <1>4 DEF Track, pend, idx

\* Retiring items counts as an update.
LEMMA RetireFresh ==
  ASSUME NEW s \in SessionRec, NEW items \in SUBSET Items,
         NEW route \in Routes \cup {NoRoute}, now \in Nat
  PROVE  /\ RetireItems(s, items, route).updatedAt = now
         /\ MarkRetiredOverflow(s).updatedAt = now
         /\ MarkRetiredOverflow(s).route = s.route
         /\ RetireItems(s, items, route).route = s.route
<1>1. MarkRetiredOverflow(s).updatedAt = now /\ MarkRetiredOverflow(s).route = s.route
  BY DEF MarkRetiredOverflow, SessionRec
<1>2. [s EXCEPT !.updatedAt = now].updatedAt = now
  BY DEF SessionRec
<1>3. ASSUME NEW f
      PROVE  /\ [s EXCEPT !.updatedAt = now, !.retired = f].updatedAt = now
             /\ [s EXCEPT !.updatedAt = now, !.retired = f].route = s.route
  BY DEF SessionRec
<1>4. [s EXCEPT !.updatedAt = now].route = s.route
  BY DEF SessionRec
<1> QED
  BY <1>1, <1>2, <1>3, <1>4 DEF RetireItems

\* The methods of the store keep FreshInv.
LEMMA PrepareFresh ==
  ASSUME TypeOK, FreshInv, NEW payload \in Payloads, Prepare(payload)
  PROVE  FreshInv'
<1>1. ASSUME NEW r \in Requests \cup {NoRequest}, NEW k, NEW route,
             PrepareUntracked(r, k, route, payload)
      PROVE  FreshInv'
  <2>1. FreshPend(pending')
    BY <1>1, WithoutFresh DEF PrepareUntracked, FreshInv
  <2> QED
    BY <1>1, <2>1 DEF PrepareUntracked, FreshInv, FreshMap, FreshPend
<1>2. ASSUME NEW r \in Requests, NEW k \in Sessions, PrepareUnknown(r, k, payload)
      PROVE  FreshInv'
  <2> DEFINE s == [SessionOf(sessions, k) EXCEPT !.updatedAt = now]
             stored == [sessions EXCEPT ![k] = s]
             p == [session |-> k, route |-> NoRoute, seq |-> sequence + 1,
                   observedAt |-> now, canClearTaint |-> FALSE,
                   overflow |-> TooMany(payload.items),
                   retired |-> RetiredOnSuccess(payload.items)]
  <2>1. SessionOf(sessions, k) \in SessionRec /\ now \in Int /\ sessions \in SessionMap
    BY SessionOfType, TypeOKParts
  <2>2. s \in SessionRec /\ s.updatedAt = now
    BY <2>1, FieldType DEF SessionRec
  <2>3. p \in PendingRec /\ p.observedAt = now
    BY PayloadType DEF PendingRec, TypeOK
  <2> HIDE DEF s, p
  <2>4. stored \in SessionMap /\ FreshMap(stored)
    BY <2>1, <2>2, NowIsFresh, StoreType, StoreFresh DEF FreshInv
  <2> HIDE DEF stored
  <2>5. PICK ss \in TrimSessions(stored, IndexWithout(r)) : Track(r, p, ss)
    BY <1>2 DEF PrepareUnknown, stored, s, p
  <2>6. ss \in SessionMap /\ FreshMap(ss)
    BY <2>4, TrimType, TrimFresh
  <2>7. FreshMap(sessions') /\ FreshPend(pending')
    BY <2>3, <2>5, <2>6, TrackFresh
  <2> QED
    BY <1>2, <2>7 DEF PrepareUnknown, FreshInv, FreshMap, FreshPend
<1>3. ASSUME NEW r \in Requests \cup {NoRequest}, NEW k \in Sessions, NEW route \in Routes,
             PrepareRejected(r, k, route, payload)
      PROVE  FreshInv'
  <2> DEFINE s == RetireItems(Observed(r, k, route), payload.items, route)
             idx == IF r = NoRequest THEN index ELSE IndexWithout(r)
  <2>1. s \in SessionRec /\ s.updatedAt = now
    BY ObservedType, PayloadType, RetireType, RetireFresh DEF TypeOK
  <2> HIDE DEF s
  <2>2. [sessions EXCEPT ![k] = s] \in SessionMap /\ FreshMap([sessions EXCEPT ![k] = s])
    BY <2>1, TypeOKParts, NowIsFresh, StoreType, StoreFresh DEF FreshInv
  <2>3. sessions' \in TrimSessions([sessions EXCEPT ![k] = s], idx)
    BY <1>3 DEF PrepareRejected, s
  <2>4. FreshMap(sessions')
    BY <2>2, <2>3, TrimFresh
  <2>5. FreshPend(pending')
    BY <1>3, WithoutFresh DEF PrepareRejected, FreshInv
  <2> QED
    BY <1>3, <2>4, <2>5 DEF PrepareRejected, FreshInv, FreshMap, FreshPend
<1>4. ASSUME NEW k, NEW route, PrepareAnonymous(k, route, payload)
      PROVE  FreshInv'
  BY <1>4 DEF PrepareAnonymous, stateVars, vars, FreshInv, FreshMap, FreshPend, Live, Used
<1>5. ASSUME NEW r \in Requests, NEW k \in Sessions, NEW route \in Routes,
             PrepareTracked(r, k, route, payload)
      PROVE  FreshInv'
  <2> DEFINE session == Observed(r, k, route)
             strip == Strips(session, route, payload)
             clean == strip \/ ~RouteBound(payload)
             alone == ~HasPending(IndexWithout(r), k)
             s == [session EXCEPT !.updatedAt = now]
             stored == [sessions EXCEPT ![k] = s]
             clears == session.tainted /\ clean /\ alone
             overflows == strip /\ TooMany(payload.items)
             retires == IF strip THEN RetiredOnSuccess(payload.items) ELSE {}
             p == [session |-> k, route |-> route, seq |-> sequence + 1,
                   observedAt |-> now, canClearTaint |-> clears,
                   overflow |-> overflows, retired |-> retires]
  <2>1. session \in SessionRec /\ now \in Int /\ sessions \in SessionMap
    BY ObservedType, TypeOKParts
  <2> HIDE DEF session
  <2>2. s \in SessionRec /\ s.updatedAt = now
    BY <2>1, FieldType DEF SessionRec
  <2>3. clears \in BOOLEAN /\ overflows \in BOOLEAN /\ retires \in SUBSET Items
    BY PayloadType
  <2> HIDE DEF clears, overflows, retires
  <2>4. p \in PendingRec /\ p.observedAt = now
    BY <2>3 DEF PendingRec, TypeOK
  <2> HIDE DEF s, p
  <2>5. stored \in SessionMap /\ FreshMap(stored)
    BY <2>1, <2>2, NowIsFresh, StoreType, StoreFresh DEF FreshInv
  <2> HIDE DEF stored
  <2>6. PICK ss \in TrimSessions(stored, IndexWithout(r)) : Track(r, p, ss)
    BY <1>5 DEF PrepareTracked, stored, s, p, clears, overflows, retires, session
  <2>7. ss \in SessionMap /\ FreshMap(ss)
    BY <2>5, TrimType, TrimFresh
  <2>8. FreshMap(sessions') /\ FreshPend(pending')
    BY <2>4, <2>6, <2>7, TrackFresh
  <2> QED
    BY <1>5, <2>8 DEF PrepareTracked, FreshInv, FreshMap, FreshPend
<1> QED
  BY <1>1, <1>2, <1>3, <1>4, <1>5 DEF Prepare

\* A success retires and commits now, or leaves a fresh session as it is.
LEMMA CompleteSucceededFresh ==
  ASSUME TypeOK, FreshInv, NEW r \in Requests, CompleteSucceeded(r)
  PROVE  FreshInv'
<1> DEFINE p == pending[r]
           idx == IndexWithout(r)
           found == SessionOf(sessions, p.session)
           retired == IF p.overflow THEN MarkRetiredOverflow(found)
                      ELSE IF p.retired # {} THEN RetireItems(found, p.retired, p.route)
                      ELSE found
           bound == [retired EXCEPT !.route = p.route, !.seq = p.seq, !.updatedAt = now,
                                    !.tainted = @ /\ ~ClearsTaint(p, idx)]
           current == IF Commits(retired, p) THEN bound ELSE retired
<1>1. p \in PendingRec
  BY TypeOKParts DEF CompleteSucceeded, PendingMap
<1>2. /\ p.session \in Sessions /\ p.retired \in SUBSET Items
      /\ p.route \in Routes \cup {NoRoute}
  BY <1>1 DEF PendingRec
<1>3. found \in SessionRec /\ now \in Nat
  BY <1>2, TypeOKParts, SessionOfType
<1>4. retired \in SessionRec /\ bound \in SessionRec
  <2>1. (~ClearsTaint(p, idx)) \in BOOLEAN
    OBVIOUS
  <2> HIDE DEF p, idx
  <2> QED
    BY <1>1, <2>1, SucceededType
<1>5. bound.updatedAt = now
  <2> HIDE DEF retired, p
  <2> QED
    BY <1>4 DEF SessionRec
<1>6. found.route = NoRoute \/ nextPurge <= found.updatedAt + StateTTL + 1
  BY <1>2 DEF FreshInv, FreshMap, Live, SessionOf, Blank
<1>7. retired.updatedAt = now \/ retired = found
  <2> HIDE DEF found, p
  <2> QED
    BY <1>2, <1>3, RetireFresh
<1>8. /\ current \in SessionRec
      /\ current.route = NoRoute \/ nextPurge <= current.updatedAt + StateTTL + 1
  <2> HIDE DEF found, retired, bound, p, idx
  <2> QED
    BY <1>4, <1>5, <1>6, <1>7, NowIsFresh
<1>9. sessions' \in TrimSessions([sessions EXCEPT ![p.session] = current], idx)
  BY DEF CompleteSucceeded
<1> HIDE DEF current, idx
<1>10. FreshMap(sessions')
  BY <1>2, <1>8, <1>9, TypeOKParts, StoreType, StoreFresh, TrimFresh DEF FreshInv
<1>11. FreshPend(pending')
  BY WithoutFresh DEF CompleteSucceeded
<1> QED
  BY <1>10, <1>11 DEF CompleteSucceeded, FreshInv, FreshMap, FreshPend

\* An invalidation counts as an update.
LEMMA CompleteInvalidFresh ==
  ASSUME TypeOK, FreshInv, NEW r \in Requests, CompleteInvalid(r)
  PROVE  FreshInv'
<1> DEFINE p == pending[r]
           found == [SessionOf(sessions, p.session) EXCEPT !.tainted = TRUE,
                                                           !.updatedAt = now]
           unbinds == found.route # NoRoute /\ found.route = p.route /\ found.seq <= p.seq
           unbound == [found EXCEPT !.route = NoRoute, !.seq = p.seq]
           current == IF unbinds THEN unbound ELSE found
<1>1. p \in PendingRec
  BY TypeOKParts DEF CompleteInvalid, PendingMap
<1>2. SessionOf(sessions, p.session) \in SessionRec /\ now \in Int /\ p.session \in Sessions
  BY <1>1, TypeOKParts, SessionOfType DEF PendingRec
<1>3. found \in SessionRec /\ found.updatedAt = now
  BY <1>2, TaintedType DEF SessionRec
<1>4. unbound \in SessionRec /\ unbound.updatedAt = now
  <2> HIDE DEF found
  <2> QED
    BY <1>1, <1>3, BoundType DEF PendingRec, SessionRec
<1>5. current \in SessionRec /\ current.updatedAt = now
  <2> HIDE DEF found, unbound, unbinds
  <2> QED
    BY <1>3, <1>4
<1>6. sessions' \in TrimSessions([sessions EXCEPT ![p.session] = current], IndexWithout(r))
  BY DEF CompleteInvalid
<1> HIDE DEF current
<1>7. FreshMap(sessions')
  BY <1>2, <1>5, <1>6, TypeOKParts, NowIsFresh, StoreType, StoreFresh, TrimFresh DEF FreshInv
<1>8. FreshPend(pending')
  BY WithoutFresh DEF CompleteInvalid
<1> QED
  BY <1>7, <1>8 DEF CompleteInvalid, FreshInv, FreshMap, FreshPend

\* A purge schedules the next one before anything it keeps can expire.
LEMMA SweepFresh ==
  ASSUME TypeOK, FreshInv, Sweep
  PROVE  FreshInv'
<1> DEFINE goneSessions == {k \in Live(sessions) : now - sessions[k].updatedAt > StateTTL}
           gonePending == {r \in Used(pending) : now - pending[r].observedAt > StateTTL}
           deadlines == Deadlines(Live(sessions) \ goneSessions, Used(pending) \ gonePending)
<1>1. \A d \in deadlines : nextPurge' <= d
  BY DEF Sweep
<1>2. nextPurge' <= now + SweepInterval
  BY <1>1 DEF Deadlines
<1>3. \A k \in Live(sessions) \ goneSessions : nextPurge' <= sessions[k].updatedAt + StateTTL + 1
  BY <1>1 DEF Deadlines
<1>4. \A r \in Used(pending) \ gonePending : nextPurge' <= pending[r].observedAt + StateTTL + 1
  BY <1>1 DEF Deadlines
<1>5. \A k \in Live(sessions') :
        k \in Live(sessions) \ goneSessions /\ sessions'[k] = sessions[k]
  BY DEF Sweep, Live
<1> QED
  BY <1>2, <1>3, <1>4, <1>5 DEF Sweep, FreshInv, FreshMap, FreshPend, Used

\* Dropping what the purge found expired completes what the schedule promises.
LEMMA ExpirePendingFresh ==
  ASSUME TypeOK, FreshInv, NEW r \in Requests, ExpirePending(r)
  PROVE  FreshInv'
<1>1. pending[r].session \in Sessions
  BY TypeOKParts DEF ExpirePending, Used, PendingMap, PendingRec
<1>2. /\ TaintSession(sessions, pending[r].session) \in SessionMap
      /\ FreshMap(TaintSession(sessions, pending[r].session))
  BY <1>1, TypeOKParts, TaintType, TaintFresh DEF FreshInv
<1>3. FreshMap(sessions')
  BY <1>2, TrimFresh DEF ExpirePending
<1>4. \A q \in Used(pending') \ sweep' :
        nextPurge <= pending'[q].observedAt + StateTTL + 1
  BY TypeOKParts DEF ExpirePending, FreshInv, FreshPend, Used, PendingWithout, PendingMap
<1> QED
  BY <1>3, <1>4 DEF ExpirePending, FreshInv, FreshMap, FreshPend

\* A new store purges before it decides anything, and load leaves out what expired.
LEMMA LoadFresh ==
  ASSUME TypeOK, FreshInv, NEW content \in ContentRec, Load(content)
  PROVE  FreshInv'
<1>1. PICK accepted \in {content, NoContent} : sessions' = Restored(accepted.sessions)
  BY LoadForm
<1>2. accepted.sessions \in SessionMap
  BY NoContentType DEF ContentRec, SessionMap
<1>3. \A k \in Live(sessions') : /\ sessions'[k].updatedAt \in Int
                                 /\ ~(now - sessions'[k].updatedAt > StateTTL)
  BY <1>1, <1>2, RestoredType, AbsentAssumption DEF SessionMap, SessionRec, Live
<1>4. now \in Nat /\ nextPurge' = 0
  BY DEF Load, TypeOK
<1>5. \A k \in Live(sessions') : nextPurge' <= sessions'[k].updatedAt + StateTTL + 1
  BY <1>3, <1>4, BoundsAssumption
<1> QED
  BY <1>5, BoundsAssumption DEF Load, FreshInv, FreshMap, FreshPend, Used, TypeOK

\* Every step keeps FreshInv.
LEMMA StepFresh ==
  ASSUME TypeOK, FreshInv, [Next]_stateVars
  PROVE  FreshInv'
<1>1. ASSUME NEW r \in Requests, CompleteFailed(r) \/ DiscardPending(r)
      PROVE  FreshInv'
  <2>1. FreshPend(pending')
    BY <1>1, WithoutFresh DEF CompleteFailed, DiscardPending
  <2> QED
    BY <1>1, <2>1 DEF CompleteFailed, DiscardPending, FreshInv, FreshMap, FreshPend
<1>2. CASE Tick
  BY <1>2, BoundsAssumption DEF Tick, TypeOK, FreshInv, FreshMap, FreshPend, Live, Used
<1>3. CASE Save \/ UNCHANGED stateVars
  BY <1>3 DEF Save, stateVars, vars, FreshInv, FreshMap, FreshPend, Live, Used
<1>4. CASE Reopen
  BY <1>4, ReopenLoads, LoadFresh
<1> QED
  BY <1>1, <1>2, <1>3, <1>4, PrepareFresh, CompleteSucceededFresh, CompleteInvalidFresh,
     SweepFresh, ExpirePendingFresh DEF Next, Complete

\* No decision of prepare ever rests on a binding older than StateTTL, and no
\* completion on an older pending request, although the store is purged only when the
\* schedule of purgeExpiredLocked says so.
THEOREM Freshness == Spec => []FreshBindings
<1>1. Init => FreshInv
  BY BoundsAssumption DEF Init, FreshInv, FreshMap, FreshPend, Live, Used
<1>2. TypeOK /\ FreshInv /\ [Next]_stateVars => FreshInv'
  BY StepFresh
<1>3. TypeOK /\ FreshInv => FreshBindings
  <2> SUFFICES ASSUME TypeOK, FreshInv, Ready PROVE FreshBindings
    BY DEF FreshBindings
  <2>1. \A k \in Live(sessions) : sessions[k].updatedAt \in Int
    BY TypeOKParts DEF Live, SessionMap, SessionRec
  <2>2. \A r \in Used(pending) : pending[r].observedAt \in Nat
    BY TypeOKParts DEF Used, PendingMap, PendingRec
  <2> QED
    BY <2>1, <2>2, BoundsAssumption
       DEF FreshBindings, FreshInv, FreshMap, FreshPend, Ready, TypeOK
<1> QED
  BY <1>1, <1>2, <1>3, TypeCorrect, PTL DEF Spec
=============================================================================
