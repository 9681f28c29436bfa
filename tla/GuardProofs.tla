---------------------------- MODULE GuardProofs -----------------------------
(***************************************************************************)
(* SwitchGuard implements SafeForwarding, under the strip policy, as long  *)
(* as a client waits for the end of a turn before it starts the next one:  *)
(* for any number of clients, requests and routes, whatever the caps, and  *)
(* whatever else the environment does.  And however turns overlap, a       *)
(* tainted conversation becomes reusable only when none of its requests    *)
(* runs, as long as the store loses no request that does.                  *)
(***************************************************************************)
EXTENDS SwitchGuard, RouteSafetyProofs

-----------------------------------------------------------------------------
(* The invariant.                                                          *)

\* The store binds the conversation to a route and trusts it.
Binds(s) == s # Absent /\ s.route # NoRoute /\ ~s.tainted
Trusts(k) == Binds(sessions[k])

\* An item, or the creator of a response, that may go to the route a session is bound to,
\* or is kept from it.
Fit(i, s) == owner[i] \in Routes \ {s.route} => i \in Barrier(s)
Named(by, s) == by \in {Absent, NoRoute, s.route}

\* Types of what belongs to the environment.
HostTypes ==
  /\ owner \in [Items -> Routes \cup {NoRoute, Absent}]
  /\ held \in [Sessions -> SUBSET Items]
  /\ last \in [Sessions -> Routes \cup {NoRoute, Absent}]
  /\ call \in [Requests -> CallRec \cup {Absent}]

\* A conversation has one turn at a time.
OneTurn == \A r, q \in Running : call[r].session = call[q].session => r = q

\* What the store tracks runs, where the store has it.
Tracked ==
  \A r \in Used(pending) :
    /\ r \in Running /\ call[r].known
    /\ call[r].session = pending[r].session /\ call[r].route = pending[r].route

\* A turn sends what its client held when it began, and the client has nothing more but
\* what the turn created, or nobody vouches for.
History(r) ==
  LET c == call[r] IN
  /\ \A i \in c.items : owner[i] # Absent
  /\ \A i \in c.made : owner[i] \in {c.route, NoRoute}
  /\ ~c.answered => c.made = {}
  /\ c.answered /\ c.known => last[c.session] \in {Absent, NoRoute, c.route}
  /\ \A i \in held[c.session] : i \in c.items \cup c.made \/ owner[i] = NoRoute
Created ==
  /\ \A k \in Sessions : \A i \in held[k] : owner[i] # Absent
  /\ \A r \in Running : History(r)

\* What a client can send in a conversation that the store trusts is fit for its route,
\* but for the creations of a turn that the store has yet to hear of: its success will
\* bind the conversation to their route, and its failure disown them.
Making(k, i) == \E r \in Used(pending) : call[r].session = k /\ i \in call[r].made
Answering(k) == \E r \in Used(pending) : call[r].session = k /\ call[r].answered
HeldFit(k) == \A i \in held[k] : Fit(i, sessions[k]) \/ Making(k, i)
LastFit(k) == Named(last[k], sessions[k]) \/ Answering(k)
SentFit(k) ==
  \A r \in Running : call[r].session = k =>
    Named(call[r].prev, sessions[k]) /\ \A i \in call[r].items : Fit(i, sessions[k])
GuardedAt(k) == Trusts(k) => HeldFit(k) /\ LastFit(k) /\ SentFit(k)
Guarded == \A k \in Sessions : GuardedAt(k)

\* A turn that the store has lost has cost the conversation its trust.  A turn that the
\* store tracks has had everything stripped, to be retired when it succeeds, or runs on the
\* route that is trusted, in a session that does not expire before it.
LostOne(r) ==
  call[r].known /\ call[r].route # NoRoute /\ pending[r] = Absent => ~Trusts(call[r].session)
Bars(r) ==
  r \in Used(pending) \ sweep =>
    \/ call[r].items \subseteq pending[r].retired
    \/ pending[r].overflow
    \/ /\ Trusts(call[r].session) /\ sessions[call[r].session].route = call[r].route
       /\ pending[r].observedAt <= sessions[call[r].session].updatedAt
Newest(r) ==
  r \in Used(pending) /\ sessions[call[r].session] # Absent =>
    sessions[call[r].session].seq < pending[r].seq
UnfinishedAt(r) == LostOne(r) /\ Bars(r) /\ Newest(r)
Unfinished == \A r \in Running : UnfinishedAt(r)

\* What the clients had by a save is fit for the routes it binds their conversations to, as
\* far as they can still send it: a store that starts from the save can be trusted with it.
\* The creations of requests that ran at the save are not among it.
CoverFit(v, k) ==
  /\ Named(v.last[k], v.of.sessions[k])
  /\ \A i \in held[k] : i \in v.items => Fit(i, v.of.sessions[k])
  /\ \A r \in Running : call[r].session = k =>
       \A i \in call[r].items : i \in v.items => Fit(i, v.of.sessions[k])
CoverOK(v) ==
  /\ v.items \subseteq Items
  /\ \A i \in v.items : owner[i] # Absent
  /\ \A r \in Running : \A i \in call[r].made : i \notin v.items
  /\ \A k \in Sessions : Binds(v.of.sessions[k]) => CoverFit(v, k)
Covered == \A v \in cover : CoverOK(v)

\* What cover tells of has been in the state file.
Saved == \A v \in cover : v.of \in saved

StoreInv == TypeOK /\ IndexExact /\ Bounded /\ SavedBounded /\ Numbered /\ SavedNumbered
HostInv == HostTypes /\ OneTurn /\ Tracked /\ Created /\ Guarded /\ Unfinished
GuardInv == StoreInv /\ HostInv /\ Covered /\ Saved

-----------------------------------------------------------------------------
(* The store under the interceptor is the store.                           *)

\* Types of a call that runs.
LEMMA CallTyped ==
  ASSUME HostTypes, NEW r \in Running
  PROVE  /\ r \in Requests /\ call[r] \in CallRec
         /\ call[r].session \in Sessions /\ call[r].route \in Routes \cup {NoRoute}
         /\ call[r].answered \in BOOLEAN /\ call[r].known \in BOOLEAN
         /\ call[r].items \in SUBSET Items /\ call[r].made \in SUBSET Items
         /\ call[r].prev \in Routes \cup {NoRoute, Absent}
  BY DEF HostTypes, Running, CallRec

\* A candidate is offered: of a turn that begins, or the next of one that runs.
Offers(r, k, items, prev) ==
  /\ \A q \in Running : call[q].session = k => q = r
  /\ \/ call[r] = Absent /\ items = held[k] /\ prev \in {Absent, last[k]}
     \/ /\ call[r] # Absent /\ call[r].session = k /\ ~call[r].answered
        /\ items = call[r].items /\ prev = call[r].prev

\* A client that waits for the end of its turns offers all it holds, and names its last
\* response or none (Send).
LEMMA SendOffers ==
  ASSUME "overlap" \notin Freedoms, HostTypes, NEW r \in Requests, NEW k \in Sessions,
         NEW route \in HostRoutes, Send(r, k, route)
  PROVE  \E items \in SUBSET Items, prev \in Routes \cup {NoRoute, Absent} :
           Offers(r, k, items, prev) /\ Intercept(r, k, route, items, prev)
<1>1. PICK prev \in {Absent} \cup (IF "response" \in Freedoms THEN {last[k]} ELSE {}) :
        Intercept(r, k, route, held[k], prev)
  BY DEF Send
<1>2. prev \in {Absent, last[k]} /\ prev \in Routes \cup {NoRoute, Absent}
  BY <1>1 DEF HostTypes
<1>3. held[k] \in SUBSET Items
  BY DEF HostTypes
<1>4. call[r] = Absent /\ \A q \in Running : call[q].session # k
  BY DEF Send
<1>5. Offers(r, k, held[k], prev)
  BY <1>2, <1>4 DEF Offers
<1> QED
  BY <1>1, <1>2, <1>3, <1>5

\* The next candidate of a turn offers what the first did (Retry).
LEMMA RetryOffers ==
  ASSUME HostTypes, OneTurn, NEW r \in Requests, NEW route \in HostRoutes, Retry(r, route)
  PROVE  \E k \in Sessions, items \in SUBSET Items, prev \in Routes \cup {NoRoute, Absent} :
           Offers(r, k, items, prev) /\ Intercept(r, k, route, items, prev)
<1>1. /\ call[r] # Absent /\ ~call[r].answered
      /\ Intercept(r, call[r].session, route, call[r].items, call[r].prev)
  BY DEF Retry
<1>2. r \in Running
  BY <1>1 DEF Running
<1>3. Offers(r, call[r].session, call[r].items, call[r].prev)
  BY <1>1, <1>2 DEF Offers, OneTurn
<1> QED
  BY <1>1, <1>2, <1>3, CallTyped

\* A candidate is a step of the store.
LEMMA InterceptPrepares ==
  ASSUME NEW r \in Requests, NEW k \in Sessions, NEW route \in Routes \cup {NoRoute},
         NEW items \in SUBSET Items, NEW prev, Intercept(r, k, route, items, prev)
  PROVE  Next
<1> DEFINE payload == [items |-> items, prev |-> prev # Absent]
<1>1. payload \in Payloads
  BY DEF Payloads
<1>2. IF route = NoRoute
      THEN PrepareUntracked(r, k, route, payload) \/ PrepareUnknown(r, k, payload)
      ELSE PrepareRejected(r, k, route, payload) \/ PrepareTracked(r, k, route, payload)
  BY DEF Intercept
<1> HIDE DEF payload
<1>3. Prepare(payload)
  BY <1>2 DEF Prepare
<1> QED
  BY <1>1, <1>3 DEF Next

-----------------------------------------------------------------------------
(* What a step of the store leaves alone.                                  *)

\* The store remembers one request of a conversation at most.
Single == \A r, q \in Used(pending) : pending[r].session = pending[q].session => r = q

\* A conversation that is trusted after the step was trusted before, and what was fit
\* for its route still is.
Steady(k) ==
  Binds(sessions'[k]) => /\ Trusts(k) /\ sessions'[k].route = sessions[k].route
                /\ Barrier(sessions[k]) \subseteq Barrier(sessions'[k])

\* A request stays as it was, and so does its conversation, which does not expire before
\* the request does.
Spared(q) ==
  LET k == pending[q].session IN
  /\ q \in Used(pending) /\ pending'[q] = pending[q]
  /\ q \notin sweep' => q \notin sweep
  /\ sessions'[k] # Absent => sessions'[k] = sessions[k]
  /\ /\ q \notin sweep' /\ sessions[k] # Absent
     /\ pending[q].observedAt <= sessions[k].updatedAt
     => sessions'[k] # Absent

\* Requests but those of R, and conversations but those of K, are left alone, or lost at
\* the price of the conversation's trust.
Calm(R, K) ==
  /\ \A q \in Used(pending') \ R : Spared(q)
  /\ \A q \in Used(pending) \ (Used(pending') \cup R) : ~Binds(sessions'[pending[q].session])
  /\ \A k \in Sessions \ K : Steady(k)

\* Trimming never evicts a conversation with a request in flight as long as there is one
\* without (trimSessionsLocked).
LEMMA KeepsActive ==
  ASSUME NEW ss \in SessionMap, NEW idx, NEW pend, Exact(idx, pend),
         NEW k \in Sessions, ss[k] # Absent, PendingIn(pend, k) = {},
         NEW j \in Sessions, PendingIn(pend, j) # {},
         NEW tt \in TrimSessions(ss, idx)
  PROVE  tt[j] = ss[j]
<1>1. idx[k].count = 0
  BY FS_EmptySet DEF Exact
<1>2. idx[j].count # 0
  BY Counted, FS_EmptySet DEF Exact
<1>3. CASE Cardinality(Live(ss)) <= MaxSessions
  BY <1>3 DEF TrimSessions
<1>4. CASE ~(Cardinality(Live(ss)) <= MaxSessions)
  <2>1. PICK v \in Victims(ss, idx) : tt = [ss EXCEPT ![v] = Absent]
    BY <1>4 DEF TrimSessions
  <2>2. k \in {x \in Live(ss) : idx[x].count = 0}
    BY <1>1 DEF Live
  <2>3. idx[v].count = 0
    BY <2>1, <2>2 DEF Victims
  <2> QED
    BY <1>2, <2>1, <2>3 DEF SessionMap
<1> QED
  BY <1>3, <1>4

\* A session that stays through a trim is what it was.
LEMMA TrimSteady ==
  ASSUME TypeOK, NEW j \in Sessions, NEW s \in SessionRec, NEW idx,
         sessions' \in TrimSessions([sessions EXCEPT ![j] = s], idx),
         NEW k \in Sessions \ {j}
  PROVE  Steady(k) /\ (sessions'[k] # Absent => sessions'[k] = sessions[k])
<1>1. sessions \in SessionMap
  BY TypeOKParts
<1> DEFINE stored == [sessions EXCEPT ![j] = s]
<1>2. stored \in SessionMap /\ stored[k] = sessions[k]
  BY <1>1, StoreType DEF SessionMap
<1>3. sessions'[k] = stored[k] \/ sessions'[k] = Absent
  BY <1>2, TrimKeeps
<1>4. sessions'[k] # Absent => sessions'[k] = sessions[k]
  BY <1>2, <1>3
<1> QED
  BY <1>4 DEF Steady, Trusts, Binds

\* With a request gone, its conversation has none left.
LEMMA LeavesNone ==
  ASSUME TypeOK, Single, NEW r \in Used(pending)
  PROVE  /\ PendingIn(PendingWithout(r), pending[r].session) = {}
         /\ \A q \in Used(PendingWithout(r)) :
              /\ q \in Used(pending) /\ q # r /\ PendingWithout(r)[q] = pending[q]
              /\ pending[q].session \in Sessions \ {pending[r].session}
              /\ PendingIn(PendingWithout(r), pending[q].session) # {}
<1>1. pending \in PendingMap
  BY TypeOKParts
<1>2. \A q \in Used(pending) : pending[q].session \in Sessions
  BY <1>1 DEF PendingMap, PendingRec, Used
<1> QED
  BY <1>1, <1>2 DEF PendingMap, PendingWithout, PendingIn, Used, Single

\* A request is dropped, and the session of its conversation replaced: the store is calm
\* elsewhere, whichever session it evicts.
LEMMA DropsCalmly ==
  ASSUME TypeOK, IndexExact, Single, NEW r \in Used(pending), NEW s \in SessionRec,
         pending' = PendingWithout(r), index' = IndexWithout(r), sweep' = sweep \ {r},
         sessions' \in TrimSessions([sessions EXCEPT ![pending[r].session] = s], index')
  PROVE  /\ Calm({r}, {pending[r].session})
         /\ sessions'[pending[r].session] \in {s, Absent}
<1> DEFINE k == pending[r].session
           ss == [sessions EXCEPT ![k] = s]
<1>1. r \in Requests /\ k \in Sessions /\ sessions \in SessionMap
  BY TypeOKParts DEF PendingMap, PendingRec, Used
<1>2. ss \in SessionMap /\ ss[k] = s /\ s # Absent
  BY <1>1, StoreType, AbsentAssumption DEF SessionMap
<1>3. sessions' \in TrimSessions(ss, index')
  OBVIOUS
<1>4. Exact(index', pending')
  BY <1>1, WithoutExact
<1>5. ASSUME NEW q \in Used(pending')
      PROVE  Spared(q)
  <2>1. /\ q \in Used(pending) /\ q # r /\ pending'[q] = pending[q]
        /\ pending[q].session \in Sessions \ {k}
        /\ PendingIn(pending', pending[q].session) # {} /\ PendingIn(pending', k) = {}
    BY LeavesNone
  <2>2. ss[k] # Absent /\ ss[pending[q].session] = sessions[pending[q].session]
    BY <1>1, <1>2, <2>1 DEF SessionMap
  <2> HIDE DEF k, ss
  <2>3. sessions'[pending[q].session] = sessions[pending[q].session]
    BY <1>1, <1>2, <1>3, <1>4, <2>1, <2>2, KeepsActive
  <2>4. q \in sweep' \/ q \notin sweep
    BY <2>1
  <2> QED
    BY <2>1, <2>3, <2>4 DEF Spared
<1>6. Used(pending) \ (Used(pending') \cup {r}) = {}
  BY <1>1, TypeOKParts DEF PendingWithout, PendingMap, Used
<1>7. \A j \in Sessions \ {k} : Steady(j)
  BY <1>1, <1>3, TrimSteady
<1>8. sessions'[k] \in {s, Absent}
  BY <1>1, <1>2, <1>3, TrimKeeps
<1> QED
  BY <1>5, <1>6, <1>7, <1>8 DEF Calm

\* The same with a tainted session: no conversation gains anything.
LEMMA TaintsCalmly ==
  ASSUME TypeOK, IndexExact, Single, NEW r \in Used(pending), NEW s \in SessionRec,
         s.tainted,
         pending' = PendingWithout(r), index' = IndexWithout(r), sweep' = sweep \ {r},
         sessions' \in TrimSessions([sessions EXCEPT ![pending[r].session] = s], index')
  PROVE  Calm({r}, {}) /\ ~Binds(sessions'[pending[r].session])
<1>1. Calm({r}, {pending[r].session}) /\ sessions'[pending[r].session] \in {s, Absent}
  BY DropsCalmly
<1>2. ~Binds(sessions'[pending[r].session])
  BY <1>1 DEF Binds
<1>3. Steady(pending[r].session)
  BY <1>2 DEF Steady
<1> QED
  BY <1>1, <1>2, <1>3 DEF Calm

\* CompleteFailed and CompleteInvalid.
LEMMA FailCalm ==
  ASSUME TypeOK, IndexExact, Single, NEW r \in Requests,
         CompleteFailed(r) \/ CompleteInvalid(r)
  PROVE  /\ Calm({r}, {})
         /\ r \in Used(pending) /\ pending' = PendingWithout(r) /\ sweep = {} /\ sweep' = {}
<1>1. CASE CompleteFailed(r)
  <2>1. /\ r \in Used(pending) /\ pending' = PendingWithout(r) /\ sweep = {} /\ sweep' = {}
        /\ sessions' = sessions
    BY <1>1 DEF CompleteFailed, Ready, Used
  <2>2. \A q \in Used(pending') : Spared(q)
    BY <2>1, LeavesNone DEF Spared
  <2>3. Used(pending) \ (Used(pending') \cup {r}) = {}
    BY <2>1, TypeOKParts DEF PendingWithout, PendingMap, Used
  <2>4. \A j \in Sessions : Steady(j)
    BY <2>1 DEF Steady, Trusts, Binds
  <2> QED
    BY <2>1, <2>2, <2>3, <2>4 DEF Calm
<1>2. CASE CompleteInvalid(r)
  <2>1. /\ pending' = PendingWithout(r) /\ index' = IndexWithout(r)
        /\ sweep = {} /\ sweep' = {}
        /\ \E s \in SessionRec :
             s.tainted /\ sessions' \in
               TrimSessions([sessions EXCEPT ![pending[r].session] = s], index')
    BY <1>2, InvalidForm
  <2>2. r \in Used(pending)
    BY <1>2 DEF CompleteInvalid, Used
  <2> QED
    BY <2>1, <2>2, TaintsCalmly
<1> QED
  BY <1>1, <1>2

\* What happens to the store without its callers: purges, and the passing of time.
LEMMA SweepCalm ==
  ASSUME TypeOK, Sweep
  PROVE  Calm({}, {})
<1>1. /\ pending \in PendingMap /\ sessions \in SessionMap /\ now \in Nat
      /\ StateTTL \in Nat /\ pending' = pending /\ sweep = {}
  BY TypeOKParts, BoundsAssumption DEF Sweep
<1>2. sweep' = {r \in Used(pending) : now - pending[r].observedAt > StateTTL}
  BY DEF Sweep
<1>3. ASSUME NEW k \in Sessions
      PROVE  sessions'[k] = IF sessions[k] # Absent /\ now - sessions[k].updatedAt > StateTTL
                            THEN Absent ELSE sessions[k]
  BY DEF Sweep, Live
<1>4. ASSUME NEW q \in Used(pending)
      PROVE  Spared(q)
  <2> DEFINE k == pending[q].session
  <2>1. pending[q] \in PendingRec /\ k \in Sessions /\ pending[q].observedAt \in Nat
    BY <1>1 DEF PendingMap, PendingRec, Used
  <2>2. sessions[k] # Absent => sessions[k].updatedAt \in Int
    BY <1>1, <2>1 DEF SessionMap, SessionRec
  <2>3. /\ sessions'[k] # Absent => sessions'[k] = sessions[k]
        /\ sessions[k] # Absent /\ ~(now - sessions[k].updatedAt > StateTTL)
           => sessions'[k] # Absent
    BY <1>3, <2>1
  <2>4. q \notin sweep' => ~(now - pending[q].observedAt > StateTTL)
    BY <1>2
  <2> HIDE DEF k
  <2>5. q \notin sweep' /\ sessions[k] # Absent
        /\ pending[q].observedAt <= sessions[k].updatedAt => sessions'[k] # Absent
    BY <1>1, <2>1, <2>2, <2>3, <2>4
  <2> QED
    BY <1>1, <2>3, <2>5 DEF Spared, k
<1>5. ASSUME NEW k \in Sessions
      PROVE  Steady(k)
  BY <1>3 DEF Steady, Trusts, Binds
<1> QED
  BY <1>1, <1>4, <1>5 DEF Calm

\* A purge step is calm: the conversation of the request it drops is tainted
\* (maybePurgeExpiredLocked).
LEMMA ExpireCalm ==
  ASSUME TypeOK, IndexExact, Single, NEW r \in Requests, ExpirePending(r)
  PROVE  Calm({}, {})
<1> DEFINE k == pending[r].session
           s == [SessionOf(sessions, k) EXCEPT !.tainted = TRUE, !.updatedAt = now]
<1>1. r \in Used(pending) /\ k \in Sessions /\ sessions \in SessionMap /\ now \in Int
  BY TypeOKParts DEF ExpirePending, PendingMap, PendingRec, Used
<1>2. s \in SessionRec /\ s.tainted
  BY <1>1, SessionOfType, TouchedFields
<1>3. /\ pending' = PendingWithout(r) /\ index' = IndexWithout(r) /\ sweep' = sweep \ {r}
      /\ sessions' \in TrimSessions([sessions EXCEPT ![k] = s], index')
  BY DEF ExpirePending, TaintSession
<1> HIDE DEF s
<1>4. Calm({r}, {}) /\ ~Binds(sessions'[k])
  BY <1>1, <1>2, <1>3, TaintsCalmly
<1>5. r \notin Used(pending')
  BY <1>1, <1>3, TypeOKParts DEF PendingWithout, PendingMap, Used
<1> QED
  BY <1>4, <1>5 DEF Calm

\* A store that is left alone is calm.
LEMMA StillCalm ==
  ASSUME UNCHANGED <<sessions, pending, sweep>>
  PROVE  \A R, K : Calm(R, K)
<1>1. \A q \in Used(pending) : Spared(q)
  BY DEF Spared
<1>2. \A k : Steady(k)
  BY DEF Steady, Trusts, Binds
<1> QED
  BY <1>1, <1>2 DEF Calm

\* A new request is tracked (setPendingLocked, trimSessionsLocked, trimPendingLocked): the
\* request evicted costs its conversation the trust; the others are spared; and if the
\* new one stays, a conversation the store knew already is not evicted.
LEMMA TrackSpares ==
  ASSUME TypeOK, IndexExact, Bounded, Single, sweep = {}, sweep' = {},
         NEW r \in Requests, NEW k \in Sessions,
         \A q \in Used(pending) \ {r} : pending[q].session # k,
         NEW s \in SessionRec, NEW p \in PendingRec, p.session = k,
         NEW ss \in TrimSessions([sessions EXCEPT ![k] = s], IndexWithout(r)),
         Track(r, p, ss)
  PROVE  /\ \A q \in Used(pending') \ {r} : Spared(q)
         /\ r \in Used(pending') =>
              pending'[r] = p /\ (sessions[k] # Absent => sessions'[k] = s)
         /\ \A q \in Used(pending) \ (Used(pending') \cup {r}) :
              ~Binds(sessions'[pending[q].session])
         /\ r \notin Used(pending') => ~Binds(sessions'[k])
<1> DEFINE stored == [sessions EXCEPT ![k] = s]
           before == PendingWithout(r)
           pend == [pending EXCEPT ![r] = p]
           idx == IndexAdd(IndexWithout(r), p)
<1>1. /\ sessions \in SessionMap /\ pending \in PendingMap /\ index \in IndexMap
      /\ s # Absent /\ p # Absent
  BY TypeOKParts, AbsentAssumption
<1>2. /\ stored \in SessionMap /\ stored[k] = s
      /\ \A j \in Sessions \ {k} : stored[j] = sessions[j]
      /\ ss \in TrimSessions(stored, IndexWithout(r))
  BY <1>1, StoreType DEF SessionMap
<1>3. /\ before \in PendingMap /\ before[r] = Absent /\ Exact(IndexWithout(r), before)
      /\ IndexWithout(r) \in IndexMap /\ PendingIn(before, k) = {}
      /\ \A q \in Requests \ {r} : before[q] = pending[q]
  BY <1>1, WithoutType, WithoutExact DEF PendingWithout, PendingMap, PendingIn, Used
<1>4. pend \in PendingMap /\ pend = [before EXCEPT ![r] = p] /\ pend[r] = p
      /\ \A q \in Requests \ {r} : pend[q] = pending[q]
  BY <1>1 DEF PendingMap, PendingWithout
<1>5. idx \in IndexMap /\ Exact(idx, pend)
  BY <1>1, <1>3, <1>4, AddExact, IndexAddType
<1>6. ss \in SessionMap
  BY <1>2, TrimType
<1>7. ASSUME sessions[k] # Absent
      PROVE  ss = stored
  <2>1. Live(stored) = Live(sessions)
    BY <1>1, <1>2, <1>7 DEF Live
  <2>2. Cardinality(Live(stored)) <= MaxSessions
    BY <2>1 DEF Bounded
  <2> QED
    BY <2>2 DEF TrimSessions
<1>8. \A q \in Used(pend) \ {r} : /\ q \in Used(pending) /\ pend[q] = pending[q]
                                  /\ pending[q].session \in Sessions \ {k}
                                  /\ PendingIn(before, pending[q].session) # {}
  BY <1>1, <1>3, <1>4 DEF Used, PendingMap, PendingRec, PendingIn
<1>9. ASSUME NEW q \in Used(pend) \ {r}
      PROVE  ss[pending[q].session] = sessions[pending[q].session]
  <2>1. PICK j \in Sessions \ {k} : j = pending[q].session /\ PendingIn(before, j) # {}
    BY <1>8
  <2> HIDE DEF stored, before
  <2>2. ss[j] = stored[j]
    BY <1>1, <1>2, <1>3, <2>1, KeepsActive
  <2> QED
    BY <1>2, <2>1, <2>2
<1>10. \A q, t \in Used(pend) : pend[q].session = pend[t].session => q = t
  BY <1>4, <1>8 DEF Single
<1>11. CASE Cardinality(Used(pend)) <= MaxPending
  <2>1. sessions' = ss /\ pending' = pend
    BY <1>11 DEF Track
  <2>2. r \in Used(pend) /\ Used(pending) \subseteq Used(pend)
    BY <1>1, <1>4 DEF Used
  <2>3. \A q \in Used(pending') \ {r} : Spared(q)
    <3> TAKE q \in Used(pending') \ {r}
    <3>1. sessions'[pending[q].session] = sessions[pending[q].session]
      BY <1>9, <2>1
    <3> QED
      BY <1>8, <2>1, <3>1 DEF Spared
  <2>4. sessions[k] # Absent => sessions'[k] = s
    BY <1>2, <1>7, <2>1
  <2> QED
    BY <1>4, <2>1, <2>2, <2>3, <2>4
<1>12. CASE ~(Cardinality(Used(pend)) <= MaxPending)
  <2>1. PICK v \in OldestPending(pend) :
          /\ pending' = [pend EXCEPT ![v] = Absent] /\ index' = IndexRemove(idx, pend[v])
          /\ sessions' \in TrimSessions(TaintSession(ss, pend[v].session),
                                        IndexRemove(idx, pend[v]))
    BY <1>12 DEF Track
  <2>2. v \in Requests /\ v \in Used(pend) /\ pend[v] # Absent
    BY <2>1 DEF OldestPending, Used
  <2>3. PICK j \in Sessions : j = pend[v].session
    BY <1>4, <2>2 DEF PendingMap, PendingRec
  <2> DEFINE left == IndexRemove(idx, pend[v])
             after == [pend EXCEPT ![v] = Absent]
             marked == TaintSession(ss, j)
  <2>4. Exact(left, after)
    BY <1>4, <1>5, <2>2, RemoveExact
  <2>5. marked \in SessionMap /\ sessions' \in TrimSessions(marked, left)
    BY <1>6, <2>1, <2>3, TaintType, TypeOKParts
  <2>6. /\ marked[j] # Absent /\ marked[j].tainted
        /\ \A i \in Sessions \ {j} : marked[i] = ss[i]
    <3>1. marked[j] \in SessionRec /\ marked[j].tainted
      BY <1>6, <2>3, TaintFields
    <3>2. \A i \in Sessions \ {j} : marked[i] = ss[i]
      BY <1>6, <2>3 DEF TaintSession, SessionMap
    <3> QED
      BY <3>1, <3>2, AbsentAssumption
  <2>7. /\ after[v] = Absent /\ \A q \in Requests \ {v} : after[q] = pend[q]
        /\ pending' = after
    <3> HIDE DEF pend
    <3> QED
      BY <1>4, <2>1, <2>2 DEF PendingMap
  <2>8. PendingIn(after, j) = {}
    BY <1>10, <2>2, <2>3, <2>7 DEF PendingIn, Used
  <2>9. ASSUME NEW q \in Used(after), NEW i \in Sessions, i = pend[q].session
        PROVE  sessions'[i] = ss[i] /\ q \in Used(pend) /\ after[q] = pend[q]
    <3>1. q \in Requests \ {v} /\ q \in Used(pend) /\ after[q] = pend[q]
      BY <2>7, <2>9 DEF Used
    <3>2. i # j
      BY <1>10, <2>2, <2>3, <2>9, <3>1
    <3>3. PendingIn(after, i) # {}
      BY <2>9, <3>1 DEF PendingIn, Used
    <3> HIDE DEF marked, after, left
    <3>4. sessions'[i] = marked[i]
      BY <2>4, <2>5, <2>6, <2>8, <3>3, KeepsActive
    <3> QED
      BY <2>6, <3>1, <3>2, <3>4
  <2>10. ~Binds(sessions'[j])
    BY <2>5, <2>6, TrimKeeps DEF Binds
  <2> HIDE DEF marked, after, left, pend, idx, stored, before
  <2>11. \A q \in Used(pending') \ {r} : Spared(q)
    <3> TAKE q \in Used(pending') \ {r}
    <3>1. q \in Used(after) /\ q # r
      BY <2>7
    <3>2. q \in Used(pend)
      BY <2>7, <3>1 DEF Used
    <3>3. PICK i \in Sessions : i = pending[q].session /\ i = pend[q].session
      BY <1>8, <3>1, <3>2
    <3>4. sessions'[i] = ss[i] /\ after[q] = pend[q]
      BY <2>9, <3>1, <3>3
    <3>5. sessions'[pending[q].session] = sessions[pending[q].session]
      BY <1>9, <3>1, <3>2, <3>3, <3>4
    <3> QED
      BY <1>8, <2>7, <3>1, <3>2, <3>4, <3>5 DEF Spared
  <2>12. ASSUME r \in Used(pending')
         PROVE  pending'[r] = p /\ (sessions[k] # Absent => sessions'[k] = s)
    <3>1. pend[r].session = k
      BY <1>4
    <3>2. sessions'[k] = ss[k] /\ after[r] = pend[r]
      BY <2>7, <2>9, <2>12, <3>1
    <3> QED
      BY <1>2, <1>4, <1>7, <2>7, <3>2
  <2>13. \A q \in Used(pending) \ (Used(pending') \cup {r}) :
           ~Binds(sessions'[pending[q].session])
    <3> TAKE q \in Used(pending) \ (Used(pending') \cup {r})
    <3>1. q = v
      BY <1>4, <2>7 DEF Used
    <3> QED
      BY <1>4, <2>2, <2>3, <2>10, <3>1
  <2>14. ASSUME r \notin Used(pending')
         PROVE  ~Binds(sessions'[k])
    <3>1. r = v
      BY <1>1, <1>4, <2>7, <2>14 DEF Used
    <3> QED
      BY <1>4, <2>3, <2>10, <3>1
  <2> QED
    BY <2>11, <2>12, <2>13, <2>14
<1> QED
  BY <1>11, <1>12

-----------------------------------------------------------------------------
(* What prepare decides for a candidate.                                   *)

\* The session that prepare decides on.
Seen(r, k, route) == IF route = NoRoute THEN Blank ELSE Observed(r, k, route)

\* A candidate of the only turn of its conversation competes with no other
\* (hasConcurrentRouteMismatchLocked).
LEMMA NoMismatch ==
  ASSUME TypeOK, IndexExact, NEW r \in Requests, NEW k \in Sessions,
         \A q \in Used(pending) \ {r} : pending[q].session # k,
         NEW route \in Routes \cup {NoRoute}
  PROVE  ~RouteMismatch(IndexWithout(r), k, route)
<1> DEFINE before == PendingWithout(r)
           idx == IndexWithout(r)
<1>1. Exact(idx, before)
  BY WithoutExact
<1>2. PendingIn(before, k) = {}
  BY TypeOKParts DEF PendingWithout, PendingMap, PendingIn, Used
<1>3. PendingOn(before, k, route) = {}
  BY <1>2 DEF PendingOn
<1> HIDE DEF before, idx
<1>4. idx[k].count = 0 /\ idx[k].routes[route] = 0
  BY <1>1, <1>2, <1>3, FS_EmptySet DEF Exact
<1> QED
  BY <1>4 DEF RouteMismatch, idx

\* What is not stripped runs on the route that the conversation is trusted on, without the
\* items behind its barrier (stripRouteBoundState, retiredItemMatches).
LEMMA Decides ==
  ASSUME TypeOK, NEW r \in Requests, NEW k \in Sessions,
         NEW route \in Routes \cup {NoRoute}, NEW payload \in Payloads
  PROVE  LET session == Seen(r, k, route)
             home == route # NoRoute /\ Trusts(k) /\ sessions[k].route = route
             sent == Forwarded(session, route, payload)
         IN  /\ Strips(session, route, payload) => sent = {}
             /\ ~Strips(session, route, payload) =>
                  home \/ (payload.items = {} /\ ~payload.prev)
             /\ sent \subseteq payload.items
             /\ sent # {} => home /\ sent \cap Barrier(sessions[k]) = {}
<1> DEFINE session == Seen(r, k, route)
           home == route # NoRoute /\ Trusts(k) /\ sessions[k].route = route
           sent == Forwarded(session, route, payload)
<1>1. payload.items \in SUBSET Items
  BY DEF Payloads
<1>2. ASSUME Trusted(session, route)
      PROVE  /\ home /\ session.overflow = sessions[k].overflow
             /\ session.retired = sessions[k].retired
  <2>1. route # NoRoute /\ session = Observed(r, k, route)
    BY <1>2 DEF Trusted, Seen
  <2>2. r # NoRequest
    BY ConstantsAssumption
  <2> HIDE DEF session
  <2>3. /\ session.route = SessionOf(sessions, k).route
        /\ session.overflow = SessionOf(sessions, k).overflow
        /\ session.retired = SessionOf(sessions, k).retired
        /\ SessionOf(sessions, k).tainted => session.tainted
    BY <2>1, <2>2, ObservedFields
  <2>4. SessionOf(sessions, k).route = route /\ ~SessionOf(sessions, k).tainted
    BY <1>2, <2>3 DEF Trusted
  <2>5. sessions[k] # Absent
    BY <2>1, <2>4 DEF SessionOf, Blank
  <2> QED
    BY <2>1, <2>3, <2>4, <2>5 DEF SessionOf, Trusts, Binds
<1> HIDE DEF session
<1>3. Strips(session, route, payload) => sent = {}
  BY DEF Forwarded
<1>4. ASSUME ~Strips(session, route, payload)
      PROVE  home \/ (payload.items = {} /\ ~payload.prev)
  BY <1>2, <1>4 DEF Strips, UnsafeState, RouteBound
<1>5. sent \subseteq payload.items
  BY DEF Forwarded
<1>6. ASSUME sent # {}
      PROVE  home /\ sent \cap Barrier(sessions[k]) = {}
  <2>1. ~Strips(session, route, payload) /\ payload.items # {}
    BY <1>3, <1>5, <1>6
  <2>2. Trusted(session, route) /\ ~session.overflow
    BY <2>1 DEF Strips, UnsafeState, RouteBound
  <2>3. sent = payload.items \ {i \in payload.items : session.retired[i] \in {AnyRoute, route}}
    BY <2>1, <2>2 DEF Forwarded, BlockedItems
  <2>4. Barrier(sessions[k]) = {i \in Items : session.retired[i] \in {AnyRoute, route}}
    BY <1>2, <2>2 DEF Barrier
  <2> QED
    BY <1>1, <1>2, <2>2, <2>3, <2>4
<1> QED
  BY <1>3, <1>4, <1>5, <1>6 DEF session

\* What is tracked: the session s, and the request p, with all its items to be retired if
\* it was stripped.
Candidate(r, k, route, payload, s, p) ==
  /\ s.updatedAt = now /\ s.route = SessionOf(sessions, k).route
  /\ s.tainted =>
       SessionOf(sessions, k).tainted \/ RouteMismatch(IndexWithout(r), k, route)
  /\ p.session = k /\ p.route = route
  /\ p.seq = sequence + 1 /\ p.observedAt = now
  /\ \/ payload.items \subseteq p.retired
     \/ p.overflow
     \/ ~Strips(Seen(r, k, route), route, payload)
  /\ \E ss \in TrimSessions([sessions EXCEPT ![k] = s], IndexWithout(r)) : Track(r, p, ss)

\* Both ways of prepare to track a candidate are of this form.
LEMMA CandidateTracks ==
  ASSUME TypeOK, NEW r \in Requests, NEW k \in Sessions,
         NEW route \in Routes \cup {NoRoute}, NEW payload \in Payloads,
         \/ route = NoRoute /\ PrepareUnknown(r, k, payload)
         \/ route # NoRoute /\ PrepareTracked(r, k, route, payload)
  PROVE  /\ Tracks(r, k, route)
         /\ \E s \in SessionRec, p \in PendingRec : Candidate(r, k, route, payload, s, p)
<1>1. CASE route = NoRoute
  <2> DEFINE s == [SessionOf(sessions, k) EXCEPT !.updatedAt = now]
             p == [session |-> k, route |-> NoRoute, seq |-> sequence + 1,
                   observedAt |-> now, canClearTaint |-> FALSE,
                   overflow |-> TooMany(payload.items),
                   retired |-> RetiredOnSuccess(payload.items)]
  <2>1. PrepareUnknown(r, k, payload)
    BY <1>1
  <2>2. SessionOf(sessions, k) \in SessionRec /\ now \in Int
    BY SessionOfType, TypeOKParts
  <2>3. /\ s \in SessionRec /\ s.updatedAt = now
        /\ s.route = SessionOf(sessions, k).route
        /\ s.tainted = SessionOf(sessions, k).tainted
    BY <2>2, TouchedFields
  <2>4. /\ p \in PendingRec /\ p.session = k /\ p.route = route
        /\ p.seq = sequence + 1 /\ p.observedAt = now
        /\ payload.items \subseteq p.retired \/ p.overflow
    BY <1>1, PayloadType DEF PendingRec, TypeOK, RetiredOnSuccess
  <2>5. \E ss \in TrimSessions([sessions EXCEPT ![k] = s], IndexWithout(r)) : Track(r, p, ss)
    BY <2>1 DEF PrepareUnknown
  <2> HIDE DEF s, p
  <2>6. Tracks(r, k, route)
    BY <1>1, <2>1, UnknownTracks
  <2> QED
    BY <2>3, <2>4, <2>5, <2>6 DEF Candidate
<1>2. CASE route # NoRoute
  <2> DEFINE session == Observed(r, k, route)
             strip == Strips(session, route, payload)
             clean == strip \/ ~RouteBound(payload)
             alone == ~HasPending(IndexWithout(r), k)
             s == [session EXCEPT !.updatedAt = now]
             clears == session.tainted /\ clean /\ alone
             overflows == strip /\ TooMany(payload.items)
             retires == IF strip THEN RetiredOnSuccess(payload.items) ELSE {}
             p == [session |-> k, route |-> route, seq |-> sequence + 1,
                   observedAt |-> now, canClearTaint |-> clears,
                   overflow |-> overflows, retired |-> retires]
  <2>1. PrepareTracked(r, k, route, payload) /\ route \in Routes
    BY <1>2
  <2>2. r # NoRequest /\ now \in Int /\ Seen(r, k, route) = session
    BY <1>2, ConstantsAssumption, TypeOKParts DEF Seen
  <2>3. clears \in BOOLEAN /\ overflows \in BOOLEAN /\ retires \in SUBSET Items
    BY PayloadType
  <2>4. payload.items \subseteq retires \/ overflows \/ ~strip
    BY DEF RetiredOnSuccess
  <2>5. \E ss \in TrimSessions([sessions EXCEPT ![k] = s], IndexWithout(r)) : Track(r, p, ss)
    BY <2>1 DEF PrepareTracked
  <2> HIDE DEF session, clears, overflows, retires
  <2>6. /\ session \in SessionRec /\ session.route = SessionOf(sessions, k).route
        /\ session.tainted <=> SessionOf(sessions, k).tainted
                                 \/ RouteMismatch(IndexWithout(r), k, route)
    BY <2>2, ObservedFields DEF session
  <2>7. /\ p \in PendingRec /\ p.session = k /\ p.route = route
        /\ p.seq = sequence + 1 /\ p.observedAt = now
        /\ p.overflow = overflows /\ p.retired = retires
    BY <2>3 DEF PendingRec, TypeOK
  <2>8. /\ s \in SessionRec /\ s.updatedAt = now
        /\ s.route = session.route /\ s.tainted = session.tainted
    BY <2>2, <2>6, TouchedFields
  <2> HIDE DEF s, p
  <2>9. Tracks(r, k, route)
    BY <2>1, TrackedTracks
  <2>10. s.tainted => SessionOf(sessions, k).tainted
                        \/ RouteMismatch(IndexWithout(r), k, route)
    BY <2>6, <2>8
  <2>11. \/ payload.items \subseteq p.retired
         \/ p.overflow
         \/ ~Strips(Seen(r, k, route), route, payload)
    BY <2>2, <2>4, <2>7
  <2> QED
    BY <2>5, <2>6, <2>7, <2>8, <2>9, <2>10, <2>11 DEF Candidate
<1> QED
  BY <1>1, <1>2

\* Drifting earns no trust.
LEMMA DriftSteady ==
  ASSUME NEW k \in Sessions,
         sessions'[k] # Absent => Drifts(SessionOf(sessions, k), sessions'[k])
  PROVE  Steady(k)
<1> SUFFICES ASSUME Binds(sessions'[k])
             PROVE  /\ Trusts(k) /\ sessions'[k].route = sessions[k].route
                    /\ Barrier(sessions[k]) \subseteq Barrier(sessions'[k])
  BY DEF Steady
<1>1. Continues(SessionOf(sessions, k), sessions'[k])
  BY DEF Binds, Drifts
<1>2. sessions[k] # Absent
  BY <1>1 DEF Continues, Binds, SessionOf, Blank
<1>3. SessionOf(sessions, k) = sessions[k]
  BY <1>2 DEF SessionOf
<1> QED
  BY <1>1, <1>2, <1>3 DEF Continues, Binds, Trusts, Barrier

\* prepare of a candidate that is tracked.
LEMMA CandidateCalm ==
  ASSUME StoreInv, Single, NEW r \in Requests, NEW k \in Sessions,
         NEW route \in Routes \cup {NoRoute}, NEW payload \in Payloads,
         \A q \in Used(pending) \ {r} : pending[q].session # k,
         \/ route = NoRoute /\ PrepareUnknown(r, k, payload)
         \/ route # NoRoute /\ PrepareTracked(r, k, route, payload)
  PROVE  /\ Calm({r}, {}) /\ sweep = {} /\ sweep' = {}
         /\ r \in Used(pending') =>
              /\ pending'[r].session = k /\ pending'[r].route = route
              /\ sessions'[k] # Absent => sessions'[k].seq < pending'[r].seq
              /\ \/ payload.items \subseteq pending'[r].retired
                 \/ pending'[r].overflow
                 \/ /\ Binds(sessions'[k]) /\ sessions'[k].route = route
                    /\ pending'[r].observedAt <= sessions'[k].updatedAt
         /\ r \notin Used(pending') => ~Binds(sessions'[k])
<1>1. TypeOK /\ IndexExact /\ Bounded /\ Numbered
  BY DEF StoreInv
<1>2. Tracks(r, k, route) /\ sweep = {} /\ sweep' = {}
  <2>1. Tracks(r, k, route)
    BY <1>1, CandidateTracks
  <2> QED
    BY <2>1 DEF Tracks
<1>3. PICK s \in SessionRec, p \in PendingRec : Candidate(r, k, route, payload, s, p)
  BY <1>1, CandidateTracks
<1>4. PICK ss \in TrimSessions([sessions EXCEPT ![k] = s], IndexWithout(r)) : Track(r, p, ss)
  BY <1>3 DEF Candidate
<1>5. /\ \A q \in Used(pending') \ {r} : Spared(q)
      /\ r \in Used(pending') =>
           pending'[r] = p /\ (sessions[k] # Absent => sessions'[k] = s)
      /\ \A q \in Used(pending) \ (Used(pending') \cup {r}) :
           ~Binds(sessions'[pending[q].session])
      /\ r \notin Used(pending') => ~Binds(sessions'[k])
  BY <1>1, <1>2, <1>3, <1>4, TrackSpares DEF Candidate
<1>6. \A j \in Sessions : Steady(j)
  BY <1>1, <1>2, TracksDrifts, DriftSteady
<1>7. Calm({r}, {})
  BY <1>5, <1>6 DEF Calm
<1>8. ASSUME sessions'[k] # Absent
      PROVE  sessions'[k].seq < sequence + 1
  <2>1. Drifts(SessionOf(sessions, k), sessions'[k])
    BY <1>1, <1>2, <1>8, TracksDrifts
  <2>2. sessions'[k].seq = SessionOf(sessions, k).seq \/ sessions'[k].seq = 0
    BY <2>1 DEF Drifts, Continues
  <2>3. sequence \in Nat /\ SessionOf(sessions, k) \in SessionRec
    BY <1>1, TypeOKParts, SessionOfType
  <2>4. SessionOf(sessions, k).seq <= sequence
    BY <1>1, <2>3 DEF Numbered, Live, SessionOf, Blank
  <2>5. SessionOf(sessions, k).seq \in Nat
    BY <2>3 DEF SessionRec
  <2> QED
    BY <2>2, <2>3, <2>4, <2>5
<1>9. ASSUME r \in Used(pending'), ~Strips(Seen(r, k, route), route, payload),
             payload.items # {}
      PROVE  /\ Binds(sessions'[k]) /\ sessions'[k].route = route
             /\ pending'[r].observedAt <= sessions'[k].updatedAt
  <2>1. route # NoRoute /\ Trusts(k) /\ sessions[k].route = route
    BY <1>1, <1>9, Decides
  <2>2. sessions[k] # Absent /\ ~sessions[k].tainted /\ SessionOf(sessions, k) = sessions[k]
    BY <2>1 DEF Trusts, Binds, SessionOf
  <2>3. sessions'[k] = s /\ pending'[r] = p
    BY <1>5, <1>9, <2>2
  <2>4. ~RouteMismatch(IndexWithout(r), k, route)
    BY <1>1, NoMismatch
  <2>5. s # Absent /\ now \in Nat
    BY <1>1, AbsentAssumption, TypeOKParts
  <2> QED
    BY <1>3, <2>1, <2>2, <2>3, <2>4, <2>5 DEF Candidate, Binds
<1>10. ASSUME r \in Used(pending')
       PROVE  /\ pending'[r].session = k /\ pending'[r].route = route
              /\ sessions'[k] # Absent => sessions'[k].seq < pending'[r].seq
              /\ \/ payload.items \subseteq pending'[r].retired
                 \/ pending'[r].overflow
                 \/ /\ Binds(sessions'[k]) /\ sessions'[k].route = route
                    /\ pending'[r].observedAt <= sessions'[k].updatedAt
  <2>1. pending'[r] = p
    BY <1>5, <1>10
  <2> QED
    BY <1>3, <1>8, <1>9, <1>10, <2>1 DEF Candidate
<1> QED
  BY <1>2, <1>5, <1>7, <1>10

-----------------------------------------------------------------------------
(* What complete() of a success binds and bars.                            *)

\* Retiring bars the items from the route they are retired for (retireItemsLocked), one by
\* one or all at once.
LEMMA RetireBars ==
  ASSUME NEW s \in SessionRec, NEW items \in SUBSET Items, NEW route \in Routes \cup {NoRoute}
  PROVE  /\ MarkRetiredOverflow(s).overflow
         /\ LET u == RetireItems(s, items, route)
            IN  u.overflow \/ \A i \in items : u.retired[i] \in {AnyRoute, route}
<1> DEFINE scope == IF route = NoRoute THEN AnyRoute ELSE route
           f == [i \in Items |-> IF i \in items THEN scope ELSE s.retired[i]]
           u == [s EXCEPT !.updatedAt = now, !.retired = f]
           v == [s EXCEPT !.updatedAt = now]
<1>1. MarkRetiredOverflow(s).overflow
  BY DEF MarkRetiredOverflow, SessionRec
<1>2. v.overflow = s.overflow
  BY DEF SessionRec
<1>3. u.retired = f
  <2> HIDE DEF f
  <2> QED
    BY DEF SessionRec
<1>4. \/ RetireItems(s, items, route) = v /\ (s.overflow \/ items = {})
      \/ RetireItems(s, items, route) \in {MarkRetiredOverflow(s), u}
  BY DEF RetireItems
<1>5. \A i \in items : f[i] \in {AnyRoute, route}
  OBVIOUS
<1> HIDE DEF u, v, f
<1> QED
  BY <1>1, <1>2, <1>3, <1>4, <1>5

\* A success that commits leaves all that its request was stripped of behind the barrier
\* of its route.
LEMMA CommitBars ==
  ASSUME TypeOK, NEW p \in PendingRec, NEW idx, Commits(SessionOf(sessions, p.session), p)
  PROVE  LET s == SucceededBy(p, idx)
         IN  s.route = p.route /\ p.retired \subseteq Barrier(s)
             /\ (p.overflow => Barrier(s) = Items)
<1> DEFINE found == SessionOf(sessions, p.session)
           retired == RetiredBy(p)
           new == SucceededBy(p, idx)
<1>1. /\ p.session \in Sessions /\ p.retired \in SUBSET Items /\ found \in SessionRec
      /\ p.route \in Routes \cup {NoRoute}
  BY TypeOKParts, SessionOfType DEF PendingRec
<1>2. retired \in {found, MarkRetiredOverflow(found), RetireItems(found, p.retired, p.route)}
  BY DEF RetiredBy
<1>3. new.route = p.route
  BY SucceededFields
<1>4. /\ p.overflow => retired.overflow
      /\ retired.overflow \/ \A i \in p.retired : retired.retired[i] \in {AnyRoute, p.route}
  <2>1. /\ MarkRetiredOverflow(found).overflow
        /\ LET u == RetireItems(found, p.retired, p.route)
           IN  u.overflow \/ \A i \in p.retired : u.retired[i] \in {AnyRoute, p.route}
    BY <1>1, RetireBars
  <2> HIDE DEF found
  <2> QED
    BY <2>1 DEF RetiredBy, found
<1> HIDE DEF found
<1>5. retired \in SessionRec /\ retired.route = found.route /\ retired.seq = found.seq
  <2> HIDE DEF retired
  <2> QED
    BY <1>1, <1>2, RetiredFields
<1>6. new = CommittedBy(p, idx)
  <2>1. Commits(retired, p)
    BY <1>5 DEF Commits, found
  <2> QED
    BY <2>1 DEF SucceededBy
<1>7. new.retired = retired.retired /\ new.overflow = retired.overflow
  <2> HIDE DEF retired, new
  <2> QED
    BY <1>5, <1>6 DEF CommittedBy, SessionRec, retired
<1> HIDE DEF new, retired
<1>8. p.retired \subseteq Barrier(new) /\ (p.overflow => Barrier(new) = Items)
  BY <1>1, <1>3, <1>4, <1>7 DEF Barrier
<1> QED
  BY <1>3, <1>8 DEF new

\* complete() of a success: nothing but its own conversation is touched, and if that one is
\* trusted afterwards, it is bound to the route of the request, or as before if nobody can
\* name that route.
LEMMA SuccessCalm ==
  ASSUME StoreInv, Single, NEW r \in Requests, CompleteSucceeded(r),
         LET s == sessions[pending[r].session] IN s # Absent => s.seq < pending[r].seq
  PROVE  LET p == pending[r]
             k == p.session
             old == sessions[k]
             new == sessions'[k]
         IN  /\ Calm({r}, {k})
             /\ r \in Used(pending) /\ pending' = PendingWithout(r)
             /\ sweep = {} /\ sweep' = {}
             /\ Binds(new) /\ p.route = NoRoute =>
                  Trusts(k) /\ new.route = old.route /\ Barrier(old) \subseteq Barrier(new)
             /\ Binds(new) /\ p.route # NoRoute =>
                  /\ new.route = p.route /\ p.retired \subseteq Barrier(new)
                  /\ p.overflow => Barrier(new) = Items
                  /\ Trusts(k) /\ old.route = p.route => Barrier(old) \subseteq Barrier(new)
<1>1. TypeOK /\ IndexExact /\ r \in Used(pending)
  BY DEF StoreInv, CompleteSucceeded, Used
<1>2. PICK p \in PendingRec : p = pending[r]
  BY <1>1, SucceededForm
<1>3. PICK k \in Sessions : k = p.session
  BY <1>2 DEF PendingRec
<1>4. PICK s : s = SucceededBy(p, index')
  OBVIOUS
<1>5. /\ pending' = PendingWithout(r) /\ index' = IndexWithout(r)
      /\ sweep = {} /\ sweep' = {}
      /\ sessions' \in TrimSessions([sessions EXCEPT ![k] = s], index')
  BY <1>1, <1>2, <1>3, <1>4, SucceededForm
<1>6. s \in SessionRec
  BY <1>1, <1>4, SucceededFields
<1>7. Calm({r}, {k}) /\ sessions'[k] \in {s, Absent}
  BY <1>1, <1>2, <1>3, <1>5, <1>6, DropsCalmly
<1>8. SessionOf(sessions, k) \in SessionRec
  BY <1>1, TypeOKParts, SessionOfType
<1>9. p.seq \in Nat /\ SessionOf(sessions, k).seq \in Nat
  BY <1>8 DEF PendingRec, SessionRec
<1>10. SessionOf(sessions, k).seq <= p.seq
  BY <1>2, <1>3, <1>9 DEF SessionOf, Blank
<1>11. Commits(SessionOf(sessions, k), p) <=> p.route # NoRoute
  BY <1>9, <1>10 DEF Commits
<1>12. ASSUME Binds(sessions'[k]), p.route = NoRoute
       PROVE  /\ Trusts(k) /\ sessions'[k].route = sessions[k].route
              /\ Barrier(sessions[k]) \subseteq Barrier(sessions'[k])
  <2>1. sessions'[k] = s
    BY <1>7, <1>12 DEF Binds
  <2>2. s.route = SessionOf(sessions, k).route /\ s.tainted = SessionOf(sessions, k).tainted
    BY <1>1, <1>3, <1>4, <1>11, <1>12, SucceededFields
  <2>3. sessions[k] # Absent /\ SessionOf(sessions, k) = sessions[k]
    BY <1>12, <2>1, <2>2 DEF Binds, SessionOf, Blank
  <2>4. Barrier(SessionOf(sessions, k)) \subseteq Barrier(s)
    BY <1>1, <1>3, <1>4, <1>12, <2>2, SuccessGrows
  <2> QED
    BY <1>12, <2>1, <2>2, <2>3, <2>4 DEF Trusts, Binds
<1>13. ASSUME Binds(sessions'[k]), p.route # NoRoute
       PROVE  /\ sessions'[k].route = p.route /\ p.retired \subseteq Barrier(sessions'[k])
              /\ p.overflow => Barrier(sessions'[k]) = Items
              /\ Trusts(k) /\ sessions[k].route = p.route
                 => Barrier(sessions[k]) \subseteq Barrier(sessions'[k])
  <2>1. sessions'[k] = s
    BY <1>7, <1>13 DEF Binds
  <2>2. /\ s.route = p.route /\ p.retired \subseteq Barrier(s)
        /\ p.overflow => Barrier(s) = Items
    BY <1>1, <1>3, <1>4, <1>11, <1>13, CommitBars
  <2>3. ASSUME Trusts(k), sessions[k].route = p.route
        PROVE  Barrier(sessions[k]) \subseteq Barrier(s)
    <3>1. SessionOf(sessions, k) = sessions[k]
      BY <2>3 DEF Trusts, Binds, SessionOf
    <3> QED
      BY <1>1, <1>3, <1>4, <2>2, <2>3, <3>1, SuccessGrows
  <2> QED
    BY <2>1, <2>2, <2>3
<1> QED
  BY <1>1, <1>2, <1>3, <1>5, <1>7, <1>12, <1>13

-----------------------------------------------------------------------------
(* What a step leaves of the invariant elsewhere.                          *)

\* A store tracks one request of a conversation at most, if a client runs one.
LEMMA SingleTurn ==
  ASSUME OneTurn, Tracked
  PROVE  Single
BY DEF OneTurn, Tracked, Single

\* The unknown route is a route to those who ask, and no route nobody.
LEMMA Nobody == Absent \notin Routes /\ NoRoute \notin Routes /\ NoRoute # Absent
BY AbsentCallAssumption, ConstantsAssumption

\* Requests but those of R run on, and nobody gets hold of anything new: creations and
\* responses only lose their creator, or their holder.
Fades(R) ==
  /\ \A q \in Requests \ R : call'[q] = call[q]
  /\ \A i \in Items : owner'[i] = owner[i] \/ (owner[i] # Absent /\ owner'[i] = NoRoute)
  /\ \A k \in Sessions : last'[k] \in {last[k], NoRoute, Absent} /\ held'[k] \subseteq held[k]

\* What is fit for a conversation that keeps its trust stays fit.
LEMMA StaysFit ==
  ASSUME NEW R, Fades(R), NEW j \in Sessions, Steady(j), Binds(sessions'[j]),
         NEW i \in Items, Fit(i, sessions[j])
  PROVE  Fit(i, sessions[j])'
<1>1. /\ sessions'[j].route = sessions[j].route
      /\ Barrier(sessions[j]) \subseteq Barrier(sessions'[j])
  BY DEF Steady
<1>2. owner'[i] \in Routes => owner'[i] = owner[i]
  BY Nobody DEF Fades
<1> QED
  BY <1>1, <1>2 DEF Fit

\* A conversation without a request of R is as well guarded as before.
LEMMA GuardedElsewhere ==
  ASSUME HostTypes, Tracked, NEW R, NEW K, Calm(R, K), Fades(R), NEW j \in Sessions \ K,
         GuardedAt(j),
         \A r \in R : /\ r \in Used(pending) => call[r].session # j
                      /\ r \in Running' => call'[r].session # j
  PROVE  GuardedAt(j)'
<1> SUFFICES ASSUME Binds(sessions'[j])
             PROVE  HeldFit(j)' /\ LastFit(j)' /\ SentFit(j)'
  BY DEF GuardedAt, Trusts
<1>1. /\ Steady(j) /\ Trusts(j) /\ sessions'[j].route = sessions[j].route
  BY DEF Calm, Steady
<1>2. HeldFit(j) /\ LastFit(j) /\ SentFit(j)
  BY <1>1 DEF GuardedAt
<1>3. ASSUME NEW q \in Used(pending), call[q].session = j
      PROVE  q \in Used(pending') /\ call'[q] = call[q]
  <2>1. q \notin R /\ q \in Requests
    BY <1>3 DEF Used
  <2>2. pending[q].session = j
    BY <1>3 DEF Tracked
  <2> QED
    BY <2>1, <2>2 DEF Calm, Fades
<1>4. HeldFit(j)'
  <2> SUFFICES ASSUME NEW i \in held'[j]
               PROVE  Fit(i, sessions[j])' \/ Making(j, i)'
    BY DEF HeldFit
  <2>1. i \in held[j] /\ i \in Items
    BY DEF Fades, HostTypes
  <2>2. CASE Fit(i, sessions[j])
    BY <1>1, <2>1, <2>2, StaysFit
  <2>3. CASE Making(j, i)
    BY <1>3, <2>3 DEF Making
  <2> QED
    BY <1>2, <2>1, <2>2, <2>3 DEF HeldFit
<1>5. LastFit(j)'
  <2>1. CASE Named(last[j], sessions[j])
    BY <1>1, <2>1 DEF LastFit, Named, Fades
  <2>2. CASE Answering(j)
    BY <1>3, <2>2 DEF LastFit, Answering
  <2> QED
    BY <1>2, <2>1, <2>2 DEF LastFit
<1>6. SentFit(j)'
  <2> SUFFICES ASSUME NEW q \in Running', call'[q].session = j
               PROVE  /\ Named(call[q].prev, sessions[j])'
                      /\ \A i \in call'[q].items : Fit(i, sessions[j])'
    BY DEF SentFit
  <2>1. q \in Requests \ R
    BY DEF Running
  <2>2. call'[q] = call[q] /\ q \in Running
    BY <2>1 DEF Fades, Running
  <2>3. Named(call[q].prev, sessions[j]) /\ \A i \in call[q].items : Fit(i, sessions[j])
    BY <1>2, <2>2 DEF SentFit
  <2>4. call[q].items \subseteq Items
    BY <2>2, CallTyped
  <2>5. \A i \in call'[q].items : Fit(i, sessions[j])'
    BY <1>1, <2>2, <2>3, <2>4, StaysFit
  <2> QED
    BY <1>1, <2>2, <2>3, <2>5 DEF Named
<1> QED
  BY <1>4, <1>5, <1>6

\* A request outside R is as well known to the store as before.
LEMMA UnfinishedElsewhere ==
  ASSUME HostTypes, Tracked, NEW R, NEW K, Calm(R, K), Fades(R),
         NEW q \in Running \ R, call[q].session \notin K, UnfinishedAt(q)
  PROVE  UnfinishedAt(q)'
<1>1. call'[q] = call[q] /\ q \in Requests
  BY DEF Fades, Running
<1>2. PICK k \in Sessions \ K : k = call[q].session /\ Steady(k)
  BY CallTyped DEF Calm
<1>3. q \in Used(pending) => pending[q].session = k
  BY <1>2 DEF Tracked
<1>4. LostOne(q)'
  <2>1. CASE pending[q] = Absent
    BY <1>1, <1>2, <2>1 DEF UnfinishedAt, LostOne, Steady, Trusts
  <2>2. CASE q \in Used(pending)
    BY <1>1, <1>2, <1>3, <2>2 DEF LostOne, Calm, Used, Trusts
  <2> QED
    BY <1>1, <2>1, <2>2 DEF Used
<1>5. ASSUME q \in Used(pending')
      PROVE  /\ q \in Used(pending) /\ pending'[q] = pending[q]
             /\ q \notin sweep' => q \notin sweep
             /\ sessions'[k] # Absent => sessions'[k] = sessions[k]
             /\ /\ q \notin sweep' /\ sessions[k] # Absent
                /\ pending[q].observedAt <= sessions[k].updatedAt
                => sessions'[k] # Absent
  BY <1>3, <1>5 DEF Calm, Spared
<1>6. Bars(q)'
  BY <1>1, <1>2, <1>5 DEF UnfinishedAt, Bars, Trusts, Binds
<1>7. Newest(q)'
  BY <1>1, <1>2, <1>5 DEF UnfinishedAt, Newest
<1> QED
  BY <1>4, <1>6, <1>7 DEF UnfinishedAt

\* So is what its client did before it, and what it created.
LEMMA HistoryElsewhere ==
  ASSUME HostTypes, NEW R, Fades(R), NEW q \in Running \ R, History(q)
  PROVE  History(q)'
<1>1. call'[q] = call[q] /\ q \in Requests
  BY DEF Fades, Running
<1>2. call[q].session \in Sessions /\ call[q].items \subseteq Items /\ call[q].made \subseteq Items
      /\ held[call[q].session] \subseteq Items
  BY CallTyped DEF HostTypes
<1>3. PICK c : c = call[q]
  OBVIOUS
<1>4. \A i \in Items : owner'[i] = owner[i] \/ (owner[i] # Absent /\ owner'[i] = NoRoute)
  BY DEF Fades
<1>5. /\ last'[c.session] \in {last[c.session], NoRoute, Absent}
      /\ held'[c.session] \subseteq held[c.session]
  BY <1>2, <1>3 DEF Fades
<1>6. /\ \A i \in c.items : owner'[i] # Absent
      /\ \A i \in c.made : owner'[i] \in {c.route, NoRoute}
      /\ ~c.answered => c.made = {}
      /\ c.answered /\ c.known => last'[c.session] \in {Absent, NoRoute, c.route}
      /\ \A i \in held'[c.session] : i \in c.items \cup c.made \/ owner'[i] = NoRoute
  BY <1>2, <1>3, <1>4, <1>5, Nobody DEF History
<1> QED
  BY <1>1, <1>3, <1>6 DEF History

-----------------------------------------------------------------------------
(* A candidate is offered: a turn begins, or goes on.                      *)

\* What goes upstream of what the client sent.
Home(c) == c.route # NoRoute /\ Trusts(c.session) /\ sessions[c.session].route = c.route
Allowed(c) ==
  /\ c.sent \subseteq c.items
  /\ c.sent # {} => Home(c) /\ c.sent \cap Barrier(sessions[c.session]) = {}
  /\ c.sentPrev \in {Absent, c.prev}
  /\ c.sentPrev # Absent => Home(c)

Launched(c, k, route, items, prev) ==
  /\ c.session = k /\ c.route = route /\ c.items = items /\ c.prev = prev
  /\ ~c.answered /\ c.known /\ c.made = {} /\ Allowed(c)

\* What the store does for it, if it does not reject it.
Prepared(r, k, route, payload) ==
  \/ route = NoRoute /\ PrepareUntracked(r, k, route, payload)
  \/ route = NoRoute /\ PrepareUnknown(r, k, payload)
  \/ route # NoRoute /\ PrepareTracked(r, k, route, payload)

\* The strip policy rejects nothing.
LEMMA InterceptForm ==
  ASSUME TypeOK, CompactionPolicy = "strip", NEW r \in Requests, NEW k \in Sessions,
         NEW route \in Routes \cup {NoRoute}, NEW items \in SUBSET Items,
         NEW prev \in Routes \cup {NoRoute, Absent}, Intercept(r, k, route, items, prev)
  PROVE  /\ UNCHANGED <<owner, held, last, cover>>
         /\ \E c \in CallRec : call' = [call EXCEPT ![r] = c] /\ Launched(c, k, route, items, prev)
         /\ \E payload \in Payloads : payload.items = items /\ Prepared(r, k, route, payload)
<1> DEFINE payload == [items |-> items, prev |-> prev # Absent]
           session == Seen(r, k, route)
           sent == Forwarded(session, route, payload)
           sentPrev == IF Strips(session, route, payload) THEN Absent ELSE prev
           c == [session |-> k, route |-> route, since |-> now, answered |-> FALSE,
                 known |-> TRUE, made |-> {}, items |-> items, prev |-> prev,
                 sent |-> sent, sentPrev |-> sentPrev]
<1>1. payload \in Payloads /\ payload.items = items /\ (payload.prev <=> prev # Absent)
  BY DEF Payloads
<1>2. \A s : ~Rejects(s, route, payload)
  BY DEF Rejects
<1>3. /\ IF route = NoRoute
         THEN PrepareUntracked(r, k, route, payload) \/ PrepareUnknown(r, k, payload)
         ELSE PrepareRejected(r, k, route, payload) \/ PrepareTracked(r, k, route, payload)
      /\ call' = [call EXCEPT ![r] = IF Rejects(session, route, payload) THEN Absent ELSE c]
      /\ UNCHANGED <<owner, held, last, cover>>
  BY DEF Intercept, Seen
<1>4. /\ Strips(session, route, payload) => sent = {}
      /\ ~Strips(session, route, payload) =>
           \/ route # NoRoute /\ Trusts(k) /\ sessions[k].route = route
           \/ payload.items = {} /\ ~payload.prev
      /\ sent \subseteq payload.items
      /\ sent # {} => /\ route # NoRoute /\ Trusts(k) /\ sessions[k].route = route
                      /\ sent \cap Barrier(sessions[k]) = {}
  <2> HIDE DEF payload
  <2> QED
    BY <1>1, Decides
<1>5. sentPrev \in {Absent, prev} /\ (sentPrev # Absent =>
        route # NoRoute /\ Trusts(k) /\ sessions[k].route = route)
  BY <1>1, <1>4
<1>6. ~PrepareRejected(r, k, route, payload)
  BY <1>2 DEF PrepareRejected
<1>7. now \in Nat /\ sent \in SUBSET Items
  BY <1>1, <1>4, TypeOKParts
<1> HIDE DEF payload, session, sent, sentPrev
<1>8. /\ c \in CallRec
      /\ c.session = k /\ c.route = route /\ c.items = items /\ c.prev = prev
      /\ ~c.answered /\ c.known /\ c.made = {} /\ c.sent = sent /\ c.sentPrev = sentPrev
  BY <1>5, <1>7 DEF CallRec
<1> HIDE DEF c
<1>9. Allowed(c)
  BY <1>1, <1>4, <1>5, <1>8 DEF Allowed, Home
<1>10. call' = [call EXCEPT ![r] = c]
  BY <1>2, <1>3
<1>11. Launched(c, k, route, items, prev)
  BY <1>8, <1>9 DEF Launched
<1>12. Prepared(r, k, route, payload)
  BY <1>3, <1>6 DEF Prepared
<1> QED
  BY <1>1, <1>3, <1>8, <1>10, <1>11, <1>12

\* What becomes of the request in the store.
LEMMA InterceptCalm ==
  ASSUME StoreInv, Single, CompactionPolicy = "strip", NEW r \in Requests, NEW k \in Sessions,
         NEW route \in Routes \cup {NoRoute}, NEW items \in SUBSET Items,
         NEW prev \in Routes \cup {NoRoute, Absent}, Intercept(r, k, route, items, prev),
         \A q \in Used(pending) \ {r} : pending[q].session # k
  PROVE  /\ Calm({r}, {})
         /\ r \in Used(pending') =>
              /\ pending'[r].session = k /\ pending'[r].route = route
              /\ sessions'[k] # Absent => sessions'[k].seq < pending'[r].seq
              /\ \/ items \subseteq pending'[r].retired
                 \/ pending'[r].overflow
                 \/ /\ Binds(sessions'[k]) /\ sessions'[k].route = route
                    /\ pending'[r].observedAt <= sessions'[k].updatedAt
         /\ r \notin Used(pending') /\ route # NoRoute => ~Binds(sessions'[k])
<1>1. TypeOK
  BY DEF StoreInv
<1>2. PICK payload \in Payloads : payload.items = items /\ Prepared(r, k, route, payload)
  BY <1>1, InterceptForm
<1>3. CASE route = NoRoute /\ PrepareUntracked(r, k, route, payload)
  <2>1. r # NoRequest
    BY ConstantsAssumption
  <2>2. pending' = PendingWithout(r) /\ sessions' = sessions /\ sweep = {} /\ sweep' = {}
    BY <1>3, <2>1 DEF PrepareUntracked, Ready
  <2>3. /\ r \notin Used(pending')
        /\ \A q \in Requests \ {r} : pending'[q] = pending[q]
    BY <1>1, <2>2, TypeOKParts DEF PendingWithout, PendingMap, Used
  <2>4. \A q \in Used(pending') \ {r} : Spared(q)
    BY <2>2, <2>3 DEF Spared, Used
  <2>5. \A j \in Sessions : Steady(j)
    BY <2>2 DEF Steady, Trusts
  <2>6. Used(pending) \ (Used(pending') \cup {r}) = {}
    BY <2>3 DEF Used
  <2> QED
    BY <1>3, <2>3, <2>4, <2>5, <2>6 DEF Calm
<1>4. CASE \/ route = NoRoute /\ PrepareUnknown(r, k, payload)
           \/ route # NoRoute /\ PrepareTracked(r, k, route, payload)
  BY <1>2, <1>4, CandidateCalm
<1> QED
  BY <1>2, <1>3, <1>4 DEF Prepared

\* What a turn that begins or goes on takes from what came before it: its client and its
\* conversation are as they should be, and nothing is left of another candidate.
LEMMA OfferKnown ==
  ASSUME HostInv, NEW r \in Requests, NEW k \in Sessions, NEW items, NEW prev,
         Offers(r, k, items, prev)
  PROVE  /\ r \in Running => call[r].session = k /\ ~call[r].answered /\ call[r].made = {}
         /\ \A q \in Running \ {r} : call[q].session # k
         /\ \A q \in Used(pending) \ {r} : pending[q].session # k
         /\ \A i \in items : owner[i] # Absent
         /\ \A i \in held[k] : i \in items \/ owner[i] = NoRoute
         /\ Trusts(k) => /\ \A i \in held[k] \cup items : Fit(i, sessions[k])
                         /\ Named(last[k], sessions[k]) /\ Named(prev, sessions[k])
<1>1. ASSUME r \in Running
      PROVE  /\ call[r].session = k /\ ~call[r].answered /\ call[r].made = {} /\ History(r)
             /\ items = call[r].items /\ prev = call[r].prev
  <2>1. /\ call[r].session = k /\ ~call[r].answered
        /\ items = call[r].items /\ prev = call[r].prev
    BY <1>1 DEF Offers, Running
  <2>2. History(r)
    BY <1>1 DEF HostInv, Created
  <2> QED
    BY <2>1, <2>2 DEF History
<1>2. r \notin Running => items = held[k] /\ prev \in {Absent, last[k]}
  BY DEF Offers, Running
<1>3. \A q \in Running \ {r} : call[q].session # k
  BY DEF Offers
<1>4. \A q \in Used(pending) \ {r} : pending[q].session # k
  BY <1>3 DEF HostInv, Tracked
<1>5. \A i \in items : owner[i] # Absent
  BY <1>1, <1>2 DEF HostInv, Created, History
<1>6. \A i \in held[k] : i \in items \/ owner[i] = NoRoute
  BY <1>1, <1>2 DEF History
<1>7. ASSUME Trusts(k)
      PROVE  /\ \A i \in held[k] \cup items : Fit(i, sessions[k])
             /\ Named(last[k], sessions[k]) /\ Named(prev, sessions[k])
  <2>1. HeldFit(k) /\ LastFit(k) /\ SentFit(k)
    BY <1>7 DEF HostInv, Guarded, GuardedAt
  <2>2. \A q \in Used(pending) : call[q].session = k => ~call[q].answered /\ call[q].made = {}
    BY <1>1, <1>3 DEF HostInv, Tracked
  <2>3. (\A i \in held[k] : Fit(i, sessions[k])) /\ Named(last[k], sessions[k])
    BY <2>1, <2>2 DEF HeldFit, LastFit, Making, Answering
  <2>4. r \in Running => /\ \A i \in items : Fit(i, sessions[k])
                         /\ Named(prev, sessions[k])
    BY <1>1, <2>1 DEF SentFit
  <2>5. Named(Absent, sessions[k])
    BY DEF Named
  <2> QED
    BY <1>2, <2>3, <2>4, <2>5
<1> QED
  BY <1>1, <1>3, <1>4, <1>5, <1>6, <1>7

\* A candidate, of a turn that begins or goes on, keeps the invariant
\* (InterceptRequestAfterAuth).
LEMMA InterceptKeeps ==
  ASSUME StoreInv, HostInv, CompactionPolicy = "strip", NEW r \in Requests,
         NEW k \in Sessions, NEW route \in Routes \cup {NoRoute}, NEW items \in SUBSET Items,
         NEW prev \in Routes \cup {NoRoute, Absent}, Intercept(r, k, route, items, prev),
         Offers(r, k, items, prev)
  PROVE  HostInv'
<1>1. TypeOK /\ HostTypes /\ OneTurn /\ Tracked /\ Created /\ Guarded /\ Unfinished
  BY DEF StoreInv, HostInv
<1>2. /\ r \in Running => call[r].session = k /\ ~call[r].answered /\ call[r].made = {}
      /\ \A q \in Running \ {r} : call[q].session # k
      /\ \A q \in Used(pending) \ {r} : pending[q].session # k
      /\ \A i \in items : owner[i] # Absent
      /\ \A i \in held[k] : i \in items \/ owner[i] = NoRoute
      /\ Trusts(k) => /\ \A i \in held[k] \cup items : Fit(i, sessions[k])
                      /\ Named(last[k], sessions[k]) /\ Named(prev, sessions[k])
  BY OfferKnown
<1>3. PICK c \in CallRec :
        call' = [call EXCEPT ![r] = c] /\ Launched(c, k, route, items, prev)
  BY <1>1, InterceptForm
<1>4. UNCHANGED <<owner, held, last>>
  BY <1>1, InterceptForm
<1>5. /\ c.session = k /\ c.route = route /\ c.items = items /\ c.prev = prev
      /\ ~c.answered /\ c.known /\ c.made = {}
  BY <1>3 DEF Launched
<1>6. call'[r] = c /\ \A q \in Requests \ {r} : call'[q] = call[q]
  BY <1>1, <1>3 DEF HostTypes
<1>7. c # Absent
  BY AbsentCallAssumption
<1>8. Running' = Running \cup {r}
  BY <1>6, <1>7 DEF Running
<1>9. Fades({r})
  BY <1>4, <1>6 DEF Fades
<1>10. Single
  BY <1>1, SingleTurn
<1>11. /\ Calm({r}, {})
       /\ r \in Used(pending') =>
            /\ pending'[r].session = k /\ pending'[r].route = route
            /\ sessions'[k] # Absent => sessions'[k].seq < pending'[r].seq
            /\ \/ items \subseteq pending'[r].retired
               \/ pending'[r].overflow
               \/ /\ Binds(sessions'[k]) /\ sessions'[k].route = route
                  /\ pending'[r].observedAt <= sessions'[k].updatedAt
       /\ r \notin Used(pending') /\ route # NoRoute => ~Binds(sessions'[k])
  BY <1>2, <1>10, InterceptCalm
<1>12. \A q \in Used(pending') \ {r} : q \in Used(pending) /\ pending'[q] = pending[q]
  BY <1>11 DEF Calm, Spared
<1>13. HostTypes'
  BY <1>1, <1>3, <1>4 DEF HostTypes
<1>14. OneTurn'
  BY <1>1, <1>2, <1>5, <1>6, <1>8 DEF OneTurn, Running
<1>15. Tracked'
  <2> SUFFICES ASSUME NEW q \in Used(pending')
               PROVE  /\ q \in Running' /\ call'[q].known
                      /\ call'[q].session = pending'[q].session
                      /\ call'[q].route = pending'[q].route
    BY DEF Tracked
  <2>1. CASE q = r
    BY <1>5, <1>6, <1>8, <1>11, <2>1
  <2>2. CASE q # r
    <3>1. q \in Used(pending) /\ pending'[q] = pending[q] /\ call'[q] = call[q]
      BY <1>6, <1>12, <2>2 DEF Used
    <3> QED
      BY <1>1, <1>8, <3>1 DEF Tracked
  <2> QED
    BY <2>1, <2>2
<1>16. Created'
  <2>1. \A j \in Sessions : \A i \in held'[j] : owner'[i] # Absent
    BY <1>1, <1>4 DEF Created
  <2>2. \A q \in Running \ {r} : History(q)'
    BY <1>1, <1>9, HistoryElsewhere DEF Created
  <2>3. History(r)'
    BY <1>2, <1>4, <1>5, <1>6 DEF History
  <2> QED
    BY <1>8, <2>1, <2>2, <2>3 DEF Created
<1>17. ASSUME NEW j \in Sessions
       PROVE  GuardedAt(j)'
  <2>1. CASE j # k
    <3>1. \A q \in {r} : /\ q \in Used(pending) => call[q].session # j
                         /\ q \in Running' => call'[q].session # j
      BY <1>1, <1>2, <1>5, <1>6, <2>1 DEF Tracked
    <3>2. GuardedAt(j)
      BY <1>1 DEF Guarded
    <3> QED
      BY <1>1, <1>9, <1>11, <3>1, <3>2, GuardedElsewhere
  <2>2. ASSUME j = k, Binds(sessions'[j])
        PROVE  HeldFit(j)' /\ LastFit(j)' /\ SentFit(j)'
    <3>1. Steady(j) /\ Trusts(j) /\ sessions'[j].route = sessions[j].route
      BY <1>11, <2>2 DEF Calm, Steady
    <3>2. held[j] \subseteq Items
      BY <1>1 DEF HostTypes
    <3>3. \A i \in held[j] \cup items : Fit(i, sessions[j])'
      BY <1>2, <1>9, <2>2, <3>1, <3>2, StaysFit
    <3>4. Named(last[j], sessions[j])' /\ Named(prev, sessions[j])'
      BY <1>2, <1>4, <2>2, <3>1 DEF Named
    <3>5. \A q \in Running' : call'[q].session = j => call'[q] = c
      BY <1>2, <1>6, <2>2 DEF Running
    <3> QED
      BY <1>4, <1>5, <3>3, <3>4, <3>5 DEF HeldFit, LastFit, SentFit, Named
  <2> QED
    BY <2>1, <2>2 DEF GuardedAt, Trusts
<1>18. UnfinishedAt(r)'
  <2>1. LostOne(r)'
    BY <1>5, <1>6, <1>11 DEF LostOne, Trusts, Used
  <2>2. Bars(r)'
    BY <1>5, <1>6, <1>11 DEF Bars, Trusts
  <2>3. Newest(r)'
    BY <1>5, <1>6, <1>11 DEF Newest
  <2> QED
    BY <2>1, <2>2, <2>3 DEF UnfinishedAt
<1>19. ASSUME NEW q \in Running \ {r}
       PROVE  UnfinishedAt(q)'
  BY <1>1, <1>9, <1>11, UnfinishedElsewhere DEF Unfinished
<1>20. Guarded' /\ Unfinished'
  BY <1>8, <1>17, <1>18, <1>19 DEF Guarded, Unfinished
<1> QED
  BY <1>13, <1>14, <1>15, <1>16, <1>20 DEF HostInv

-----------------------------------------------------------------------------
(* A request ends.                                                         *)

\* What is created by a turn that is disowned has lost its creator.
LEMMA DisownFades ==
  ASSUME HostTypes, Created, NEW R \in SUBSET Running, Disown(R), UNCHANGED held,
         \A q \in Requests \ R : call'[q] = call[q]
  PROVE  /\ Fades(R)
         /\ owner' \in [Items -> Routes \cup {NoRoute, Absent}]
         /\ last' \in [Sessions -> Routes \cup {NoRoute, Absent}]
<1>1. \A i \in Items : owner'[i] = IF \E r \in R : i \in call[r].made THEN NoRoute ELSE owner[i]
  BY DEF Disown, Made
<1>2. \A k \in Sessions : last'[k] \in {last[k], NoRoute}
  BY DEF Disown, LastWithout
<1>3. \A r \in R : \A i \in call[r].made : owner[i] # Absent
  BY CallTyped, Nobody DEF Created, History
<1>4. Fades(R)
  BY <1>1, <1>2, <1>3 DEF Fades
<1> QED
  BY <1>4 DEF Disown, LastWithout, HostTypes

\* The end of a request leaves the invariant as it was but for the conversation it is of.
LEMMA EndKeeps ==
  ASSUME HostInv, NEW r \in Running, NEW k \in Sessions, k = call[r].session,
         NEW K \in SUBSET {k}, Calm({r}, K), Fades({r}), r \notin Used(pending'),
         call' = [call EXCEPT ![r] = Absent],
         owner' \in [Items -> Routes \cup {NoRoute, Absent}], UNCHANGED held,
         last' \in [Sessions -> Routes \cup {NoRoute, Absent}],
         GuardedAt(k)'
  PROVE  HostInv'
<1>1. HostTypes /\ OneTurn /\ Tracked /\ Created /\ Guarded /\ Unfinished
  BY DEF HostInv
<1>2. r \in Requests /\ call'[r] = Absent /\ \A q \in Requests \ {r} : call'[q] = call[q]
  BY <1>1 DEF HostTypes, Running
<1>3. Running' = Running \ {r}
  BY <1>2 DEF Running
<1>4. \A q \in Used(pending') : q # r /\ q \in Used(pending) /\ pending'[q] = pending[q]
  BY DEF Calm, Spared
<1>5. \A q \in Running \ {r} : call[q].session # k
  BY <1>1 DEF OneTurn
<1>6. HostTypes'
  BY <1>1 DEF HostTypes
<1>7. OneTurn'
  BY <1>1, <1>2, <1>3 DEF OneTurn, Running
<1>8. Tracked'
  <2> SUFFICES ASSUME NEW q \in Used(pending')
               PROVE  /\ q \in Running' /\ call'[q].known
                      /\ call'[q].session = pending'[q].session
                      /\ call'[q].route = pending'[q].route
    BY DEF Tracked
  <2>1. q \in Requests \ {r} /\ q \in Used(pending) /\ pending'[q] = pending[q]
    BY <1>4 DEF Used
  <2>2. call'[q] = call[q]
    BY <1>2, <2>1
  <2> QED
    BY <1>1, <1>3, <2>1, <2>2 DEF Tracked
<1>9. Created'
  <2>1. \A j \in Sessions : \A i \in held'[j] : owner'[i] # Absent
    BY <1>1, Nobody DEF Created, Fades, HostTypes
  <2>2. \A q \in Running \ {r} : History(q)'
    BY <1>1, HistoryElsewhere DEF Created
  <2> QED
    BY <1>3, <2>1, <2>2 DEF Created
<1>10. ASSUME NEW j \in Sessions \ {k}
       PROVE  GuardedAt(j)'
  <2>1. \A q \in {r} : /\ q \in Used(pending) => call[q].session # j
                       /\ q \in Running' => call'[q].session # j
    BY <1>3
  <2>2. GuardedAt(j) /\ j \notin K
    BY <1>1 DEF Guarded
  <2> QED
    BY <1>1, <2>1, <2>2, GuardedElsewhere
<1>11. \A q \in Running \ {r} : UnfinishedAt(q)'
  BY <1>1, <1>5, UnfinishedElsewhere DEF Unfinished
<1>12. Guarded' /\ Unfinished'
  BY <1>3, <1>10, <1>11 DEF Guarded, Unfinished
<1> QED
  BY <1>6, <1>7, <1>8, <1>9, <1>12 DEF HostInv

\* After a success the client holds what the store was told to bar, what was fit for the
\* route all along, and what the turn created on it.
LEMMA SuccessGuards ==
  ASSUME StoreInv, HostInv, NEW r \in Running, NEW k \in Sessions, k = call[r].session,
         call[r].answered, CompleteSucceeded(r), UNCHANGED <<owner, held, last>>,
         call' = [call EXCEPT ![r] = Absent]
  PROVE  /\ Calm({r}, {k}) /\ Fades({r}) /\ r \notin Used(pending')
         /\ GuardedAt(k)'
<1>1. HostTypes /\ OneTurn /\ Tracked /\ Created /\ Guarded /\ Unfinished /\ TypeOK
  BY DEF HostInv, StoreInv
<1>2. r \in Requests /\ r \in Used(pending)
  BY DEF CompleteSucceeded, Used, Running
<1>3. PICK p : p = pending[r]
  OBVIOUS
<1>4. PICK c : c = call[r]
  OBVIOUS
<1>5. p.session = k /\ p.route = c.route /\ c.known /\ c.session = k /\ c.answered
  BY <1>1, <1>2, <1>3, <1>4 DEF Tracked
<1>6. c.items \subseteq Items /\ c.made \subseteq Items
  BY <1>1, <1>4, CallTyped
<1>7. UnfinishedAt(r) /\ History(r) /\ GuardedAt(k)
  BY <1>1 DEF Unfinished, Created, Guarded
<1>8. /\ Calm({r}, {k}) /\ pending' = PendingWithout(r) /\ sweep = {}
      /\ Binds(sessions'[k]) /\ p.route = NoRoute =>
           /\ Trusts(k) /\ sessions'[k].route = sessions[k].route
           /\ Barrier(sessions[k]) \subseteq Barrier(sessions'[k])
      /\ Binds(sessions'[k]) /\ p.route # NoRoute =>
           /\ sessions'[k].route = p.route /\ p.retired \subseteq Barrier(sessions'[k])
           /\ p.overflow => Barrier(sessions'[k]) = Items
           /\ Trusts(k) /\ sessions[k].route = p.route
              => Barrier(sessions[k]) \subseteq Barrier(sessions'[k])
  <2>1. sessions[k] # Absent => sessions[k].seq < p.seq
    BY <1>2, <1>3, <1>7 DEF UnfinishedAt, Newest
  <2>2. Single
    BY <1>1, SingleTurn
  <2> QED
    BY <1>2, <1>3, <1>5, <2>1, <2>2, SuccessCalm
<1>9. r \notin Used(pending')
  BY <1>1, <1>2, <1>8, TypeOKParts DEF PendingWithout, PendingMap, Used
<1>10. call'[r] = Absent /\ \A q \in Requests \ {r} : call'[q] = call[q]
  BY <1>1, <1>2 DEF HostTypes
<1>11. Fades({r})
  BY <1>10 DEF Fades
<1>12. ASSUME Binds(sessions'[k])
       PROVE  HeldFit(k)' /\ LastFit(k)' /\ SentFit(k)'
  <2>1. c.route # NoRoute => sessions'[k].route = c.route
    BY <1>5, <1>8, <1>12
  <2>2. /\ last[k] \in {Absent, NoRoute, c.route}
        /\ \A i \in c.made : owner[i] \in {c.route, NoRoute}
        /\ \A i \in held[k] : i \in c.items \cup c.made \/ owner[i] = NoRoute
    BY <1>4, <1>5, <1>7 DEF History
  <2>3. LastFit(k)'
    BY <2>1, <2>2 DEF LastFit, Named
  <2>4. \A i \in Items : owner[i] \in {c.route, NoRoute} => Fit(i, sessions[k])'
    BY <2>1, Nobody DEF Fit
  <2>5. ASSUME NEW i \in c.items, Steady(k), Trusts(k)
        PROVE  Fit(i, sessions[k])'
    <3>1. Fit(i, sessions[k])
      BY <1>4, <1>5, <1>7, <2>5 DEF GuardedAt, SentFit
    <3> QED
      BY <1>6, <1>11, <1>12, <2>5, <3>1, StaysFit
  <2>6. ASSUME NEW i \in c.items
        PROVE  Fit(i, sessions[k])'
    <3>1. CASE c.route = NoRoute
      BY <1>5, <1>8, <1>12, <2>5, <3>1 DEF Steady
    <3>2. CASE c.route # NoRoute
      <4>1. \/ c.items \subseteq p.retired
            \/ p.overflow
            \/ Trusts(k) /\ sessions[k].route = c.route
        BY <1>2, <1>3, <1>4, <1>5, <1>7, <1>8 DEF UnfinishedAt, Bars
      <4>2. CASE i \in Barrier(sessions'[k])
        BY <4>2 DEF Fit
      <4>3. CASE Trusts(k) /\ sessions[k].route = c.route
        BY <1>5, <1>8, <1>12, <2>5, <3>2, <4>3 DEF Steady
      <4> QED
        BY <1>5, <1>6, <1>8, <1>12, <3>2, <4>1, <4>2, <4>3
    <3> QED
      BY <3>1, <3>2
  <2>7. HeldFit(k)'
    <3>1. held[k] \subseteq Items
      BY <1>1 DEF HostTypes
    <3>2. \A i \in held[k] : Fit(i, sessions[k])'
      BY <2>2, <2>4, <2>6, <3>1
    <3> QED
      BY <3>2 DEF HeldFit
  <2>8. SentFit(k)'
    BY <1>1, <1>4, <1>5, <1>10 DEF SentFit, OneTurn, Running
  <2> QED
    BY <2>3, <2>7, <2>8
<1> QED
  BY <1>8, <1>9, <1>11, <1>12 DEF GuardedAt, Trusts

\* After a failure what the turn created is disowned.
LEMMA FailureGuards ==
  ASSUME HostInv, NEW r \in Running, NEW k \in Sessions, k = call[r].session,
         Calm({r}, {}), Fades({r}), Disown({r}),
         r \in Used(pending), call' = [call EXCEPT ![r] = Absent]
  PROVE  GuardedAt(k)'
<1>1. HostTypes /\ OneTurn /\ Tracked /\ Created /\ Guarded
  BY DEF HostInv
<1>2. SUFFICES ASSUME Binds(sessions'[k])
               PROVE  HeldFit(k)' /\ LastFit(k)' /\ SentFit(k)'
  BY DEF GuardedAt, Trusts
<1>3. Steady(k) /\ Trusts(k) /\ sessions'[k].route = sessions[k].route
  BY <1>2 DEF Calm, Steady
<1>4. HeldFit(k) /\ LastFit(k)
  BY <1>1, <1>3 DEF Guarded, GuardedAt
<1>5. \A q \in Used(pending) : call[q].session = k => q = r
  BY <1>1 DEF Tracked, OneTurn
<1>6. HeldFit(k)'
  <2> SUFFICES ASSUME NEW i \in held'[k]
               PROVE  Fit(i, sessions[k])'
    BY DEF HeldFit
  <2>1. i \in held[k] /\ i \in Items
    BY <1>1 DEF Fades, HostTypes
  <2>2. CASE Fit(i, sessions[k])
    BY <1>2, <1>3, <2>1, <2>2, StaysFit
  <2>3. CASE Making(k, i)
    <3>1. i \in call[r].made
      BY <1>5, <2>3 DEF Making
    <3>2. owner'[i] = NoRoute
      BY <2>1, <3>1 DEF Disown, Made
    <3> QED
      BY <3>2, Nobody DEF Fit
  <2> QED
    BY <1>4, <2>1, <2>2, <2>3 DEF HeldFit
<1>7. LastFit(k)'
  <2>1. CASE Named(last[k], sessions[k])
    BY <1>3, <2>1 DEF LastFit, Named, Fades
  <2>2. CASE Answering(k)
    <3>1. call[r].answered /\ call[r].known
      BY <1>1, <1>5, <2>2 DEF Answering, Tracked
    <3>2. last[k] \in {Absent, NoRoute, call[r].route}
      BY <1>1, <3>1 DEF Created, History
    <3>3. last'[k] = IF call[r].route = last[k] THEN NoRoute ELSE last[k]
      BY <3>1 DEF Disown, LastWithout
    <3> QED
      BY <3>2, <3>3 DEF LastFit, Named
  <2> QED
    BY <1>4, <2>1, <2>2 DEF LastFit
<1>8. SentFit(k)'
  BY <1>1 DEF SentFit, OneTurn, Running, HostTypes
<1> QED
  BY <1>6, <1>7, <1>8

\* The end of a request takes nothing from anybody else.
LEMMA FinishFades ==
  ASSUME HostTypes, Created, NEW r \in Requests, Finish(r)
  PROVE  /\ r \in Running /\ Fades({r}) /\ UNCHANGED <<held, cover>>
         /\ call'[r] = Absent /\ \A q \in Requests \ {r} : call'[q] = call[q]
<1>1. r \in Running /\ call' = [call EXCEPT ![r] = Absent] /\ UNCHANGED <<held, cover>>
  BY DEF Finish, Running
<1>2. call'[r] = Absent /\ \A q \in Requests \ {r} : call'[q] = call[q]
  BY <1>1 DEF HostTypes
<1>3. CASE UNCHANGED <<owner, last>>
  BY <1>1, <1>2, <1>3 DEF Fades
<1>4. CASE Disown({r})
  BY <1>1, <1>2, <1>4, DisownFades
<1> QED
  BY <1>1, <1>2, <1>3, <1>4 DEF Finish

\* So does the end of a request, however it ends (HandleRequestComplete).
LEMMA FinishKeeps ==
  ASSUME StoreInv, HostInv, NEW r \in Requests, Finish(r)
  PROVE  HostInv'
<1>1. HostTypes /\ OneTurn /\ Tracked /\ Created /\ Guarded /\ TypeOK /\ IndexExact
  BY DEF HostInv, StoreInv
<1>2. r \in Running /\ call' = [call EXCEPT ![r] = Absent] /\ UNCHANGED held
  BY DEF Finish, Running
<1>3. PICK k \in Sessions : k = call[r].session
  BY <1>1, <1>2, CallTyped
<1>4. call'[r] = Absent /\ \A q \in Requests \ {r} : call'[q] = call[q]
  BY <1>1, <1>2 DEF HostTypes
<1>5. CASE call[r].answered /\ CompleteSucceeded(r) /\ UNCHANGED <<owner, last>>
  <2>1. /\ Calm({r}, {k}) /\ Fades({r}) /\ r \notin Used(pending') /\ GuardedAt(k)'
    BY <1>2, <1>3, <1>5, SuccessGuards
  <2>2. /\ owner' \in [Items -> Routes \cup {NoRoute, Absent}]
        /\ last' \in [Sessions -> Routes \cup {NoRoute, Absent}]
    BY <1>1, <1>5 DEF HostTypes
  <2> QED
    BY <1>2, <1>3, <2>1, <2>2, EndKeeps
<1>6. CASE pending[r] = Absent /\ UNCHANGED stateVars /\ UNCHANGED <<owner, last>>
  <2>1. Calm({r}, {})
    BY <1>6, StillCalm DEF stateVars, vars
  <2>2. Fades({r})
    BY <1>2, <1>4, <1>6 DEF Fades
  <2>3. r \notin Used(pending) /\ r \notin Used(pending') /\ r \notin Running'
    BY <1>4, <1>6 DEF Used, Running, stateVars, vars
  <2>4. GuardedAt(k)'
    BY <1>1, <2>1, <2>2, <2>3, GuardedElsewhere DEF Guarded
  <2>5. /\ owner' \in [Items -> Routes \cup {NoRoute, Absent}]
        /\ last' \in [Sessions -> Routes \cup {NoRoute, Absent}]
    BY <1>1, <1>6 DEF HostTypes
  <2> QED
    BY <1>2, <1>3, <2>1, <2>2, <2>3, <2>4, <2>5, EndKeeps
<1>7. CASE (CompleteFailed(r) \/ CompleteInvalid(r)) /\ Disown({r})
  <2>1. Single
    BY <1>1, SingleTurn
  <2>2. Calm({r}, {}) /\ r \in Used(pending) /\ pending' = PendingWithout(r)
    BY <1>1, <1>7, <2>1, FailCalm
  <2>3. r \notin Used(pending')
    BY <1>1, <2>2, TypeOKParts DEF PendingWithout, PendingMap, Used
  <2>4. /\ Fades({r})
        /\ owner' \in [Items -> Routes \cup {NoRoute, Absent}]
        /\ last' \in [Sessions -> Routes \cup {NoRoute, Absent}]
    BY <1>1, <1>2, <1>4, <1>7, DisownFades
  <2>5. GuardedAt(k)'
    BY <1>2, <1>3, <1>7, <2>2, <2>4, FailureGuards
  <2> QED
    BY <1>2, <1>3, <2>2, <2>3, <2>4, <2>5, EndKeeps
<1> QED
  BY <1>5, <1>6, <1>7 DEF Finish

-----------------------------------------------------------------------------
(* Upstream answers.                                                       *)

\* The creator of what a call creates, as its client sees it.
Creator(c) == IF c.known THEN c.route ELSE NoRoute

\* The answer of a call c creates the items of M, one or none, and its client can name it, as
\* by is the creator, or cannot, as by is Absent.
Answers(r, c, M, by) ==
  /\ ~c.answered
  /\ \A i \in M : owner[i] = Absent
  /\ owner' = [i \in Items |-> IF i \in M THEN Creator(c) ELSE owner[i]]
  /\ held' = [k \in Sessions |-> IF k = c.session THEN held[k] \cup M ELSE held[k]]
  /\ last' = [k \in Sessions |-> IF k = c.session THEN by ELSE last[k]]
  /\ call'[r] = [c EXCEPT !.answered = TRUE, !.made = M]
  /\ call' \in [Requests -> CallRec \cup {Absent}]
  /\ \A q \in Requests \ {r} : call'[q] = call[q]

\* A call after its answer.
LEMMA AnsweredCall ==
  ASSUME NEW c \in CallRec, NEW M \in SUBSET Items
  PROVE  LET d == [c EXCEPT !.answered = TRUE, !.made = M]
         IN  /\ d \in CallRec /\ d.answered /\ d.made = M
             /\ d.session = c.session /\ d.route = c.route /\ d.known = c.known
             /\ d.items = c.items /\ d.prev = c.prev
BY DEF CallRec

\* The two forms of an answer in one.
LEMMA AnswerForm ==
  ASSUME HostTypes, Created, NEW r \in Requests, Answer(r)
  PROVE  /\ UNCHANGED stateVars /\ UNCHANGED cover /\ r \in Running
         /\ \E M \in SUBSET Items, by \in {Creator(call[r]), Absent} :
              Answers(r, call[r], M, by)
<1>1. UNCHANGED stateVars /\ UNCHANGED cover /\ r \in Running /\ ~call[r].answered
  BY DEF Answer, Running
<1>2. PICK c \in CallRec : c = call[r]
  BY <1>1, CallTyped
<1>3. c.session \in Sessions /\ c.made = {}
  BY <1>1, <1>2, CallTyped DEF Created, History
<1>4. PICK by \in {Creator(c), Absent} : last' = [last EXCEPT ![c.session] = by]
  BY <1>2 DEF Answer, Creator
<1>5. last' = [k \in Sessions |-> IF k = c.session THEN by ELSE last[k]]
  BY <1>4 DEF HostTypes
<1>6. ASSUME call' = [call EXCEPT ![r].answered = TRUE], UNCHANGED <<owner, held>>
      PROVE  \E M \in SUBSET Items : Answers(r, call[r], M, by)
  <2>1. call' = [call EXCEPT ![r] = [c EXCEPT !.answered = TRUE]]
    BY <1>2, <1>6
  <2>2. [c EXCEPT !.answered = TRUE] = [c EXCEPT !.answered = TRUE, !.made = {}]
    BY <1>3 DEF CallRec
  <2>3. /\ call'[r] = [c EXCEPT !.answered = TRUE, !.made = {}]
        /\ \A q \in Requests \ {r} : call'[q] = call[q]
    BY <2>1, <2>2 DEF HostTypes
  <2>4. [c EXCEPT !.answered = TRUE, !.made = {}] \in CallRec
    BY AnsweredCall
  <2> DEFINE d == [c EXCEPT !.answered = TRUE, !.made = {}]
  <2> HIDE DEF d
  <2>5. call' = [call EXCEPT ![r] = d] /\ d \in CallRec
    BY <2>1, <2>2, <2>4 DEF d
  <2>6. call' \in [Requests -> CallRec \cup {Absent}]
    BY <2>5 DEF HostTypes
  <2>7. /\ owner' = [i \in Items |-> IF i \in {} THEN Creator(c) ELSE owner[i]]
        /\ held' = [k \in Sessions |-> IF k = c.session THEN held[k] \cup {} ELSE held[k]]
    BY <1>6 DEF HostTypes
  <2>8. Answers(r, c, {}, by)
    BY <1>1, <1>2, <1>5, <2>3, <2>6, <2>7 DEF Answers
  <2> QED
    BY <1>2, <2>8
<1>7. ASSUME NEW i \in Items, owner[i] = Absent, owner' = [owner EXCEPT ![i] = Creator(c)],
             held' = [held EXCEPT ![c.session] = @ \cup {i}],
             call' = [call EXCEPT ![r].answered = TRUE, ![r].made = {i}]
      PROVE  \E M \in SUBSET Items : Answers(r, call[r], M, by)
  <2> DEFINE d == [c EXCEPT !.answered = TRUE, !.made = {i}]
  <2>1. call' = [call EXCEPT ![r] = d]
    BY <1>2, <1>7 DEF HostTypes
  <2>2. d \in CallRec
    BY AnsweredCall
  <2>3. d = [c EXCEPT !.answered = TRUE, !.made = {i}]
    OBVIOUS
  <2> HIDE DEF d
  <2>4. /\ call'[r] = d /\ \A q \in Requests \ {r} : call'[q] = call[q]
        /\ call' \in [Requests -> CallRec \cup {Absent}]
    BY <2>1, <2>2 DEF HostTypes
  <2>5. /\ owner' = [x \in Items |-> IF x \in {i} THEN Creator(c) ELSE owner[x]]
        /\ held' = [k \in Sessions |-> IF k = c.session THEN held[k] \cup {i} ELSE held[k]]
    BY <1>7 DEF HostTypes
  <2>6. Answers(r, c, {i}, by)
    BY <1>1, <1>2, <1>5, <1>7, <2>3, <2>4, <2>5 DEF Answers
  <2> QED
    BY <1>2, <2>6
<1>8. \/ call' = [call EXCEPT ![r].answered = TRUE] /\ UNCHANGED <<owner, held>>
      \/ \E i \in Items : /\ owner[i] = Absent /\ owner' = [owner EXCEPT ![i] = Creator(c)]
                          /\ held' = [held EXCEPT ![c.session] = @ \cup {i}]
                          /\ call' = [call EXCEPT ![r].answered = TRUE, ![r].made = {i}]
  BY <1>2 DEF Answer, Creator
<1>9. \E M \in SUBSET Items : Answers(r, call[r], M, by)
  BY <1>6, <1>7, <1>8
<1> QED
  BY <1>1, <1>2, <1>4, <1>9

\* An answer keeps the invariant: what it creates is not yet fit for the route that the
\* store trusts, but the store tracks the request, or does not trust the conversation.
LEMMA AnswerKeeps ==
  ASSUME HostInv, NEW r \in Requests, Answer(r)
  PROVE  HostInv'
<1>1. HostTypes /\ OneTurn /\ Tracked /\ Created /\ Guarded /\ Unfinished
  BY DEF HostInv
<1>2. UNCHANGED vars /\ r \in Running
  BY <1>1, AnswerForm DEF stateVars
<1>3. PICK M \in SUBSET Items, name \in {Creator(call[r]), Absent} :
        Answers(r, call[r], M, name)
  BY <1>1, AnswerForm
<1>4. PICK c \in CallRec : c = call[r]
  BY <1>1, <1>2, CallTyped
<1>5. PICK k \in Sessions : k = c.session
  BY <1>1, <1>2, <1>4, CallTyped
<1>6. PICK by : by = Creator(c)
  OBVIOUS
<1>7. by \in {c.route, NoRoute} /\ by \in Routes \cup {NoRoute} /\ by # Absent
  BY <1>6, Nobody DEF Creator, CallRec
<1>8. PICK d \in CallRec : d = [c EXCEPT !.answered = TRUE, !.made = M]
  BY AnsweredCall
<1>9. /\ d.answered /\ d.made = M /\ d.session = c.session /\ d.route = c.route
      /\ d.known = c.known /\ d.items = c.items /\ d.prev = c.prev
  BY <1>8, AnsweredCall
<1>10. /\ ~c.answered /\ \A i \in M : owner[i] = Absent
       /\ call'[r] = d /\ call' \in [Requests -> CallRec \cup {Absent}]
       /\ \A q \in Requests \ {r} : call'[q] = call[q]
       /\ \A i \in Items : owner'[i] = IF i \in M THEN by ELSE owner[i]
       /\ \A j \in Sessions : held'[j] = IF j = k THEN held[j] \cup M ELSE held[j]
       /\ \A j \in Sessions : last'[j] = IF j = k THEN name ELSE last[j]
       /\ name \in {by, Absent}
  BY <1>3, <1>4, <1>5, <1>6, <1>8 DEF Answers
<1>11. Running' = Running
  BY <1>2, <1>10, AbsentCallAssumption DEF Running
<1>12. \A q \in Running : /\ call'[q].session = call[q].session /\ call'[q].route = call[q].route
                          /\ call'[q].known = call[q].known /\ call'[q].items = call[q].items
                          /\ call'[q].prev = call[q].prev
  BY <1>4, <1>9, <1>10 DEF Running
<1>13. History(r) /\ c.made = {}
  BY <1>1, <1>2, <1>4, <1>10 DEF Created, History
<1>14. \A q \in Running \ {r} : call[q].session # k /\ call'[q] = call[q] /\ q \in Requests
  BY <1>1, <1>2, <1>4, <1>5, <1>10 DEF OneTurn, Running
<1>15. \A i \in Items : owner[i] # Absent => owner'[i] = owner[i]
  BY <1>10
<1>16. /\ \A j \in Sessions : held[j] \subseteq Items
       /\ \A j \in Sessions : \A i \in held[j] : owner[i] # Absent
  BY <1>1 DEF HostTypes, Created
<1>17. HostTypes'
  <2>1. /\ owner' \in [Items -> Routes \cup {NoRoute, Absent}]
        /\ held' \in [Sessions -> SUBSET Items]
        /\ last' \in [Sessions -> Routes \cup {NoRoute, Absent}]
    <3>1. /\ Creator(call[r]) \in Routes \cup {NoRoute}
          /\ name \in Routes \cup {NoRoute, Absent}
      BY <1>4, <1>6, <1>7, <1>10
    <3> QED
      BY <1>1, <1>3, <3>1 DEF Answers, HostTypes
  <2> QED
    BY <1>10, <2>1 DEF HostTypes
<1>18. OneTurn' /\ Tracked'
  BY <1>1, <1>2, <1>11, <1>12 DEF OneTurn, Tracked, vars
<1>19. Created'
  <2>1. \A j \in Sessions : \A i \in held'[j] : owner'[i] # Absent
    BY <1>7, <1>10, <1>16
  <2>2. ASSUME NEW q \in Running \ {r}
        PROVE  History(q)'
    <3>1. PICK e \in CallRec : e = call[q] /\ e = call'[q]
      BY <1>1, <1>14, CallTyped
    <3>2. /\ e.session \in Sessions \ {k} /\ e.items \subseteq Items /\ e.made \subseteq Items
          /\ e.route # Absent
      BY <1>14, <3>1, Nobody DEF CallRec
    <3>3. History(q)
      BY <1>1 DEF Created
    <3>4. /\ \A i \in e.items : owner[i] # Absent
          /\ \A i \in e.made : owner[i] \in {e.route, NoRoute}
          /\ ~e.answered => e.made = {}
          /\ e.answered /\ e.known => last[e.session] \in {Absent, NoRoute, e.route}
          /\ \A i \in held[e.session] : i \in e.items \cup e.made \/ owner[i] = NoRoute
      BY <3>1, <3>3 DEF History
    <3>5. held'[e.session] = held[e.session] /\ last'[e.session] = last[e.session]
      BY <1>10, <3>2
    <3>6. /\ \A i \in e.items : owner'[i] # Absent
          /\ \A i \in e.made : owner'[i] \in {e.route, NoRoute}
          /\ \A i \in held'[e.session] : i \in e.items \cup e.made \/ owner'[i] = NoRoute
      BY <1>15, <1>16, <3>2, <3>4, <3>5, Nobody
    <3> QED
      BY <3>1, <3>4, <3>5, <3>6 DEF History
  <2>3. History(r)'
    <3>1. /\ \A i \in c.items : owner[i] # Absent
          /\ \A i \in held[k] : i \in c.items \/ owner[i] = NoRoute
      BY <1>4, <1>5, <1>13 DEF History
    <3>2. c.items \subseteq Items /\ held[k] \subseteq Items
      BY <1>16 DEF CallRec
    <3>3. /\ \A i \in d.items : owner'[i] # Absent
          /\ \A i \in held'[k] : i \in d.items \cup d.made \/ owner'[i] = NoRoute
      BY <1>9, <1>10, <1>15, <1>16, <3>1, <3>2, ZenonT(30)
    <3>4. \A i \in d.made : owner'[i] \in {d.route, NoRoute}
      BY <1>7, <1>9, <1>10
    <3>5. last'[k] \in {Absent, NoRoute, d.route} /\ d.session = k
      BY <1>5, <1>7, <1>9, <1>10
    <3> QED
      BY <1>9, <1>10, <3>3, <3>4, <3>5 DEF History
  <2> QED
    BY <1>2, <1>11, <2>1, <2>2, <2>3 DEF Created
<1>20. ASSUME NEW j \in Sessions, Trusts(j)
       PROVE  HeldFit(j)' /\ LastFit(j)' /\ SentFit(j)'
  <2>1. HeldFit(j) /\ LastFit(j) /\ SentFit(j)
    BY <1>1, <1>20 DEF Guarded, GuardedAt
  <2>2. sessions' = sessions /\ pending' = pending
    BY <1>2 DEF vars
  <2>3. ASSUME NEW i \in Items, owner[i] # Absent, Fit(i, sessions[j])
        PROVE  Fit(i, sessions[j])'
    BY <1>15, <2>2, <2>3 DEF Fit
  <2>4. SentFit(j)'
    <3> SUFFICES ASSUME NEW q \in Running, call[q].session = j
                 PROVE  /\ Named(call[q].prev, sessions[j])
                        /\ \A i \in call[q].items : Fit(i, sessions[j])'
      BY <1>11, <1>12, <2>2 DEF SentFit, Named
    <3>1. Named(call[q].prev, sessions[j]) /\ \A i \in call[q].items : Fit(i, sessions[j])
      BY <2>1 DEF SentFit
    <3>2. \A i \in call[q].items : i \in Items /\ owner[i] # Absent
      BY <1>1, CallTyped DEF Created, History
    <3> QED
      BY <2>3, <3>1, <3>2
  <2>5. ASSUME NEW i \in held[j]
        PROVE  Fit(i, sessions[j])' \/ Making(j, i)'
    <3>1. i \in Items /\ owner[i] # Absent
      BY <1>16
    <3>2. CASE Fit(i, sessions[j])
      BY <2>3, <3>1, <3>2
    <3>3. CASE Making(j, i)
      <4>1. PICK q \in Used(pending) : call[q].session = j /\ i \in call[q].made
        BY <3>3 DEF Making
      <4>2. q \in Running \ {r}
        BY <1>1, <1>4, <1>13, <4>1 DEF Tracked
      <4> QED
        BY <1>14, <2>2, <4>1, <4>2 DEF Making
    <3> QED
      BY <2>1, <3>2, <3>3 DEF HeldFit
  <2>6. CASE j # k
    <3>1. HeldFit(j)'
      BY <1>10, <2>5, <2>6 DEF HeldFit
    <3>2. LastFit(j)'
      <4>1. last'[j] = last[j]
        BY <1>10, <2>6
      <4>2. Answering(j) => Answering(j)'
        <5> SUFFICES ASSUME NEW q \in Used(pending), call[q].session = j, call[q].answered
                     PROVE  Answering(j)'
          BY DEF Answering
        <5>1. call'[q] = call[q]
          BY <1>4, <1>10 DEF Used
        <5> QED
          BY <2>2, <5>1 DEF Answering
      <4> QED
        BY <2>1, <2>2, <4>1, <4>2 DEF LastFit, Named
    <3> QED
      BY <2>4, <3>1, <3>2
  <2>7. CASE j = k
    <3>1. CASE r \in Used(pending)
      <4>1. \A i \in M : Making(j, i)'
        BY <1>5, <1>9, <1>10, <2>2, <2>7, <3>1 DEF Making
      <4>2. Answering(j)'
        BY <1>5, <1>9, <1>10, <2>2, <2>7, <3>1 DEF Answering
      <4> QED
        BY <1>10, <2>4, <2>5, <2>7, <4>1, <4>2 DEF HeldFit, LastFit
    <3>2. CASE r \notin Used(pending)
      <4>1. LostOne(r) /\ pending[r] = Absent
        BY <1>1, <1>2, <3>2 DEF Unfinished, UnfinishedAt, Used
      <4>2. by = NoRoute
        BY <1>4, <1>5, <1>6, <1>20, <2>7, <4>1 DEF LostOne, Creator
      <4>3. \A i \in M : Fit(i, sessions[j])'
        BY <1>10, <4>2, Nobody DEF Fit
      <4>4. LastFit(j)'
        BY <1>10, <2>7, <4>2 DEF LastFit, Named
      <4> QED
        BY <1>10, <2>4, <2>5, <2>7, <4>3, <4>4 DEF HeldFit
    <3> QED
      BY <3>1, <3>2
  <2> QED
    BY <2>6, <2>7
<1>21. Guarded'
  BY <1>2, <1>20 DEF Guarded, GuardedAt, Trusts, vars
<1>22. Unfinished'
  <2>1. \A q \in Running : UnfinishedAt(q)
    BY <1>1 DEF Unfinished
  <2>2. UNCHANGED <<sessions, pending, sweep>>
    BY <1>2 DEF vars
  <2> QED
    BY <1>11, <1>12, <2>1, <2>2
       DEF Unfinished, UnfinishedAt, LostOne, Bars, Newest, Trusts
<1> QED
  BY <1>17, <1>18, <1>19, <1>21, <1>22 DEF HostInv

-----------------------------------------------------------------------------
(* The store on its own, clients that forget, and a new store.             *)

\* A purge, the passing of time, and a client that forgets leave the invariant as it was.
LEMMA CalmKeeps ==
  ASSUME HostInv, Calm({}, {}), Fades({}), HostTypes'
  PROVE  HostInv'
<1>1. HostTypes /\ OneTurn /\ Tracked /\ Created /\ Guarded /\ Unfinished
  BY DEF HostInv
<1>2. \A q \in Requests : call'[q] = call[q]
  BY DEF Fades
<1>3. Running' = Running /\ Running \subseteq Requests
  BY <1>2 DEF Running
<1>4. \A q \in Used(pending') : q \in Used(pending) /\ pending'[q] = pending[q]
  BY DEF Calm, Spared
<1>5. OneTurn'
  BY <1>1, <1>2, <1>3 DEF OneTurn
<1>6. Tracked'
  BY <1>1, <1>2, <1>3, <1>4 DEF Tracked
<1>7. Created'
  <2>1. \A j \in Sessions : \A i \in held'[j] : owner'[i] # Absent
    BY <1>1, Nobody DEF Created, Fades, HostTypes
  <2>2. \A q \in Running : History(q)'
    BY <1>1, HistoryElsewhere DEF Created
  <2> QED
    BY <1>3, <2>1, <2>2 DEF Created
<1>8. \A j \in Sessions : GuardedAt(j)'
  BY <1>1, GuardedElsewhere DEF Guarded
<1>9. \A q \in Running : UnfinishedAt(q)'
  BY <1>1, UnfinishedElsewhere DEF Unfinished
<1>10. Guarded' /\ Unfinished'
  BY <1>3, <1>8, <1>9 DEF Guarded, Unfinished
<1> QED
  BY <1>5, <1>6, <1>7, <1>10 DEF HostInv

\* So does all that the store does on its own, and the passing of time.
LEMMA QuietKeeps ==
  ASSUME StoreInv, HostInv, UNCHANGED <<owner, held, last, call>>,
         Sweep \/ (\E r \in Requests : ExpirePending(r)) \/ UNCHANGED <<sessions, pending, sweep>>
  PROVE  HostInv'
<1>1. HostTypes /\ OneTurn /\ Tracked /\ TypeOK /\ IndexExact
  BY DEF HostInv, StoreInv
<1>2. Single
  BY <1>1, SingleTurn
<1>3. Calm({}, {})
  BY <1>1, <1>2, SweepCalm, ExpireCalm, StillCalm
<1>4. Fades({}) /\ HostTypes'
  BY <1>1 DEF Fades, HostTypes
<1> QED
  BY <1>3, <1>4, CalmKeeps

\* A client that forgets takes nothing from anybody else.
LEMMA ForgetFades ==
  ASSUME HostTypes, NEW k \in Sessions, Forget(k)
  PROVE  Fades({}) /\ HostTypes' /\ UNCHANGED <<stateVars, call, cover>>
<1>1. UNCHANGED <<stateVars, owner, call, cover>>
  BY DEF Forget
<1>2. \/ UNCHANGED last /\ \E i \in held[k] : held' = [held EXCEPT ![k] = @ \ {i}]
      \/ UNCHANGED held /\ last' = [last EXCEPT ![k] = Absent]
  BY DEF Forget
<1>3. HostTypes'
  BY <1>1, <1>2 DEF HostTypes
<1>4. \A j \in Sessions : last'[j] \in {last[j], NoRoute, Absent} /\ held'[j] \subseteq held[j]
  BY <1>2 DEF HostTypes
<1>5. Fades({})
  BY <1>1, <1>4 DEF Fades
<1> QED
  BY <1>1, <1>3, <1>5

\* So does a client that drops what it held.
LEMMA ForgetKeeps ==
  ASSUME HostInv, NEW k \in Sessions, Forget(k)
  PROVE  HostInv'
<1>1. Fades({}) /\ HostTypes' /\ UNCHANGED stateVars
  BY ForgetFades DEF HostInv
<1>2. Calm({}, {})
  BY <1>1, StillCalm DEF stateVars, vars
<1> QED
  BY <1>1, <1>2, CalmKeeps

-----------------------------------------------------------------------------
(* What a save covers.                                                     *)

\* A save stays good as long as clients send nothing that they did not hold, and nothing
\* that the save covers is made again.
LEMMA CoverKeeps ==
  ASSUME HostTypes, NEW v, CoverOK(v),
         \A i \in v.items : owner'[i] \in {owner[i], NoRoute},
         \A k \in Sessions : \A i \in held'[k] : i \in held[k] \/ i \notin v.items,
         \A r \in Running' :
           /\ \A i \in call'[r].made : i \notin v.items
           /\ \/ call'[r].items = held[call'[r].session]
              \/ /\ r \in Running /\ call'[r].session = call[r].session
                 /\ call'[r].items = call[r].items
  PROVE  CoverOK(v)'
<1>1. \A i \in v.items : i \in Items /\ owner[i] # Absent /\ owner'[i] # Absent
  BY Nobody DEF CoverOK
<1>2. ASSUME NEW s, NEW i \in v.items, Fit(i, s)
      PROVE  owner'[i] \in Routes \ {s.route} => i \in Barrier(s)
  BY <1>2, Nobody DEF Fit
<1>3. ASSUME NEW k \in Sessions, Binds(v.of.sessions[k])
      PROVE  CoverFit(v, k)'
  <2>1. CoverFit(v, k)
    BY <1>3 DEF CoverOK
  <2>2. Named(v.last[k], v.of.sessions[k])
    BY <2>1 DEF CoverFit
  <2>3. \A i \in held[k] : i \in v.items => Fit(i, v.of.sessions[k])
    BY <2>1 DEF CoverFit
  <2>4. ASSUME NEW i \in held'[k], i \in v.items
        PROVE  Fit(i, v.of.sessions[k])'
    BY <1>2, <2>3, <2>4 DEF Fit
  <2>5. ASSUME NEW r \in Running', call'[r].session = k, NEW i \in call'[r].items, i \in v.items
        PROVE  Fit(i, v.of.sessions[k])'
    <3>1. Fit(i, v.of.sessions[k])
      BY <2>1, <2>3, <2>5 DEF CoverFit
    <3> QED
      BY <1>2, <2>5, <3>1 DEF Fit
  <2> QED
    BY <2>2, <2>4, <2>5 DEF CoverFit, Named
<1>4. v.items \subseteq Items
  BY DEF CoverOK
<1> QED
  BY <1>1, <1>3, <1>4 DEF CoverOK, Binds

\* So it does when requests end, clients forget, and nothing else happens to either.
LEMMA FadesCovers ==
  ASSUME HostTypes, NEW R, Fades(R), \A r \in R : call'[r] = Absent, NEW v, CoverOK(v)
  PROVE  CoverOK(v)'
<1>1. v.items \subseteq Items
  BY DEF CoverOK
<1>2. \A i \in v.items : owner'[i] \in {owner[i], NoRoute}
  BY <1>1 DEF Fades
<1>3. \A k \in Sessions : \A i \in held'[k] : i \in held[k]
  BY DEF Fades
<1>4. \A r \in Running' : r \in Running /\ call'[r] = call[r]
  BY DEF Fades, Running
<1>5. \A r \in Running' : /\ \A i \in call'[r].made : i \notin v.items
                          /\ r \in Running /\ call'[r].session = call[r].session
                          /\ call'[r].items = call[r].items
  BY <1>4 DEF CoverOK
<1> QED
  BY <1>2, <1>3, <1>5, CoverKeeps

\* A candidate sends what its client held, at once or when its turn began.
LEMMA InterceptCovers ==
  ASSUME StoreInv, HostInv, CompactionPolicy = "strip", NEW r \in Requests,
         NEW k \in Sessions, NEW route \in Routes \cup {NoRoute}, NEW items \in SUBSET Items,
         NEW prev \in Routes \cup {NoRoute, Absent}, Intercept(r, k, route, items, prev),
         Offers(r, k, items, prev), NEW v, CoverOK(v)
  PROVE  CoverOK(v)' /\ UNCHANGED cover
<1>1. TypeOK /\ HostTypes
  BY DEF StoreInv, HostInv
<1>2. PICK c \in CallRec :
        call' = [call EXCEPT ![r] = c] /\ Launched(c, k, route, items, prev)
  BY <1>1, InterceptForm
<1>3. UNCHANGED <<owner, held, cover>>
  BY <1>1, InterceptForm
<1>4. call'[r] = c /\ c.session = k /\ c.items = items /\ c.made = {}
  BY <1>1, <1>2 DEF HostTypes, Launched
<1>5. \A q \in Requests \ {r} : call'[q] = call[q]
  BY <1>2 DEF HostInv, HostTypes
<1>6. \/ items = held[k]
      \/ r \in Running /\ call[r].session = k /\ items = call[r].items
  BY DEF Offers, Running
<1>7. ASSUME NEW q \in Running'
      PROVE  /\ \A i \in call'[q].made : i \notin v.items
             /\ \/ call'[q].items = held[call'[q].session]
                \/ /\ q \in Running /\ call'[q].session = call[q].session
                   /\ call'[q].items = call[q].items
  <2>1. CASE q = r
    BY <1>4, <1>6, <2>1
  <2>2. CASE q # r
    <3>1. q \in Running /\ call'[q] = call[q]
      BY <1>5, <2>2 DEF Running
    <3> QED
      BY <3>1 DEF CoverOK
  <2> QED
    BY <2>1, <2>2
<1> QED
  BY <1>1, <1>3, <1>7, CoverKeeps

\* What an answer creates had not been created by any save.
LEMMA AnswerCovers ==
  ASSUME HostTypes, Created, NEW r \in Requests, Answer(r), NEW v, CoverOK(v)
  PROVE  CoverOK(v)' /\ UNCHANGED cover
<1>1. UNCHANGED cover /\ r \in Running
  BY AnswerForm
<1>2. PICK M \in SUBSET Items, name \in {Creator(call[r]), Absent} :
        Answers(r, call[r], M, name)
  BY AnswerForm
<1>3. PICK c \in CallRec : c = call[r]
  BY <1>1, CallTyped
<1>4. PICK d \in CallRec : d = [c EXCEPT !.answered = TRUE, !.made = M]
  BY AnsweredCall
<1>5. d.made = M /\ d.session = c.session /\ d.items = c.items
  BY <1>4, AnsweredCall
<1>6. /\ \A i \in M : owner[i] = Absent
      /\ call'[r] = d
      /\ \A q \in Requests \ {r} : call'[q] = call[q]
      /\ \A i \in Items \ M : owner'[i] = owner[i]
      /\ \A j \in Sessions : held'[j] \subseteq held[j] \cup M
  BY <1>2, <1>3, <1>4 DEF Answers
<1>7. \A i \in v.items : i \in Items \ M
  BY <1>6 DEF CoverOK
<1>8. ASSUME NEW q \in Running'
      PROVE  /\ \A i \in call'[q].made : i \notin v.items
             /\ q \in Running /\ call'[q].session = call[q].session
             /\ call'[q].items = call[q].items
  <2>1. CASE q = r
    BY <1>1, <1>3, <1>5, <1>6, <1>7, <2>1
  <2>2. CASE q # r
    <3>1. q \in Running /\ call'[q] = call[q]
      BY <1>6, <2>2 DEF Running
    <3> QED
      BY <3>1 DEF CoverOK
  <2> QED
    BY <2>1, <2>2
<1>9. /\ \A i \in v.items : owner'[i] \in {owner[i], NoRoute}
      /\ \A k \in Sessions : \A i \in held'[k] : i \in held[k] \/ i \notin v.items
  BY <1>6, <1>7
<1> QED
  BY <1>1, <1>8, <1>9, CoverKeeps

\* A save is good when it is made: what is not of requests that run is guarded already.  So
\* is the absence of a save.
LEMMA FreshCover ==
  ASSUME HostInv, NEW v, v \in {Covering(Content), Covering(NoContent)}
  PROVE  CoverOK(v)
<1>1. HostTypes /\ Tracked /\ Created /\ Guarded
  BY DEF HostInv
<1>2. /\ v.items = {i \in Items : owner[i] # Absent} \ Made(Running)
      /\ v.last = LastWithout(Running)
      /\ v.of \in {Content, NoContent}
  BY DEF Covering
<1>3. \A r \in Running : \A i \in call[r].made : i \notin v.items
  BY <1>2 DEF Made
<1>4. ASSUME NEW k \in Sessions, Binds(v.of.sessions[k])
      PROVE  CoverFit(v, k)
  <2>1. v.of.sessions[k] = sessions[k] /\ Trusts(k)
    BY <1>2, <1>4 DEF Content, NoContent, NoSessions, Binds, Trusts
  <2>2. HeldFit(k) /\ LastFit(k) /\ SentFit(k)
    BY <1>1, <2>1 DEF Guarded, GuardedAt
  <2>3. \A i \in held[k] : i \in v.items => Fit(i, sessions[k])
    BY <1>1, <1>3, <2>2 DEF HeldFit, Making, Tracked
  <2>4. Named(v.last[k], sessions[k])
    <3>1. v.last[k] = IF \E r \in Running : /\ call[r].answered /\ call[r].session = k
                                            /\ call[r].route = last[k]
                      THEN NoRoute ELSE last[k]
      BY <1>2 DEF LastWithout
    <3>2. CASE Named(last[k], sessions[k])
      BY <3>1, <3>2 DEF Named
    <3>3. CASE Answering(k)
      <4>1. PICK r \in Running : call[r].session = k /\ call[r].answered /\ call[r].known
        BY <1>1, <3>3 DEF Answering, Tracked
      <4>2. last[k] \in {Absent, NoRoute, call[r].route}
        BY <1>1, <4>1 DEF Created, History
      <4> QED
        BY <3>1, <4>1, <4>2 DEF Named
    <3> QED
      BY <2>2, <3>2, <3>3 DEF LastFit
  <2> QED
    BY <2>1, <2>2, <2>3, <2>4 DEF CoverFit, SentFit
<1> QED
  BY <1>2, <1>3, <1>4 DEF CoverOK

-----------------------------------------------------------------------------
(* A new store.                                                            *)

\* A call that runs on without its store.
CutOff(v, c, d) ==
  /\ d \in CallRec /\ ~d.known /\ d.made = {}
  /\ d.session = c.session /\ d.route = c.route /\ d.items = c.items
  /\ d.sent = c.sent /\ d.sentPrev = c.sentPrev
  /\ d.prev \in {Absent, NoRoute, v.last[c.session]}

\* The host ends and starts again, or the plugin is replaced: a store starts from a save or
\* from nothing, and what runs ends or is cut off.
Replaces(v) ==
  /\ NewStore(v)
  /\ call' \in [Requests -> CallRec \cup {Absent}]
  /\ \/ \A q \in Requests : call'[q] = Absent
     \/ \A q \in Requests : IF call[q] = Absent THEN call'[q] = Absent
                            ELSE CutOff(v, call[q], call'[q])

LEMMA UnknownCall ==
  ASSUME NEW v, NEW c \in CallRec, NEW prev \in Routes \cup {NoRoute, Absent},
         prev \in {Absent, NoRoute, v.last[c.session]}
  PROVE  CutOff(v, c, [c EXCEPT !.known = FALSE, !.made = {}, !.prev = prev])
BY DEF CallRec, CutOff

LEMMA ReplacingForm ==
  ASSUME HostTypes, Restart \/ Reconfigure
  PROVE  \E v \in cover \cup {Covering(NoContent)} : Replaces(v)
<1>1. CASE Restart
  <2>1. PICK v \in cover \cup {Covering(NoContent)} : NewStore(v)
    BY <1>1 DEF Restart
  <2>2. call' = [r \in Requests |-> Absent]
    BY <1>1 DEF Restart
  <2> QED
    BY <2>1, <2>2 DEF Replaces
<1>2. CASE Reconfigure
  <2>1. PICK v \in cover \cup {Covering(NoContent)} :
          /\ NewStore(v)
          /\ call' = [r \in Requests |->
                        IF call[r] = Absent THEN Absent
                        ELSE [call[r] EXCEPT
                                !.known = FALSE, !.made = {},
                                !.prev = IF @ \in {Absent, v.last[call[r].session]}
                                         THEN @ ELSE NoRoute]]
    BY <1>2 DEF Reconfigure
  <2>2. ASSUME NEW q \in Requests, call[q] # Absent
        PROVE  CutOff(v, call[q], call'[q])
    <3>1. PICK c \in CallRec : c = call[q]
      BY <2>2 DEF HostTypes
    <3>2. PICK prev \in Routes \cup {NoRoute, Absent} :
            prev = IF c.prev \in {Absent, v.last[c.session]} THEN c.prev ELSE NoRoute
      BY DEF CallRec
    <3>3. call'[q] = [c EXCEPT !.known = FALSE, !.made = {}, !.prev = prev]
      BY <2>1, <2>2, <3>1, <3>2 DEF CallRec
    <3>4. PICK d : d = [c EXCEPT !.known = FALSE, !.made = {}, !.prev = prev]
      OBVIOUS
    <3>5. CutOff(v, c, d)
      BY <3>2, <3>4, UnknownCall
    <3> QED
      BY <3>1, <3>3, <3>4, <3>5
  <2>3. \A q \in Requests : call[q] = Absent => call'[q] = Absent
    BY <2>1
  <2>4. call' \in [Requests -> CallRec \cup {Absent}]
    <3>1. \A q \in Requests : call'[q] \in CallRec \cup {Absent}
      BY <2>2, <2>3 DEF CutOff
    <3>2. call' = [q \in Requests |-> call'[q]]
      BY <2>1
    <3> QED
      BY <3>1, <3>2
  <2> QED
    BY <2>1, <2>2, <2>3, <2>4 DEF Replaces
<1> QED
  BY <1>1, <1>2

\* A new store has no pending requests, and a session of it is as it was saved
\* (newPersistentRouteStateStoreWithRoot).
LEMMA LoadTrusts ==
  ASSUME NEW content, Load(content)
  PROVE  /\ Used(pending') = {} /\ \A r \in Requests : pending'[r] = Absent
         /\ \A k \in Sessions : sessions'[k] \in {content.sessions[k], Absent}
<1>1. pending' = [r \in Requests |-> Absent]
  BY DEF Load
<1>2. PICK accepted \in {content, NoContent} : sessions' = Restored(accepted.sessions)
  BY LoadForm
<1>3. \A k \in Sessions : sessions'[k] \in {content.sessions[k], Absent}
  BY <1>2 DEF Restored, NoContent, NoSessions
<1> QED
  BY <1>1, <1>3 DEF Used

\* Nobody vouches for what the save does not cover.
LEMMA ReplacedFades ==
  ASSUME HostTypes, NEW v, Replaces(v)
  PROVE  /\ Fades(Running) /\ HostTypes' /\ UNCHANGED <<held, cover>>
         /\ \A i \in Items : i \notin v.items => owner'[i] \in {Absent, NoRoute}
         /\ \A i \in Items : i \in v.items => owner'[i] = owner[i]
         /\ \A k \in Sessions : last'[k] \in {Absent, NoRoute, v.last[k]}
         /\ \A q \in Running' : q \in Running /\ CutOff(v, call[q], call'[q])
<1>1. /\ owner' = [i \in Items |->
                     IF owner[i] # Absent /\ i \notin v.items THEN NoRoute ELSE owner[i]]
      /\ last' = [k \in Sessions |->
                    IF last[k] \in {Absent, v.last[k]} THEN last[k] ELSE NoRoute]
      /\ UNCHANGED <<held, cover>>
  BY DEF Replaces, NewStore
<1>2. \A q \in Requests \ Running : call'[q] = call[q]
  BY DEF Replaces, Running
<1>3. HostTypes'
  BY <1>1 DEF HostTypes, Replaces
<1>4. \A q \in Running' : q \in Running /\ CutOff(v, call[q], call'[q])
  BY DEF Replaces, Running
<1> QED
  BY <1>1, <1>2, <1>3, <1>4 DEF Fades

\* A store that starts from a good save keeps the invariant: what runs is cut off, and what
\* the save does not cover is nobody's.
LEMMA ReplacedKeeps ==
  ASSUME HostInv, NEW v, CoverOK(v), Replaces(v)
  PROVE  HostInv'
<1>1. HostTypes /\ OneTurn /\ Tracked /\ Created /\ Guarded
  BY DEF HostInv
<1>2. /\ Used(pending') = {} /\ \A r \in Requests : pending'[r] = Absent
      /\ \A k \in Sessions : sessions'[k] \in {v.of.sessions[k], Absent}
  BY LoadTrusts DEF Replaces, NewStore
<1>3. /\ Fades(Running) /\ HostTypes' /\ UNCHANGED held
      /\ \A i \in Items : i \notin v.items => owner'[i] \in {Absent, NoRoute}
      /\ \A i \in Items : i \in v.items => owner'[i] = owner[i]
      /\ \A k \in Sessions : last'[k] \in {Absent, NoRoute, v.last[k]}
  BY <1>1, ReplacedFades
<1>4. ASSUME NEW q \in Running'
      PROVE  /\ q \in Running /\ ~call'[q].known /\ call'[q].made = {}
             /\ call'[q].session = call[q].session /\ call'[q].items = call[q].items
             /\ call'[q].prev \in {Absent, NoRoute, v.last[call[q].session]}
  <2>1. q \in Running /\ CutOff(v, call[q], call'[q])
    BY <1>1, ReplacedFades
  <2> QED
    BY <2>1 DEF CutOff
<1>5. OneTurn' /\ Tracked'
  BY <1>1, <1>2, <1>4 DEF OneTurn, Tracked
<1>6. Created'
  <2>1. \A j \in Sessions : \A i \in held'[j] : owner'[i] # Absent
    BY <1>1, <1>3, Nobody DEF Created, Fades, HostTypes
  <2>2. ASSUME NEW q \in Running'
        PROVE  History(q)'
    <3>1. q \in Running
      BY <1>4
    <3>2. /\ call[q].session \in Sessions /\ call[q].items \subseteq Items
          /\ call[q].made \subseteq Items /\ held[call[q].session] \subseteq Items
      BY <1>1, <3>1, CallTyped DEF HostTypes
    <3>3. /\ \A i \in call[q].items : owner[i] # Absent
          /\ \A i \in held[call[q].session] :
               i \in call[q].items \cup call[q].made \/ owner[i] = NoRoute
      BY <1>1, <3>1 DEF Created, History
    <3>4. \A i \in Items : owner'[i] = owner[i] \/ owner'[i] = NoRoute
      BY <1>3 DEF Fades
    <3>5. \A i \in call[q].made : i \notin v.items
      BY <3>1 DEF CoverOK
    <3>6. \A i \in call[q].items : owner'[i] # Absent
      BY <3>2, <3>3, <3>4, Nobody
    <3>7. \A i \in held[call[q].session] : i \in call[q].items \/ owner'[i] = NoRoute
      BY <1>3, <2>1, <3>2, <3>3, <3>4, <3>5
    <3> QED
      BY <1>3, <1>4, <3>6, <3>7 DEF History
  <2> QED
    BY <2>1, <2>2 DEF Created
<1>7. ASSUME NEW j \in Sessions, Binds(sessions'[j])
      PROVE  HeldFit(j)' /\ LastFit(j)' /\ SentFit(j)'
  <2>1. sessions'[j] = v.of.sessions[j] /\ Binds(v.of.sessions[j])
    BY <1>2, <1>7 DEF Binds
  <2>2. CoverFit(v, j)
    BY <2>1 DEF CoverOK
  <2>3. ASSUME NEW i \in Items, i \in v.items => Fit(i, v.of.sessions[j])
        PROVE  Fit(i, sessions[j])'
    <3>1. CASE i \in v.items
      BY <1>3, <2>1, <2>3, <3>1 DEF Fit
    <3>2. CASE i \notin v.items
      BY <1>3, <3>2, Nobody DEF Fit
    <3> QED
      BY <3>1, <3>2
  <2>4. HeldFit(j)'
    <3>1. held[j] \subseteq Items
      BY <1>1 DEF HostTypes
    <3>2. \A i \in held[j] : Fit(i, sessions[j])'
      BY <2>2, <2>3, <3>1 DEF CoverFit
    <3> QED
      BY <1>3, <3>2 DEF HeldFit
  <2>5. LastFit(j)'
    BY <1>3, <2>1, <2>2 DEF CoverFit, LastFit, Named
  <2>6. SentFit(j)'
    <3> SUFFICES ASSUME NEW q \in Running', call'[q].session = j
                 PROVE  /\ Named(call[q].prev, sessions[j])'
                        /\ \A i \in call'[q].items : Fit(i, sessions[j])'
      BY DEF SentFit
    <3>1. q \in Running /\ call[q].session = j /\ call'[q].items = call[q].items
      BY <1>4
    <3>2. \A i \in call[q].items : i \in v.items => Fit(i, v.of.sessions[j])
      BY <2>2, <3>1 DEF CoverFit
    <3>3. call[q].items \subseteq Items
      BY <1>1, <3>1, CallTyped
    <3>4. \A i \in call'[q].items : Fit(i, sessions[j])'
      BY <2>3, <3>1, <3>2, <3>3
    <3>5. Named(call[q].prev, sessions[j])'
      BY <1>4, <2>1, <2>2, <3>1 DEF CoverFit, Named
    <3> QED
      BY <3>4, <3>5
  <2> QED
    BY <2>4, <2>5, <2>6
<1>8. Guarded'
  BY <1>7 DEF Guarded, GuardedAt, Trusts
<1>9. Unfinished'
  BY <1>2, <1>4 DEF Unfinished, UnfinishedAt, LostOne, Bars, Newest
<1> QED
  BY <1>3, <1>5, <1>6, <1>8, <1>9 DEF HostInv

\* Whatever save it starts from, the others stay good too.
LEMMA ReplacedCovers ==
  ASSUME HostTypes, NEW v, Replaces(v), NEW w, CoverOK(w)
  PROVE  CoverOK(w)'
<1>1. Fades(Running) /\ UNCHANGED held
  BY ReplacedFades
<1>2. \A i \in w.items : owner'[i] \in {owner[i], NoRoute}
  BY <1>1 DEF Fades, CoverOK
<1>3. ASSUME NEW q \in Running'
      PROVE  /\ q \in Running /\ call'[q].made = {}
             /\ call'[q].session = call[q].session /\ call'[q].items = call[q].items
  <2>1. q \in Running /\ CutOff(v, call[q], call'[q])
    BY ReplacedFades
  <2> QED
    BY <2>1 DEF CutOff
<1>4. \A k \in Sessions : \A i \in held'[k] : i \in held[k]
  BY <1>1
<1>5. \A q \in Running' : /\ \A i \in call'[q].made : i \notin w.items
                          /\ q \in Running /\ call'[q].session = call[q].session
                          /\ call'[q].items = call[q].items
  BY <1>3
<1> QED
  BY <1>2, <1>4, <1>5, CoverKeeps

\* So do a restart of the host and a reconfiguration.
LEMMA ReplacingKeeps ==
  ASSUME HostInv, Covered, Restart \/ Reconfigure
  PROVE  HostInv' /\ Covered'
<1>1. HostTypes
  BY DEF HostInv
<1>2. PICK v \in cover \cup {Covering(NoContent)} : Replaces(v)
  BY <1>1, ReplacingForm
<1>3. CoverOK(v)
  BY FreshCover DEF Covered
<1>4. HostInv'
  BY <1>2, <1>3, ReplacedKeeps
<1>5. UNCHANGED cover
  BY <1>1, <1>2, ReplacedFades
<1>6. \A w \in cover : CoverOK(w)'
  BY <1>1, <1>2, ReplacedCovers DEF Covered
<1> QED
  BY <1>4, <1>5, <1>6 DEF Covered

\* It starts from what has been in the state file, or from nothing.
LEMMA ReplacingReopens ==
  ASSUME Saved, Restart \/ Reconfigure
  PROVE  Reopen
<1>1. PICK v \in cover \cup {Covering(NoContent)} : NewStore(v)
  BY DEF Restart, Reconfigure
<1>2. v.of \in saved \cup {NoContent}
  BY DEF Saved, Covering
<1> QED
  BY <1>1, <1>2 DEF NewStore, Reopen

-----------------------------------------------------------------------------
(* The invariant.                                                          *)

\* A step of the guard is a step of the store, or leaves it alone.
LEMMA GuardIsStore ==
  ASSUME "overlap" \notin Freedoms, HostInv, Saved, [GuardNext]_guardVars
  PROVE  [Next]_stateVars
<1>1. HostTypes /\ OneTurn
  BY DEF HostInv
<1>2. ASSUME NEW r \in Requests, NEW k \in Sessions, NEW route \in HostRoutes,
             Send(r, k, route)
      PROVE  Next
  <2>1. route \in Routes \cup {NoRoute}
    BY DEF HostRoutes
  <2> QED
    BY <1>1, <1>2, <2>1, SendOffers, InterceptPrepares
<1>3. ASSUME NEW r \in Requests, NEW route \in HostRoutes, Retry(r, route)
      PROVE  Next
  <2>1. route \in Routes \cup {NoRoute}
    BY DEF HostRoutes
  <2> QED
    BY <1>1, <1>3, <2>1, RetryOffers, InterceptPrepares
<1>4. ASSUME NEW r \in Requests, Answer(r)
      PROVE  UNCHANGED stateVars
  BY <1>4 DEF Answer
<1>5. ASSUME NEW r \in Requests, Finish(r)
      PROVE  [Next]_stateVars
  BY <1>5 DEF Finish, Next, Complete
<1>6. ASSUME NEW k \in Sessions, Forget(k)
      PROVE  UNCHANGED stateVars
  BY <1>6 DEF Forget
<1>7. ASSUME Persist \/ HostTick \/ Sweep \/ \E r \in Requests : ExpirePending(r)
      PROVE  Next
  BY <1>7 DEF Persist, HostTick, Next
<1>8. ASSUME Restart \/ Reconfigure
      PROVE  Next
  BY <1>8, ReplacingReopens DEF Next
<1>9. UNCHANGED guardVars => UNCHANGED stateVars
  BY DEF guardVars
<1> QED
  BY <1>2, <1>3, <1>4, <1>5, <1>6, <1>7, <1>8, <1>9 DEF GuardNext

\* Only a save changes what is told of the state file.
LEMMA CoverForm ==
  ASSUME [GuardNext]_guardVars
  PROVE  Persist \/ UNCHANGED cover
<1>1. ASSUME NEW r, NEW k, NEW route, NEW items, NEW prev, Intercept(r, k, route, items, prev)
      PROVE  UNCHANGED cover
  BY <1>1 DEF Intercept
<1>2. ASSUME NEW r, NEW k, NEW route, Send(r, k, route) \/ Retry(r, route)
      PROVE  UNCHANGED cover
  BY <1>1, <1>2 DEF Send, Retry
<1>3. ASSUME NEW r, Answer(r) \/ Finish(r) \/ Forget(r)
      PROVE  UNCHANGED cover
  BY <1>3 DEF Answer, Finish, Forget
<1>4. ASSUME Restart \/ Reconfigure
      PROVE  UNCHANGED cover
  BY <1>4 DEF Restart, Reconfigure, NewStore
<1>5. ASSUME UNCHANGED hostVars \/ HostTick \/ UNCHANGED guardVars
      PROVE  UNCHANGED cover
  BY <1>5 DEF HostTick, hostVars, guardVars
<1>6. CASE \E r \in Requests :
             \/ \E k \in Sessions, route \in HostRoutes : Send(r, k, route)
             \/ \E route \in HostRoutes : Retry(r, route)
             \/ Answer(r)
             \/ Finish(r)
  BY <1>2, <1>3, <1>6
<1>7. CASE \E k \in Sessions : Forget(k)
  BY <1>3, <1>7
<1> QED
  BY <1>4, <1>5, <1>6, <1>7 DEF GuardNext

\* What is told of the file has been in it.
LEMMA StepSaved ==
  ASSUME Saved, [GuardNext]_guardVars, [Next]_stateVars
  PROVE  Saved'
<1>1. saved \subseteq saved'
  BY SavedForm
<1>2. CASE Persist
  BY <1>2 DEF Persist, Save, Saved, Covering
<1> QED
  BY <1>1, <1>2, CoverForm DEF Saved

\* Every step keeps the part of the invariant that is about the host and its clients, and
\* every save good.
LEMMA StepHost ==
  ASSUME "overlap" \notin Freedoms, CompactionPolicy = "strip", GuardInv,
         [GuardNext]_guardVars
  PROVE  HostInv' /\ Covered'
<1>1. StoreInv /\ HostInv /\ HostTypes /\ OneTurn /\ Created /\ Covered
  BY DEF GuardInv, HostInv
<1>2. ASSUME NEW r \in Requests, NEW k \in Sessions, NEW route \in HostRoutes,
             Send(r, k, route)
      PROVE  HostInv' /\ Covered'
  <2>1. route \in Routes \cup {NoRoute}
    BY DEF HostRoutes
  <2>2. PICK items \in SUBSET Items, prev \in Routes \cup {NoRoute, Absent} :
          Offers(r, k, items, prev) /\ Intercept(r, k, route, items, prev)
    BY <1>1, <1>2, SendOffers
  <2>3. HostInv'
    BY <1>1, <2>1, <2>2, InterceptKeeps
  <2>4. \A v : CoverOK(v) => CoverOK(v)' /\ UNCHANGED cover
    BY <1>1, <2>1, <2>2, InterceptCovers
  <2>5. UNCHANGED cover
    BY <2>2 DEF Intercept
  <2> QED
    BY <1>1, <2>3, <2>4, <2>5 DEF Covered
<1>3. ASSUME NEW r \in Requests, NEW route \in HostRoutes, Retry(r, route)
      PROVE  HostInv' /\ Covered'
  <2>1. route \in Routes \cup {NoRoute}
    BY DEF HostRoutes
  <2>2. PICK k \in Sessions, items \in SUBSET Items, prev \in Routes \cup {NoRoute, Absent} :
          Offers(r, k, items, prev) /\ Intercept(r, k, route, items, prev)
    BY <1>1, <1>3, RetryOffers
  <2>3. HostInv'
    BY <1>1, <2>1, <2>2, InterceptKeeps
  <2>4. \A v : CoverOK(v) => CoverOK(v)' /\ UNCHANGED cover
    BY <1>1, <2>1, <2>2, InterceptCovers
  <2>5. UNCHANGED cover
    BY <2>2 DEF Intercept
  <2> QED
    BY <1>1, <2>3, <2>4, <2>5 DEF Covered
<1>4. ASSUME NEW r \in Requests, Answer(r)
      PROVE  HostInv' /\ Covered'
  <2>1. HostInv'
    BY <1>1, <1>4, AnswerKeeps
  <2>2. \A v : CoverOK(v) => CoverOK(v)' /\ UNCHANGED cover
    BY <1>1, <1>4, AnswerCovers
  <2>3. UNCHANGED cover
    BY <1>4 DEF Answer
  <2> QED
    BY <1>1, <2>1, <2>2, <2>3 DEF Covered
<1>5. ASSUME NEW r \in Requests, Finish(r)
      PROVE  HostInv' /\ Covered'
  <2>1. HostInv'
    BY <1>1, <1>5, FinishKeeps
  <2>2. Fades({r}) /\ call'[r] = Absent /\ UNCHANGED cover
    BY <1>1, <1>5, FinishFades
  <2>3. \A v : CoverOK(v) => CoverOK(v)'
    BY <1>1, <2>2, FadesCovers
  <2> QED
    BY <1>1, <2>1, <2>2, <2>3 DEF Covered
<1>6. ASSUME NEW k \in Sessions, Forget(k)
      PROVE  HostInv' /\ Covered'
  <2>1. HostInv'
    BY <1>1, <1>6, ForgetKeeps
  <2>2. Fades({}) /\ UNCHANGED cover
    BY <1>1, <1>6, ForgetFades
  <2>3. \A v : CoverOK(v) => CoverOK(v)'
    BY <1>1, <2>2, FadesCovers
  <2> QED
    BY <1>1, <2>1, <2>2, <2>3 DEF Covered
<1>7. ASSUME Restart \/ Reconfigure
      PROVE  HostInv' /\ Covered'
  BY <1>1, <1>7, ReplacingKeeps
<1>8. ASSUME UNCHANGED <<owner, held, last, call>>,
             Sweep \/ (\E r \in Requests : ExpirePending(r))
                   \/ UNCHANGED <<sessions, pending, sweep>>
      PROVE  HostInv' /\ \A v : CoverOK(v) => CoverOK(v)'
  <2>1. HostInv'
    BY <1>1, <1>8, QuietKeeps
  <2>2. Fades({})
    BY <1>8 DEF Fades
  <2> QED
    BY <1>1, <2>1, <2>2, FadesCovers
<1>9. ASSUME Persist
      PROVE  HostInv' /\ Covered'
  <2>1. UNCHANGED <<owner, held, last, call>> /\ UNCHANGED <<sessions, pending, sweep>>
    BY <1>9 DEF Persist, Save, vars
  <2>2. HostInv' /\ \A v : CoverOK(v) => CoverOK(v)'
    BY <1>8, <2>1
  <2>3. PICK w : w = Covering(Content)
    OBVIOUS
  <2>4. cover' = cover \cup {w}
    BY <1>9, <2>3 DEF Persist
  <2>5. CoverOK(w)
    BY <1>1, <2>3, FreshCover
  <2> QED
    BY <1>1, <2>2, <2>4, <2>5 DEF Covered
<1>10. ASSUME UNCHANGED hostVars,
              Sweep \/ (\E r \in Requests : ExpirePending(r))
                    \/ UNCHANGED <<sessions, pending, sweep>>
       PROVE  HostInv' /\ Covered'
  <2>1. UNCHANGED <<owner, held, last, call>> /\ UNCHANGED cover
    BY <1>10 DEF hostVars
  <2> QED
    BY <1>1, <1>8, <1>10, <2>1 DEF Covered
<1>11. ASSUME HostTick \/ UNCHANGED guardVars
       PROVE  HostInv' /\ Covered'
  <2>1. UNCHANGED hostVars /\ UNCHANGED <<sessions, pending, sweep>>
    BY <1>11 DEF HostTick, Tick, guardVars, stateVars, vars
  <2> QED
    BY <1>10, <2>1
<1>12. CASE \E r \in Requests :
              \/ \E k \in Sessions, route \in HostRoutes : Send(r, k, route)
              \/ \E route \in HostRoutes : Retry(r, route)
              \/ Answer(r)
              \/ Finish(r)
  BY <1>2, <1>3, <1>4, <1>5, <1>12
<1>13. CASE \E k \in Sessions : Forget(k)
  BY <1>6, <1>13
<1>14. CASE (Sweep \/ \E r \in Requests : ExpirePending(r)) /\ UNCHANGED hostVars
  BY <1>10, <1>14
<1> QED
  BY <1>7, <1>9, <1>11, <1>12, <1>13, <1>14 DEF GuardNext

\* Every step keeps the invariant.
LEMMA StepGuarded ==
  ASSUME "overlap" \notin Freedoms, CompactionPolicy = "strip", GuardInv,
         [GuardNext]_guardVars
  PROVE  GuardInv'
<1>1. StoreInv /\ HostInv /\ Saved
  BY DEF GuardInv
<1>2. [Next]_stateVars
  BY <1>1, GuardIsStore
<1>3. TypeOK /\ IndexExact /\ Bounded /\ SavedBounded /\ Numbered /\ SavedNumbered
  BY <1>1 DEF StoreInv
<1>4. TypeOK' /\ IndexExact'
  BY <1>2, <1>3, StepType, StepExact
<1>5. Bounded' /\ SavedBounded' /\ Numbered' /\ SavedNumbered'
  BY <1>2, <1>3, StepBounded, StepNumbered
<1>6. StoreInv'
  BY <1>4, <1>5 DEF StoreInv
<1>7. Saved'
  BY <1>1, <1>2, StepSaved
<1> QED
  BY <1>6, <1>7, StepHost DEF GuardInv

\* A store without sessions trusts nothing.
LEMMA InitGuarded == GuardInit => GuardInv
<1> SUFFICES ASSUME GuardInit PROVE GuardInv
  OBVIOUS
<1>1. Init /\ sessions = [k \in Sessions |-> Absent] /\ pending = [r \in Requests |-> Absent]
  BY DEF GuardInit, Init
<1>2. /\ owner = [i \in Items |-> Absent] /\ held = [k \in Sessions |-> {}]
      /\ last = [k \in Sessions |-> Absent] /\ call = [r \in Requests |-> Absent]
      /\ cover = {} /\ saved = {}
  BY DEF GuardInit, Init
<1>3. Live(sessions) = {} /\ Used(pending) = {} /\ Running = {}
  BY <1>1, <1>2 DEF Live, Used, Running
<1>4. Bounded /\ SavedBounded
  BY <1>2, <1>3, FS_EmptySet, BoundsAssumption DEF Bounded, SavedBounded
<1>5. Numbered /\ SavedNumbered
  BY <1>2, <1>3 DEF Numbered, SavedNumbered
<1>6. StoreInv
  BY <1>1, <1>4, <1>5, InitType, InitExact DEF StoreInv
<1>7. HostTypes
  BY <1>2 DEF HostTypes
<1>8. OneTurn /\ Tracked /\ Unfinished
  BY <1>3 DEF OneTurn, Tracked, Unfinished
<1>9. Created
  BY <1>2, <1>3 DEF Created
<1>10. Guarded
  BY <1>1 DEF Guarded, GuardedAt, Trusts, Binds
<1>11. Covered /\ Saved
  BY <1>2 DEF Covered, Saved
<1> QED
  BY <1>6, <1>7, <1>8, <1>9, <1>10, <1>11 DEF GuardInv, HostInv

\* As long as turns do not overlap, whatever a client can send in a conversation that the
\* store trusts is fit for its route, or is about to be, or nobody vouches for it: also when
\* the store has started from a save that is older than the last success.
THEOREM GuardKept ==
  ASSUME "overlap" \notin Freedoms, CompactionPolicy = "strip"
  PROVE  GuardSpec => []GuardInv
BY InitGuarded, StepGuarded, PTL DEF GuardSpec

-----------------------------------------------------------------------------
(* The promise is kept.                                                    *)

\* What the promise sees of a call.
View(c) ==
  [session |-> c.session, route |-> c.route, sent |-> c.sent, prev |-> c.sentPrev,
   made |-> c.made, known |-> c.known]

\* Types of it.
LEMMA ViewTyped ==
  ASSUME NEW c \in CallRec
  PROVE  /\ View(c) \in Promise!CallRec /\ View(c) # Absent
         /\ View(c).session = c.session /\ View(c).route = c.route
         /\ View(c).sent = c.sent /\ View(c).prev = c.sentPrev
         /\ View(c).made = c.made /\ View(c).known = c.known
<1>1. View(c) \in Promise!CallRec
  BY DEF View, CallRec, Promise!CallRec
<1>2. View(c) # Absent
  BY <1>1, AbsentCallAssumption
<1> QED
  BY <1>1, <1>2 DEF View

\* A call that nobody knows of any more.
LEMMA Cutoff ==
  ASSUME NEW u \in Promise!CallRec, NEW v \in Promise!CallRec,
         v.session = u.session, v.route = u.route, v.sent = u.sent, v.prev = u.prev,
         v.made = {}, v.known = FALSE
  PROVE  v = [u EXCEPT !.known = FALSE, !.made = {}]
BY DEF Promise!CallRec

\* The refinement mapping, request by request, before a step and after it.
LEMMA UpstreamView ==
  ASSUME NEW r \in Requests
  PROVE  /\ call[r] = Absent => Upstream[r] = Absent
         /\ call[r] # Absent => Upstream[r] = View(call[r])
         /\ call'[r] = Absent => Upstream'[r] = Absent
         /\ call'[r] # Absent => Upstream'[r] = View(call'[r])
         /\ call'[r] = call[r] => Upstream'[r] = Upstream[r]
BY DEF Upstream, View

\* The mapping is a function on the requests, and maps what runs to what runs.
LEMMA UpstreamRuns ==
  ASSUME HostTypes
  PROVE  /\ Upstream = [r \in Requests |-> Upstream[r]]
         /\ Upstream' = [r \in Requests |-> Upstream'[r]]
         /\ {r \in Requests : Upstream[r] # Absent} = Running
<1>1. /\ Upstream = [r \in Requests |-> Upstream[r]]
      /\ Upstream' = [r \in Requests |-> Upstream'[r]]
  BY DEF Upstream
<1>2. ASSUME NEW r \in Requests
      PROVE  Upstream[r] # Absent <=> r \in Running
  <2>1. CASE call[r] = Absent
    BY <2>1, UpstreamView DEF Running
  <2>2. CASE call[r] # Absent
    BY <2>2, UpstreamView, ViewTyped DEF HostTypes, Running
  <2> QED
    BY <2>1, <2>2
<1>3. Running \subseteq Requests
  BY DEF Running
<1> QED
  BY <1>1, <1>2, <1>3

\* A step that changes one call changes what the promise sees of that call only.
LEMMA UpstreamChange ==
  ASSUME NEW r \in Requests, \A q \in Requests \ {r} : call'[q] = call[q]
  PROVE  Upstream' = [Upstream EXCEPT ![r] = Upstream'[r]]
<1>1. \A q \in Requests \ {r} : Upstream'[q] = Upstream[q]
  BY UpstreamView
<1>2. Upstream' = [q \in Requests |-> Upstream'[q]]
  BY DEF Upstream
<1>3. [Upstream EXCEPT ![r] = Upstream'[r]]
        = [q \in Requests |-> IF q = r THEN Upstream'[r] ELSE Upstream[q]]
  BY DEF Upstream
<1> QED
  BY <1>1, <1>2, <1>3

\* Nothing goes upstream with a candidate but what was created on its route, or what
\* nobody vouches for.
LEMMA InterceptForwards ==
  ASSUME StoreInv, HostInv, CompactionPolicy = "strip", NEW r \in Requests,
         NEW k \in Sessions, NEW route \in Routes \cup {NoRoute}, NEW items \in SUBSET Items,
         NEW prev \in Routes \cup {NoRoute, Absent}, Intercept(r, k, route, items, prev),
         Offers(r, k, items, prev)
  PROVE  Promise!Forward(r)
<1>1. TypeOK /\ HostTypes
  BY DEF StoreInv, HostInv
<1>2. /\ \A i \in items : owner[i] # Absent
      /\ Trusts(k) => (\A i \in items : Fit(i, sessions[k])) /\ Named(prev, sessions[k])
  BY OfferKnown
<1>3. PICK c \in CallRec :
        call' = [call EXCEPT ![r] = c] /\ Launched(c, k, route, items, prev)
  BY <1>1, InterceptForm
<1>4. UNCHANGED <<owner, held, last>> /\ Kept' = Kept
  BY <1>1, InterceptForm DEF Kept
<1>5. /\ c.session = k /\ c.route = route /\ c.items = items /\ c.prev = prev
      /\ c.known /\ c.made = {}
      /\ c.sent \subseteq c.items
      /\ c.sent # {} => Home(c) /\ c.sent \cap Barrier(sessions[c.session]) = {}
      /\ c.sentPrev \in {Absent, c.prev}
      /\ c.sentPrev # Absent => Home(c)
  BY <1>3 DEF Launched, Allowed
<1>6. call'[r] = c /\ \A q \in Requests \ {r} : call'[q] = call[q]
  BY <1>1, <1>3 DEF HostTypes
<1>7. c # Absent
  BY AbsentCallAssumption
<1>8. Upstream'[r] = View(c)
  BY <1>6, <1>7, UpstreamView
<1>9. ASSUME NEW i \in c.sent
      PROVE  owner[i] \in {route, NoRoute}
  <2>1. Home(c) /\ i \notin Barrier(sessions[k]) /\ i \in items /\ i \in Items
    BY <1>5, <1>9
  <2>2. Trusts(k) /\ sessions[k].route = route
    BY <1>5, <2>1 DEF Home
  <2>3. owner[i] \notin Routes \ {route} /\ owner[i] # Absent
    BY <1>2, <2>1, <2>2 DEF Fit
  <2>4. owner[i] \in Routes \cup {NoRoute, Absent}
    BY <1>1, <2>1 DEF HostTypes
  <2> QED
    BY <2>3, <2>4
<1>10. c.sentPrev \in {Absent, route, NoRoute}
  <2> SUFFICES ASSUME c.sentPrev # Absent PROVE c.sentPrev \in {Absent, route, NoRoute}
    OBVIOUS
  <2>1. c.sentPrev = prev /\ Trusts(k) /\ sessions[k].route = route
    BY <1>5 DEF Home
  <2> QED
    BY <1>2, <2>1 DEF Named
<1>11. route = NoRoute => c.sent = {} /\ c.sentPrev = Absent
  BY <1>5 DEF Home
<1>12. /\ View(c) \in Promise!CallRec
       /\ View(c).route = route /\ View(c).sent = c.sent /\ View(c).prev = c.sentPrev
       /\ View(c).made = {} /\ View(c).known
  BY <1>5, ViewTyped
<1>13. Promise!OwnRoute(View(c))
  BY <1>9, <1>10, <1>11, <1>12 DEF Promise!OwnRoute
<1>14. Upstream' = [Upstream EXCEPT ![r] = Upstream'[r]]
  BY <1>6, UpstreamChange
<1> QED
  BY <1>4, <1>8, <1>12, <1>13, <1>14 DEF Promise!Forward

\* The same for a turn that begins and for the next candidate of one.
LEMMA CandidateForwards ==
  ASSUME "overlap" \notin Freedoms, CompactionPolicy = "strip", StoreInv, HostInv,
         NEW r \in Requests, NEW k \in Sessions, NEW route \in HostRoutes,
         Send(r, k, route) \/ Retry(r, route)
  PROVE  Promise!Forward(r)
<1>1. HostTypes /\ OneTurn /\ route \in Routes \cup {NoRoute}
  BY DEF HostInv, HostRoutes
<1>2. CASE Send(r, k, route)
  BY <1>1, <1>2, SendOffers, InterceptForwards
<1>3. CASE Retry(r, route)
  BY <1>1, <1>3, RetryOffers, InterceptForwards
<1> QED
  BY <1>2, <1>3

\* An answer is an answer.
LEMMA AnswerAnswers ==
  ASSUME HostTypes, NEW r \in Requests, Answer(r)
  PROVE  Promise!Answer(r)
<1>1. r \in Running
  BY DEF Answer, Running
<1>2. PICK c \in CallRec : c = call[r]
  BY <1>1, CallTyped
<1>3. Upstream[r] = View(c) /\ c # Absent
  BY <1>1, <1>2, UpstreamView DEF Running
<1>4. /\ Upstream[r] # Absent
      /\ Upstream[r].session = c.session /\ Upstream[r].route = c.route
      /\ Upstream[r].known = c.known
  BY <1>3, ViewTyped
<1>5. /\ \E name \in {IF c.known THEN c.route ELSE NoRoute, Absent} :
           last' = [last EXCEPT ![c.session] = name]
      /\ Kept' = Kept
  BY <1>2 DEF Answer, Kept
<1>6. ASSUME call' = [call EXCEPT ![r].answered = TRUE], UNCHANGED <<owner, held>>
      PROVE  Promise!Answer(r)
  <2> DEFINE d == [c EXCEPT !.answered = TRUE]
  <2>1. call'[r] = d /\ \A q \in Requests \ {r} : call'[q] = call[q]
    BY <1>2, <1>6 DEF HostTypes
  <2>2. d \in CallRec /\ View(d) = View(c)
    BY DEF CallRec, View
  <2> HIDE DEF d
  <2>3. d # Absent
    BY <2>2, AbsentCallAssumption
  <2>4. Upstream'[r] = Upstream[r]
    BY <1>3, <2>1, <2>2, <2>3, UpstreamView
  <2>5. \A q \in Requests : Upstream'[q] = Upstream[q]
    BY <2>1, <2>4, UpstreamView
  <2>6. Upstream' = Upstream
    BY <2>5, UpstreamRuns
  <2> QED
    BY <1>4, <1>5, <1>6, <2>6 DEF Promise!Answer
<1>7. ASSUME NEW i \in Items, owner[i] = Absent,
             owner' = [owner EXCEPT ![i] = IF c.known THEN c.route ELSE NoRoute],
             held' = [held EXCEPT ![c.session] = @ \cup {i}],
             call' = [call EXCEPT ![r].answered = TRUE, ![r].made = {i}]
      PROVE  Promise!Answer(r)
  <2> DEFINE d == [c EXCEPT !.answered = TRUE, !.made = {i}]
  <2>1. call' = [call EXCEPT ![r] = d]
    BY <1>2, <1>7 DEF HostTypes
  <2>2. d \in CallRec
    BY AnsweredCall
  <2>3. View(d) = [View(c) EXCEPT !.made = {i}]
    BY DEF CallRec, View
  <2> HIDE DEF d
  <2>4. call'[r] = d /\ d # Absent /\ \A q \in Requests \ {r} : call'[q] = call[q]
    BY <2>1, <2>2, AbsentCallAssumption DEF HostTypes
  <2>5. Upstream'[r] = [Upstream[r] EXCEPT !.made = {i}]
    BY <1>3, <2>3, <2>4, UpstreamView
  <2>6. Upstream' = [Upstream EXCEPT ![r] = Upstream'[r]]
    BY <2>4, UpstreamChange
  <2>7. Upstream' = [Upstream EXCEPT ![r].made = {i}]
    BY <2>5, <2>6
  <2> QED
    BY <1>4, <1>5, <1>7, <2>7 DEF Promise!Answer
<1>8. \/ call' = [call EXCEPT ![r].answered = TRUE] /\ UNCHANGED <<owner, held>>
      \/ \E i \in Items : /\ owner[i] = Absent
                          /\ owner' = [owner EXCEPT ![i] = IF c.known THEN c.route ELSE NoRoute]
                          /\ held' = [held EXCEPT ![c.session] = @ \cup {i}]
                          /\ call' = [call EXCEPT ![r].answered = TRUE, ![r].made = {i}]
  BY <1>2 DEF Answer
<1> QED
  BY <1>6, <1>7, <1>8

\* What the promise sees of a call that runs.
LEMMA UpstreamCall ==
  ASSUME HostTypes, NEW r \in Running
  PROVE  /\ r \in Requests /\ call[r] \in CallRec
         /\ Upstream[r] = View(call[r]) /\ Upstream[r] # Absent
         /\ Upstream[r].made = call[r].made /\ Upstream[r].session = call[r].session
<1>1. r \in Requests /\ call[r] \in CallRec /\ call[r] # Absent
  BY CallTyped DEF Running
<1> QED
  BY <1>1, UpstreamView, ViewTyped

\* The end of a request is an end, or leaves what it created to nobody.
LEMMA FinishEnds ==
  ASSUME HostTypes, NEW r \in Requests, Finish(r)
  PROVE  Promise!End(r) \/ Promise!Abandon(r)
<1>1. call'[r] = Absent /\ \A q \in Requests \ {r} : call'[q] = call[q]
  BY DEF Finish, HostTypes
<1>2. r \in Running /\ UNCHANGED held /\ Kept' = Kept
  BY DEF Finish, Running, Kept
<1>3. Upstream' = [Upstream EXCEPT ![r] = Absent]
  <2>1. Upstream'[r] = Absent
    BY <1>1, UpstreamView
  <2> QED
    BY <1>1, <2>1, UpstreamChange
<1>4. CASE UNCHANGED <<owner, last>>
  BY <1>2, <1>3, <1>4 DEF Promise!End
<1>5. CASE Disown({r})
  <2>1. PICK c \in CallRec : c = call[r]
    BY <1>2, CallTyped
  <2>2. /\ Upstream[r] # Absent /\ Upstream[r].made = c.made
        /\ Upstream[r].session = c.session
    BY <1>2, <2>1, UpstreamCall
  <2>3. owner' = [i \in Items |-> IF i \in c.made THEN NoRoute ELSE owner[i]]
    BY <1>5, <2>1 DEF Disown, Made
  <2>4. last' = [k \in Sessions |->
                   IF c.answered /\ c.session = k /\ c.route = last[k] THEN NoRoute ELSE last[k]]
    BY <1>5, <2>1 DEF Disown, LastWithout
  <2>5. last' \in {last, [last EXCEPT ![c.session] = NoRoute]}
    <3>1. CASE c.answered /\ c.route = last[c.session]
      BY <2>4, <3>1 DEF HostTypes
    <3>2. CASE ~(c.answered /\ c.route = last[c.session])
      BY <2>4, <3>2 DEF HostTypes
    <3> QED
      BY <3>1, <3>2
  <2> QED
    BY <1>2, <1>3, <2>2, <2>3, <2>5 DEF Promise!Abandon
<1> QED
  BY <1>4, <1>5 DEF Finish

\* What the promise sees of what is told of a save.
Known(v) == [items |-> v.items, last |-> v.last]

\* What a save covers when it is made is what is known then.
LEMMA CoveringKnown ==
  ASSUME HostTypes, NEW content
  PROVE  Known(Covering(content)) \in Promise!Known
<1> DEFINE running == {r \in Requests : Upstream[r] # Absent}
           Lost == {call[r].session : r \in
                      {q \in Running : call[q].answered /\ call[q].route = last[call[q].session]}}
<1>1. running = Running /\ \A r \in Running : /\ Upstream[r].made = call[r].made
                                              /\ Upstream[r].session = call[r].session
  BY UpstreamRuns, UpstreamCall
<1>2. UNION {Upstream[r].made : r \in running} = Made(Running)
  BY <1>1 DEF Made
<1>3. Lost \in SUBSET {Upstream[r].session : r \in running}
  BY <1>1
<1>4. LastWithout(Running) = [k \in Sessions |-> IF k \in Lost THEN NoRoute ELSE last[k]]
  <2>1. \A k \in Sessions : k \in Lost <=> \E r \in Running : /\ call[r].answered
                                                              /\ call[r].session = k
                                                              /\ call[r].route = last[k]
    OBVIOUS
  <2> HIDE DEF Lost
  <2> QED
    BY <2>1 DEF LastWithout
<1>5. Known(Covering(content)) =
        [items |-> {i \in Items : owner[i] # Absent} \ Made(Running),
         last |-> LastWithout(Running)]
  BY DEF Known, Covering
<1> HIDE DEF Lost
<1>6. LastWithout(Running) \in
        {[k \in Sessions |-> IF k \in lost THEN NoRoute ELSE last[k]] :
           lost \in SUBSET {Upstream[r].session : r \in running}}
  BY <1>3, <1>4
<1> QED
  BY <1>2, <1>5, <1>6 DEF Promise!Known

\* A save records what is known.
LEMMA PersistRecords ==
  ASSUME HostTypes, Persist
  PROVE  Promise!Record
<1>1. UNCHANGED <<owner, held, last, call>> /\ cover' = cover \cup {Covering(Content)}
  BY DEF Persist
<1>2. Upstream' = Upstream
  BY <1>1 DEF Upstream
<1>3. Kept' = Kept \cup {Known(Covering(Content))}
  BY <1>1 DEF Kept, Known
<1> QED
  BY <1>1, <1>2, <1>3, CoveringKnown DEF Promise!Record

\* A call that is cut off is one that nobody knows of any more.
LEMMA CutOffView ==
  ASSUME HostTypes, NEW v, NEW r \in Running, CutOff(v, call[r], call'[r])
  PROVE  Upstream'[r] = [Upstream[r] EXCEPT !.known = FALSE, !.made = {}]
<1>1. PICK c \in CallRec : c = call[r]
  BY CallTyped
<1>2. PICK d \in CallRec : d = call'[r]
  BY DEF CutOff
<1>3. /\ d.known = FALSE /\ d.made = {} /\ d.session = c.session /\ d.route = c.route
      /\ d.sent = c.sent /\ d.sentPrev = c.sentPrev
  BY <1>1, <1>2 DEF CutOff, CallRec
<1>4. Upstream[r] = View(c)
  BY <1>1, UpstreamCall
<1>5. Upstream'[r] = View(d)
  BY <1>2, UpstreamView, AbsentCallAssumption DEF Running
<1>6. PICK u \in Promise!CallRec : u = View(c)
  BY ViewTyped
<1>7. PICK w \in Promise!CallRec : w = View(d)
  BY ViewTyped
<1>8. /\ u.session = c.session /\ u.route = c.route /\ u.sent = c.sent
      /\ u.prev = c.sentPrev
  BY <1>6, ViewTyped
<1>9. /\ w.session = d.session /\ w.route = d.route /\ w.sent = d.sent
      /\ w.prev = d.sentPrev /\ w.made = d.made /\ w.known = d.known
  BY <1>7, ViewTyped
<1>10. w = [u EXCEPT !.known = FALSE, !.made = {}]
  BY <1>3, <1>8, <1>9, Cutoff, ZenonT(30)
<1> QED
  BY <1>4, <1>5, <1>6, <1>7, <1>10

\* Whoever restarts the host, or replaces the plugin, starts anew, with what a save knows
\* or with what is known without it.
LEMMA ReplacingStarts ==
  ASSUME HostTypes, Restart \/ Reconfigure
  PROVE  Promise!StartAnew
<1>1. PICK v \in cover \cup {Covering(NoContent)} : Replaces(v)
  BY ReplacingForm
<1>2. PICK w : w = Known(v)
  OBVIOUS
<1>3. w.items = v.items /\ w.last = v.last
  BY <1>2 DEF Known
<1>4. w \in Kept \cup Promise!Known
  BY <1>1, <1>2, CoveringKnown DEF Kept, Known
<1>5. /\ owner' = [i \in Items |->
                     IF owner[i] # Absent /\ i \notin v.items THEN NoRoute ELSE owner[i]]
      /\ last' = [k \in Sessions |->
                    IF last[k] \in {Absent, v.last[k]} THEN last[k] ELSE NoRoute]
      /\ UNCHANGED held /\ Kept' = Kept
  BY <1>1 DEF Replaces, NewStore, Kept
<1>6. \E u \in Kept \cup Promise!Known :
        /\ owner' = [i \in Items |->
                       IF owner[i] # Absent /\ i \notin u.items THEN NoRoute ELSE owner[i]]
        /\ last' = [k \in Sessions |->
                      IF last[k] \in {Absent, u.last[k]} THEN last[k] ELSE NoRoute]
  BY <1>3, <1>4, <1>5
<1>7. CASE \A q \in Requests : call'[q] = Absent
  <2>1. Upstream' = [r \in Requests |-> Absent]
    BY <1>7, UpstreamView, UpstreamRuns
  <2> QED
    BY <1>5, <1>6, <2>1 DEF Promise!StartAnew
<1>8. CASE \A q \in Requests : IF call[q] = Absent THEN call'[q] = Absent
                               ELSE CutOff(v, call[q], call'[q])
  <2>1. ASSUME NEW r \in Requests
        PROVE  Upstream'[r] = IF Upstream[r] = Absent THEN Absent
                              ELSE [Upstream[r] EXCEPT !.known = FALSE, !.made = {}]
    <3>1. CASE call[r] = Absent
      BY <1>8, <3>1, UpstreamView
    <3>2. CASE call[r] # Absent
      <4>1. r \in Running
        BY <3>2 DEF Running
      <4>2. Upstream[r] # Absent
        BY <4>1, UpstreamCall
      <4>3. CutOff(v, call[r], call'[r])
        BY <1>8, <3>2
      <4>4. Upstream'[r] = [Upstream[r] EXCEPT !.known = FALSE, !.made = {}]
        BY <4>1, <4>3, CutOffView
      <4> QED
        BY <4>2, <4>4
    <3> QED
      BY <3>1, <3>2
  <2>2. Upstream' = [r \in Requests |->
                       IF Upstream[r] = Absent THEN Absent
                       ELSE [Upstream[r] EXCEPT !.known = FALSE, !.made = {}]]
    BY <2>1, UpstreamRuns
  <2> QED
    BY <1>5, <1>6, <2>2 DEF Promise!StartAnew
<1> QED
  BY <1>1, <1>7, <1>8 DEF Replaces

\* A client forgets.
LEMMA ForgetForgets ==
  ASSUME HostTypes, NEW k \in Sessions, Forget(k)
  PROVE  Promise!Forget(k)
<1>1. Upstream' = Upstream /\ Kept' = Kept
  BY DEF Forget, Upstream, Kept
<1>2. held' \in {[held EXCEPT ![k] = kept] : kept \in SUBSET held[k]}
  <2>1. ASSUME NEW i \in held[k], held' = [held EXCEPT ![k] = @ \ {i}]
        PROVE  held' \in {[held EXCEPT ![k] = kept] : kept \in SUBSET held[k]}
    BY <2>1
  <2>2. ASSUME UNCHANGED held
        PROVE  held' \in {[held EXCEPT ![k] = kept] : kept \in SUBSET held[k]}
    <3>1. held' = [held EXCEPT ![k] = held[k]]
      BY <2>2 DEF HostTypes
    <3> QED
      BY <3>1
  <2> QED
    BY <2>1, <2>2 DEF Forget
<1>3. last' \in {last, [last EXCEPT ![k] = Absent]}
  BY DEF Forget
<1> QED
  BY <1>1, <1>2, <1>3 DEF Promise!Forget, Forget

\* Every step of the guard is a step of the promise, or none.
LEMMA StepPromised ==
  ASSUME "overlap" \notin Freedoms, CompactionPolicy = "strip", GuardInv,
         [GuardNext]_guardVars
  PROVE  [Promise!SafeNext]_<<owner, held, last, Upstream, Kept>>
<1>1. StoreInv /\ HostInv /\ HostTypes
  BY DEF GuardInv, HostInv
<1>2. ASSUME NEW r \in Requests,
             \/ \E k \in Sessions, route \in HostRoutes : Send(r, k, route)
             \/ \E route \in HostRoutes : Retry(r, route)
      PROVE  Promise!Forward(r)
  <2>1. ASSUME NEW k \in Sessions, NEW route \in HostRoutes, Send(r, k, route)
        PROVE  Promise!Forward(r)
    BY <1>1, <2>1, CandidateForwards
  <2>2. ASSUME NEW route \in HostRoutes, Retry(r, route)
        PROVE  Promise!Forward(r)
    <3>1. call[r] # Absent
      BY <2>2 DEF Retry
    <3>2. PICK k \in Sessions : k = call[r].session
      BY <1>1, <3>1, CallTyped DEF Running
    <3> QED
      BY <1>1, <2>2, <3>2, CandidateForwards
  <2> QED
    BY <1>2, <2>1, <2>2
<1>3. ASSUME NEW r \in Requests, Answer(r) PROVE Promise!Answer(r)
  BY <1>1, <1>3, AnswerAnswers
<1>4. ASSUME NEW r \in Requests, Finish(r) PROVE Promise!End(r) \/ Promise!Abandon(r)
  BY <1>1, <1>4, FinishEnds
<1>5. ASSUME Restart \/ Reconfigure PROVE Promise!StartAnew
  BY <1>1, <1>5, ReplacingStarts
<1>6. ASSUME NEW k \in Sessions, Forget(k) PROVE Promise!Forget(k)
  BY <1>1, <1>6, ForgetForgets
<1>7. ASSUME UNCHANGED hostVars PROVE UNCHANGED <<owner, held, last, Upstream, Kept>>
  BY <1>7 DEF hostVars, Upstream, Kept
<1>8. CASE \E r \in Requests :
             \/ \E k \in Sessions, route \in HostRoutes : Send(r, k, route)
             \/ \E route \in HostRoutes : Retry(r, route)
             \/ Answer(r)
             \/ Finish(r)
  BY <1>2, <1>3, <1>4, <1>8 DEF Promise!SafeNext
<1>9. CASE \E k \in Sessions : Forget(k)
  BY <1>6, <1>9 DEF Promise!SafeNext
<1>10. CASE Restart \/ Reconfigure
  BY <1>5, <1>10 DEF Promise!SafeNext
<1>11. CASE Persist
  BY <1>1, <1>11, PersistRecords DEF Promise!SafeNext
<1>12. CASE UNCHANGED hostVars
  BY <1>7, <1>12
<1> QED
  BY <1>8, <1>9, <1>10, <1>11, <1>12 DEF GuardNext, HostTick, guardVars

\* At the start nothing has been created, nothing runs and nothing is saved.
LEMMA InitPromised == GuardInit => Promise!SafeInit
  BY DEF GuardInit, Promise!SafeInit, Upstream, Kept

\* As long as turns do not overlap, the interceptor and its store keep the promise of
\* SafeForwarding: what a route created goes upstream on that route only, across every
\* interleaving of turns, candidates, answers, completions, failures, invalidations,
\* expiries and evictions (stripRouteBoundState, retiredItemMatches).  Across a restart or
\* a reconfiguration, from a save of any age or from none, that is promised of what had
\* been created by the save.
THEOREM PromiseKept ==
  ASSUME "overlap" \notin Freedoms, CompactionPolicy = "strip"
  PROVE  GuardSpec => KeepsPromise
<1>1. GuardInv /\ [GuardNext]_guardVars =>
        [Promise!SafeNext]_<<owner, held, last, Upstream, Kept>>
  BY StepPromised
<1> QED
  BY InitPromised, GuardKept, <1>1, PTL DEF GuardSpec, KeepsPromise, Promise!SafeSpec,
     Promise!safeVars

-----------------------------------------------------------------------------
(* Taint is cleared when nothing runs.                                     *)

\* The store never loses a request that runs: routes have names, requests end before they
\* expire (cfg.StateTTL), and there is room for all of them (cfg.MaxPending).  Each of the
\* three is needed.
NothingLost ==
  /\ "unknown" \notin Freedoms
  /\ MaxDuration <= StateTTL
  /\ Cardinality(Requests) <= MaxPending

\* What runs upstream, and is not of an earlier store, the store has: as old as it is, and
\* not about to be purged.
RememberedAt(r) ==
  call[r].known =>
    /\ pending[r] # Absent /\ r \notin sweep
    /\ pending[r].session = call[r].session /\ pending[r].observedAt = call[r].since
    /\ now - call[r].since <= MaxDuration
Remembered == \A r \in Running : RememberedAt(r)

\* A candidate on a known route is rejected, or runs and is tracked.
LEMMA CandidateForm ==
  ASSUME TypeOK, NEW r \in Requests, NEW k \in Sessions, NEW route \in Routes,
         NEW items \in SUBSET Items, NEW prev \in Routes \cup {NoRoute, Absent},
         Intercept(r, k, route, items, prev)
  PROVE  /\ UNCHANGED <<owner, held, last, cover>>
         /\ \/ /\ call' = [call EXCEPT ![r] = Absent]
               /\ \E payload \in Payloads : PrepareRejected(r, k, route, payload)
            \/ /\ \E c \in CallRec : /\ call' = [call EXCEPT ![r] = c]
                                     /\ c.session = k /\ c.since = now
               /\ Tracks(r, k, route)
<1> DEFINE payload == [items |-> items, prev |-> prev # Absent]
           session == IF route = NoRoute THEN Blank ELSE Observed(r, k, route)
           sent == Forwarded(session, route, payload)
           sentPrev == IF Strips(session, route, payload) THEN Absent ELSE prev
           c == [session |-> k, route |-> route, since |-> now, answered |-> FALSE,
                 known |-> TRUE, made |-> {}, items |-> items, prev |-> prev,
                 sent |-> sent, sentPrev |-> sentPrev]
<1>1. payload \in Payloads /\ route # NoRoute /\ now \in Nat
  BY ConstantsAssumption, TypeOKParts DEF Payloads
<1>2. session = Observed(r, k, route)
  BY <1>1
<1>3. /\ PrepareRejected(r, k, route, payload) \/ PrepareTracked(r, k, route, payload)
      /\ call' = [call EXCEPT ![r] = IF Rejects(session, route, payload) THEN Absent ELSE c]
      /\ UNCHANGED <<owner, held, last, cover>>
  BY <1>1 DEF Intercept
<1>4. sent \in SUBSET Items
  BY DEF Forwarded
<1>5. sentPrev \in Routes \cup {NoRoute, Absent}
  OBVIOUS
<1> HIDE DEF payload, session, sent, sentPrev
<1>6. c \in CallRec /\ c.session = k /\ c.since = now
  BY <1>1, <1>4, <1>5 DEF CallRec
<1> HIDE DEF c
<1>7. CASE PrepareRejected(r, k, route, payload)
  <2>1. Rejects(session, route, payload)
    BY <1>2, <1>7 DEF PrepareRejected
  <2> QED
    BY <1>1, <1>3, <1>7, <2>1
<1>8. CASE PrepareTracked(r, k, route, payload)
  <2>1. ~Rejects(session, route, payload)
    BY <1>2, <1>8 DEF PrepareTracked
  <2>2. Tracks(r, k, route)
    BY <1>1, <1>8, TrackedTracks
  <2> QED
    BY <1>3, <1>6, <2>1, <2>2
<1> QED
  BY <1>3, <1>7, <1>8

\* With room for every request, a new one evicts none (trimPendingLocked).
LEMMA RoomToTrack ==
  ASSUME NothingLost, TypeOK, NEW r \in Requests, NEW k, NEW route, Tracks(r, k, route)
  PROVE  \E p \in PendingRec : /\ pending' = [pending EXCEPT ![r] = p]
                               /\ p.session = k /\ p.observedAt = now
<1>1. PICK p \in PendingRec :
        p.session = k /\ p.observedAt = now /\ \E ss : Track(r, p, ss)
  BY DEF Tracks
<1> DEFINE pend == [pending EXCEPT ![r] = p]
<1>2. Used(pend) \in SUBSET Requests
  BY DEF Used
<1>3. Cardinality(Used(pend)) <= Cardinality(Requests)
  BY <1>2, FS_Subset, ConstantsAssumption
<1>4. Cardinality(Used(pend)) \in Nat /\ Cardinality(Requests) \in Nat /\ MaxPending \in Nat
  BY <1>2, FS_Subset, FS_CardinalityType, ConstantsAssumption, BoundsAssumption
<1>5. Cardinality(Used(pend)) <= MaxPending
  BY <1>3, <1>4 DEF NothingLost
<1> QED
  BY <1>1, <1>5 DEF Track

\* An answer changes nothing of a call that the store knows of.
LEMMA AnswerSame ==
  ASSUME HostTypes, NEW r \in Requests, Answer(r)
  PROVE  /\ HostTypes' /\ UNCHANGED stateVars
         /\ Running' = Running
         /\ \A q \in Running : /\ call'[q].session = call[q].session
                               /\ call'[q].since = call[q].since
                               /\ call'[q].known = call[q].known
<1>1. UNCHANGED stateVars /\ r \in Running
  BY DEF Answer, Running
<1>2. PICK c \in CallRec : c = call[r]
  BY <1>1, CallTyped
<1> DEFINE by == IF c.known THEN c.route ELSE NoRoute
<1>3. c.session \in Sessions /\ by \in Routes \cup {NoRoute}
  BY DEF CallRec
<1>4. \E name \in {by, Absent} : last' = [last EXCEPT ![c.session] = name]
  BY <1>2 DEF Answer
<1>5. last' \in [Sessions -> Routes \cup {NoRoute, Absent}]
  BY <1>3, <1>4 DEF HostTypes
<1>6. \/ call' = [call EXCEPT ![r].answered = TRUE] /\ UNCHANGED <<owner, held>>
      \/ \E i \in Items : /\ owner' = [owner EXCEPT ![i] = by]
                          /\ held' = [held EXCEPT ![c.session] = @ \cup {i}]
                          /\ call' = [call EXCEPT ![r].answered = TRUE, ![r].made = {i}]
  BY <1>2 DEF Answer
<1> HIDE DEF by
<1>7. /\ owner' \in [Items -> Routes \cup {NoRoute, Absent}]
      /\ held' \in [Sessions -> SUBSET Items]
  BY <1>3, <1>6 DEF HostTypes
<1>8. PICK d \in CallRec : /\ call' = [call EXCEPT ![r] = d]
                           /\ d.session = c.session /\ d.since = c.since /\ d.known = c.known
  <2>1. CASE call' = [call EXCEPT ![r].answered = TRUE]
    <3> DEFINE d == [c EXCEPT !.answered = TRUE]
    <3>1. call' = [call EXCEPT ![r] = d]
      BY <1>2, <2>1
    <3>2. /\ d \in CallRec
          /\ d.session = c.session /\ d.since = c.since /\ d.known = c.known
      BY DEF CallRec
    <3> QED
      BY <3>1, <3>2
  <2>2. ASSUME NEW i \in Items, call' = [call EXCEPT ![r].answered = TRUE, ![r].made = {i}]
        PROVE  \E d \in CallRec :
                 /\ call' = [call EXCEPT ![r] = d]
                 /\ d.session = c.session /\ d.since = c.since /\ d.known = c.known
    <3> DEFINE d == [c EXCEPT !.answered = TRUE, !.made = {i}]
    <3>1. call' = [call EXCEPT ![r] = d]
      BY <1>2, <2>2 DEF HostTypes
    <3>2. /\ d \in CallRec
          /\ d.session = c.session /\ d.since = c.since /\ d.known = c.known
      BY DEF CallRec
    <3> QED
      BY <3>1, <3>2
  <2> QED
    BY <1>6, <2>1, <2>2
<1>9. /\ call' \in [Requests -> CallRec \cup {Absent}]
      /\ call'[r] = d /\ d # Absent
      /\ \A q \in Requests \ {r} : call'[q] = call[q]
  BY <1>8, AbsentCallAssumption DEF HostTypes
<1>10. HostTypes'
  BY <1>5, <1>7, <1>9 DEF HostTypes
<1>11. Running' = Running
  BY <1>1, <1>9 DEF Running
<1>12. \A q \in Running : /\ call'[q].session = call[q].session
                          /\ call'[q].since = call[q].since
                          /\ call'[q].known = call[q].known
  BY <1>2, <1>8, <1>9 DEF Running
<1> QED
  BY <1>1, <1>10, <1>11, <1>12

\* The mutex held or not, a request that ends takes only itself with it.
LEMMA EndTakesOne ==
  ASSUME TypeOK, NEW r \in Requests, Finish(r)
  PROVE  /\ pending' = pending \/ pending' = PendingWithout(r)
         /\ sweep' = sweep /\ now' = now
<1>1. CASE CompleteSucceeded(r)
  BY <1>1, SucceededForm
<1>2. CASE CompleteFailed(r)
  BY <1>2 DEF CompleteFailed
<1>3. CASE CompleteInvalid(r)
  BY <1>3, InvalidForm
<1>4. CASE UNCHANGED stateVars
  BY <1>4 DEF stateVars, vars
<1> QED
  BY <1>1, <1>2, <1>3, <1>4 DEF Finish

\* Disowning keeps types.
LEMMA DisownTypes ==
  ASSUME HostTypes, NEW R, Disown(R)
  PROVE  /\ owner' \in [Items -> Routes \cup {NoRoute, Absent}]
         /\ last' \in [Sessions -> Routes \cup {NoRoute, Absent}]
BY DEF Disown, LastWithout, HostTypes

\* A candidate is remembered, and makes the store forget no other request.
LEMMA CandidateRemembers ==
  ASSUME NothingLost, TypeOK, HostTypes, Remembered,
         NEW r \in Requests, NEW k \in Sessions, NEW route \in Routes,
         NEW items \in SUBSET Items, NEW prev \in Routes \cup {NoRoute, Absent},
         Intercept(r, k, route, items, prev)
  PROVE  HostTypes' /\ Remembered'
<1>1. PICK c \in CallRec \cup {Absent} : call' = [call EXCEPT ![r] = c]
  BY CandidateForm
<1>2. call'[r] = c /\ (\A q \in Requests \ {r} : call'[q] = call[q]) /\ HostTypes'
  BY <1>1, CandidateForm DEF HostTypes
<1>3. /\ now' = now /\ sweep' = {}
      /\ \A q \in Requests \ {r} : pending'[q] = pending[q]
  <2>1. CASE \E payload \in Payloads : PrepareRejected(r, k, route, payload)
    <3>1. pending' = PendingWithout(r) /\ sweep = {} /\ sweep' = sweep /\ now' = now
      BY <2>1, RejectedForm, ConstantsAssumption
    <3> QED
      BY <3>1, TypeOKParts DEF PendingWithout, PendingMap
  <2>2. CASE Tracks(r, k, route)
    <3>1. \E p \in PendingRec : pending' = [pending EXCEPT ![r] = p]
      BY <2>2, RoomToTrack
    <3>2. now' = now /\ sweep' = {}
      BY <2>2 DEF Tracks
    <3> QED
      BY <3>1, <3>2, TypeOKParts DEF PendingMap
  <2> QED
    BY <2>1, <2>2, CandidateForm
<1>4. ASSUME NEW q \in Requests \ {r}, q \in Running'
      PROVE  RememberedAt(q)'
  <2>1. q \in Running /\ RememberedAt(q)
    BY <1>2, <1>4 DEF Running, Remembered
  <2> QED
    BY <1>2, <1>3, <2>1 DEF RememberedAt
<1>5. ASSUME r \in Running'
      PROVE  RememberedAt(r)'
  <2>1. call'[r] # Absent
    BY <1>5 DEF Running
  <2>2. Tracks(r, k, route) /\ call'[r].session = k /\ call'[r].since = now
    <3>1. call' # [call EXCEPT ![r] = Absent]
      BY <2>1 DEF HostTypes
    <3>2. PICK d \in CallRec : /\ call' = [call EXCEPT ![r] = d]
                               /\ d.session = k /\ d.since = now
      BY <3>1, CandidateForm
    <3>3. call'[r] = d
      BY <3>2 DEF HostTypes
    <3> QED
      BY <3>1, <3>2, <3>3, CandidateForm
  <2>3. PICK p \in PendingRec : /\ pending' = [pending EXCEPT ![r] = p]
                                /\ p.session = k /\ p.observedAt = now
    BY <2>2, RoomToTrack
  <2>4. pending'[r] = p /\ p # Absent
    BY <2>3, TypeOKParts, AbsentAssumption DEF PendingMap
  <2>5. now' - now <= MaxDuration
    BY <1>3, TypeOKParts, EnvironmentAssumption
  <2> QED
    BY <1>3, <2>2, <2>3, <2>4, <2>5 DEF RememberedAt
<1> QED
  BY <1>2, <1>4, <1>5 DEF Remembered, Running

\* As does the end of a request.
LEMMA FinishRemembers ==
  ASSUME TypeOK, HostTypes, Remembered, NEW r \in Requests, Finish(r)
  PROVE  HostTypes' /\ Remembered'
<1>1. /\ call'[r] = Absent /\ (\A q \in Requests \ {r} : call'[q] = call[q])
      /\ call' \in [Requests -> CallRec \cup {Absent}] /\ UNCHANGED held
  BY DEF Finish, HostTypes
<1>2. UNCHANGED <<owner, last>> \/ Disown({r})
  BY DEF Finish
<1>3. HostTypes'
  BY <1>1, <1>2, DisownTypes DEF HostTypes
<1>4. /\ sweep' = sweep /\ now' = now
      /\ \A q \in Requests \ {r} : pending'[q] = pending[q]
  <2>1. pending' = PendingWithout(r) => \A q \in Requests \ {r} : pending'[q] = pending[q]
    BY TypeOKParts DEF PendingWithout, PendingMap
  <2> QED
    BY <2>1, EndTakesOne
<1>5. ASSUME NEW q \in Running'
      PROVE  RememberedAt(q)'
  <2>1. q \in Requests \ {r} /\ q \in Running
    BY <1>1, <1>5 DEF Running
  <2> QED
    BY <1>1, <1>4, <2>1 DEF Remembered, RememberedAt
<1> QED
  BY <1>3, <1>5 DEF Remembered

\* No purge finds an expired request that runs (purgeExpiredLocked).
LEMMA PurgeRemembers ==
  ASSUME NothingLost, TypeOK, Remembered, UNCHANGED hostVars,
         Sweep \/ \E r \in Requests : ExpirePending(r)
  PROVE  Remembered'
<1> SUFFICES ASSUME NEW q \in Running, call[q].known
             PROVE  /\ pending'[q] = pending[q] /\ q \notin sweep' /\ now' = now
  BY DEF Remembered, RememberedAt, Running, hostVars
<1>1. /\ pending[q] # Absent /\ q \notin sweep /\ q \in Requests
      /\ now - pending[q].observedAt <= MaxDuration
  BY DEF Remembered, RememberedAt, Running
<1>2. CASE Sweep
  <2>1. pending[q].observedAt \in Int /\ now \in Int
    BY <1>1, TypeOKParts DEF PendingMap, PendingRec
  <2>2. ~(now - pending[q].observedAt > StateTTL)
    BY <1>1, <2>1, BoundsAssumption, EnvironmentAssumption DEF NothingLost
  <2>3. sweep' = {r \in Used(pending) : now - pending[r].observedAt > StateTTL}
        /\ UNCHANGED <<pending, now>>
    BY <1>2 DEF Sweep
  <2> QED
    BY <2>2, <2>3
<1>3. ASSUME NEW r \in Requests, ExpirePending(r)
      PROVE  pending'[q] = pending[q] /\ q \notin sweep' /\ now' = now
  <2>1. r \in sweep /\ sweep' = sweep \ {r} /\ pending' = PendingWithout(r) /\ now' = now
    BY <1>3 DEF ExpirePending
  <2> QED
    BY <1>1, <2>1, TypeOKParts DEF PendingWithout, PendingMap
<1> QED
  BY <1>2, <1>3

\* Time passes, but for no request beyond MaxDuration.
LEMMA TickRemembers ==
  ASSUME TypeOK, HostTypes, Remembered, HostTick
  PROVE  Remembered'
<1> SUFFICES ASSUME NEW q \in Running PROVE RememberedAt(q)'
  BY DEF Remembered, Running, HostTick, hostVars
<1>1. /\ UNCHANGED <<pending, sweep, call>> /\ now' = now + 1
      /\ now - call[q].since < MaxDuration
  BY DEF HostTick, Tick, hostVars
<1>2. now \in Int /\ call[q].since \in Int /\ MaxDuration \in Int
  BY CallTyped, TypeOKParts, EnvironmentAssumption DEF CallRec
<1>3. now' - call[q].since <= MaxDuration
  BY <1>1, <1>2
<1> QED
  BY <1>1, <1>3 DEF Remembered, RememberedAt

\* A new store remembers nothing, but nothing is left that it should.
LEMMA ReplacingRemembers ==
  ASSUME HostTypes, Restart \/ Reconfigure
  PROVE  HostTypes' /\ Remembered'
<1>1. PICK v \in cover \cup {Covering(NoContent)} : Replaces(v)
  BY ReplacingForm
<1>2. HostTypes'
  BY <1>1, ReplacedFades
<1>3. \A q \in Running' : CutOff(v, call[q], call'[q])
  BY <1>1, ReplacedFades
<1>4. \A q \in Running' : ~call'[q].known
  BY <1>3 DEF CutOff
<1> QED
  BY <1>2, <1>4 DEF Remembered, RememberedAt

\* Whatever happens, overlapping turns included, the store remembers what runs.
LEMMA StepRemembered ==
  ASSUME NothingLost, TypeOK, HostTypes, Remembered, Saved, [GuardNext]_guardVars
  PROVE  HostTypes' /\ Remembered' /\ [Next]_stateVars
<1>1. HostRoutes = Routes
  BY DEF HostRoutes, NothingLost
<1>2. ASSUME NEW r \in Requests, NEW k \in Sessions, NEW route \in Routes,
             NEW items \in SUBSET Items, NEW prev \in Routes \cup {NoRoute, Absent},
             Intercept(r, k, route, items, prev)
      PROVE  HostTypes' /\ Remembered' /\ [Next]_stateVars
  BY <1>2, CandidateRemembers, InterceptPrepares
<1>3. ASSUME NEW r \in Requests, NEW k \in Sessions, NEW route \in HostRoutes,
             Send(r, k, route)
      PROVE  HostTypes' /\ Remembered' /\ [Next]_stateVars
  <2>1. PICK prev \in {Absent} \cup (IF "response" \in Freedoms THEN {last[k]} ELSE {}) :
          Intercept(r, k, route, held[k], prev)
    BY <1>3 DEF Send
  <2>2. held[k] \in SUBSET Items /\ prev \in Routes \cup {NoRoute, Absent} /\ route \in Routes
    BY <1>1, <2>1 DEF HostTypes
  <2> QED
    BY <1>2, <2>1, <2>2
<1>4. ASSUME NEW r \in Requests, NEW route \in HostRoutes, Retry(r, route)
      PROVE  HostTypes' /\ Remembered' /\ [Next]_stateVars
  <2>1. r \in Running /\ Intercept(r, call[r].session, route, call[r].items, call[r].prev)
    BY <1>4 DEF Retry, Running
  <2>2. /\ call[r].session \in Sessions /\ call[r].items \in SUBSET Items
        /\ call[r].prev \in Routes \cup {NoRoute, Absent} /\ route \in Routes
    BY <1>1, <2>1, CallTyped
  <2> QED
    BY <1>2, <2>1, <2>2
<1>5. ASSUME NEW r \in Requests, Answer(r)
      PROVE  HostTypes' /\ Remembered' /\ [Next]_stateVars
  <2>1. /\ HostTypes' /\ UNCHANGED stateVars /\ Running' = Running
        /\ \A q \in Running : /\ call'[q].session = call[q].session
                              /\ call'[q].since = call[q].since
                              /\ call'[q].known = call[q].known
    BY <1>5, AnswerSame
  <2>2. \A q \in Running : RememberedAt(q)'
    BY <2>1 DEF Remembered, RememberedAt, stateVars, vars
  <2> QED
    BY <2>1, <2>2 DEF Remembered
<1>6. ASSUME NEW r \in Requests, Finish(r)
      PROVE  HostTypes' /\ Remembered' /\ [Next]_stateVars
  <2>1. [Next]_stateVars
    BY <1>6 DEF Finish, Next, Complete
  <2> QED
    BY <1>6, <2>1, FinishRemembers
<1>7. ASSUME NEW k \in Sessions, Forget(k)
      PROVE  HostTypes' /\ Remembered' /\ [Next]_stateVars
  <2>1. UNCHANGED stateVars /\ UNCHANGED <<owner, call>>
    BY <1>7 DEF Forget
  <2>2. /\ held' \in [Sessions -> SUBSET Items]
        /\ last' \in [Sessions -> Routes \cup {NoRoute, Absent}]
    BY <1>7 DEF Forget, HostTypes
  <2>3. HostTypes'
    BY <2>1, <2>2 DEF HostTypes
  <2>4. Remembered'
    BY <2>1 DEF Remembered, RememberedAt, Running, stateVars, vars
  <2> QED
    BY <2>1, <2>3, <2>4
<1>8. ASSUME Restart \/ Reconfigure
      PROVE  HostTypes' /\ Remembered' /\ [Next]_stateVars
  <2>1. Next
    BY <1>8, ReplacingReopens DEF Next
  <2> QED
    BY <1>8, <2>1, ReplacingRemembers
<1>9. ASSUME Sweep \/ (\E r \in Requests : ExpirePending(r)), UNCHANGED hostVars
      PROVE  HostTypes' /\ Remembered' /\ [Next]_stateVars
  <2>1. HostTypes' /\ Next
    BY <1>9 DEF HostTypes, hostVars, Next
  <2> QED
    BY <1>9, <2>1, PurgeRemembers
<1>10. ASSUME HostTick
       PROVE  HostTypes' /\ Remembered' /\ [Next]_stateVars
  <2>1. HostTypes' /\ Next
    BY <1>10 DEF HostTick, HostTypes, hostVars, Next
  <2> QED
    BY <1>10, <2>1, TickRemembers
<1>11. ASSUME UNCHANGED guardVars
       PROVE  HostTypes' /\ Remembered' /\ [Next]_stateVars
  <2>1. HostTypes' /\ UNCHANGED stateVars
    BY <1>11 DEF guardVars, hostVars, HostTypes
  <2>2. Remembered'
    BY <1>11 DEF guardVars, hostVars, stateVars, vars, Remembered, RememberedAt, Running
  <2> QED
    BY <2>1, <2>2
<1>12. ASSUME Persist
       PROVE  HostTypes' /\ Remembered' /\ [Next]_stateVars
  <2>1. HostTypes' /\ Next
    BY <1>12 DEF Persist, HostTypes, Next
  <2>2. Remembered'
    BY <1>12 DEF Persist, Save, vars, Remembered, RememberedAt, Running
  <2> QED
    BY <2>1, <2>2
<1> QED
  BY <1>3, <1>4, <1>5, <1>6, <1>7, <1>8, <1>9, <1>10, <1>11, <1>12 DEF GuardNext

\* Nothing runs at the start.
LEMMA InitRemembered == GuardInit => HostTypes /\ Remembered
  BY DEF GuardInit, HostTypes, Remembered, Running

\* When a conversation leaves taint, the store has no other request of it, and so none runs:
\* a store that has just been opened has none at all.
LEMMA StepAlone ==
  ASSUME TypeOK, IndexExact, [Next]_stateVars, Remembered', NEW k \in Sessions, Stays(k),
         sessions[k].tainted, ~sessions'[k].tainted
  PROVE  \A r \in Requests : call'[r] # Absent /\ call'[r].known => call'[r].session # k
<1>1. PendingIn(pending', k) = {}
  <2>1. CASE Reopen
    BY <2>1 DEF Reopen, Load, PendingIn
  <2>2. CASE ~Reopen
    BY <2>2, StepTaintCleared
  <2> QED
    BY <2>1, <2>2
<1> QED
  BY <1>1 DEF PendingIn, Remembered, RememberedAt, Running

\* A tainted conversation becomes reusable only when none of its requests runs upstream,
\* however turns overlap, candidates are retried, and whatever fails late or is invalidated
\* meanwhile (complete), as long as the store loses no request that runs.
THEOREM ReusableAlone ==
  ASSUME NothingLost
  PROVE  GuardSpec => ReusableOnlyAlone
<1> DEFINE Inv == TypeOK /\ IndexExact /\ HostTypes /\ Remembered /\ Saved
<1>1. GuardInit => Inv
  BY InitRemembered, InitType, InitExact DEF GuardInit, Saved
<1>2. Inv /\ [GuardNext]_guardVars => Inv' /\ [Next]_stateVars
  BY StepRemembered, StepType, StepExact, StepSaved
<1>3. Inv /\ Inv' /\ [GuardNext]_guardVars =>
        [\A k \in Sessions :
           /\ Stays(k)
           /\ sessions[k].tainted
           /\ ~sessions'[k].tainted
           => \A r \in Requests :
                call'[r] # Absent /\ call'[r].known => call'[r].session # k]_guardVars
  BY <1>2, StepAlone
<1> HIDE DEF Inv
<1> QED
  BY <1>1, <1>2, <1>3, PTL DEF GuardSpec, ReusableOnlyAlone
=============================================================================
