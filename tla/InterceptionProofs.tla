------------------------- MODULE InterceptionProofs --------------------------
(***************************************************************************)
(* Theorems about Interception, for any number of requests, plugin         *)
(* objects, candidates and completions: types, TrailOnce, RecordIsLatest,  *)
(* Ledger and CompletedOnce.                                               *)
(***************************************************************************)
EXTENDS Interception, FiniteSetTheorems, WellFoundedInduction, TLAPS

\* A completion that was told of a request belongs to it; only one that has taken a
\* record holds one; candidates are numbered as they are tried.
CallsBelong ==
    \A c \in Notices :
        /\ ccall[c].at \in {"told", "taken"} => ccall[c].r \in Requests
        /\ ccall[c].record # NoRecord => ccall[c].at = "taken"
Numbered == \A r \in Requests : icall[r].n <= tried /\ (Working(r) => icall[r].n > 0)
TypeInv == TypeOK /\ CallsBelong /\ Numbered

Phases == {"idle", "observed", "begun", "failing", "counted", "logged"}

-----------------------------------------------------------------------------
(* What the actions write.                                                 *)

\* A call that goes on keeps its plugin object and candidate; other calls stay.
LEMMA GoesOn ==
    ASSUME TypeInv, NEW r \in Requests, NEW at \in Phases, NEW outcome \in Outcomes,
           NEW stamp \in Nat, icall' = Goes(r, at, outcome, stamp), tried' = tried,
           Working(r)
    PROVE  /\ icall' \in [Requests -> InterceptRec]
           /\ icall'[r] = [at |-> at, p |-> icall[r].p, n |-> icall[r].n,
                           outcome |-> outcome, stamp |-> stamp]
           /\ \A q \in Requests \ {r} : icall'[q] = icall[q]
           /\ Numbered'
  <1>1. icall \in [Requests -> InterceptRec]
    BY DEF TypeInv, TypeOK
  <1>2. icall[r].p \in Plugins /\ icall[r].n \in 0..MaxCandidates
    BY <1>1 DEF InterceptRec
  <1>3. [at |-> at, p |-> icall[r].p, n |-> icall[r].n, outcome |-> outcome, stamp |-> stamp]
            \in InterceptRec
    BY <1>2 DEF InterceptRec, Phases
  <1>4. /\ icall' \in [Requests -> InterceptRec]
        /\ icall'[r] = [at |-> at, p |-> icall[r].p, n |-> icall[r].n,
                        outcome |-> outcome, stamp |-> stamp]
        /\ \A q \in Requests \ {r} : icall'[q] = icall[q]
    BY <1>1, <1>3 DEF Goes
  <1>5. \A q \in Requests : icall'[q].n = icall[q].n
    BY <1>4
  <1>6. \A q \in Requests : icall'[q].n <= tried' /\ (icall'[q].at # "idle" => icall'[q].n > 0)
    BY <1>4, <1>5 DEF TypeInv, Numbered, Working
  <1>7. QED
    BY <1>4, <1>6 DEF Numbered, Working

\* Records are written for one request, or taken from it.
LEMMA RecordsTyped ==
    ASSUME TypeInv, NEW p \in Plugins, NEW r \in Requests
    PROVE  /\ [records EXCEPT ![p][r] = NoRecord] \in [Plugins -> [Requests -> Record \cup {NoRecord}]]
           /\ [records EXCEPT ![p][r] = NoRecord][p][r] = NoRecord
           /\ \A p1 \in Plugins, q \in Requests :
                p1 # p \/ q # r => [records EXCEPT ![p][r] = NoRecord][p1][q] = records[p1][q]
  BY DEF TypeInv, TypeOK

LEMMA CountersTyped ==
    ASSUME TypeInv, NEW p \in Plugins
    PROVE  /\ [counters EXCEPT ![p].observed = @ + 1]
                \in [Plugins -> [observed : Nat, outcomes : Nat, completed : Nat]]
           /\ [counters EXCEPT ![p].outcomes = @ + 1]
                \in [Plugins -> [observed : Nat, outcomes : Nat, completed : Nat]]
           /\ [counters EXCEPT ![p].completed = @ + 1]
                \in [Plugins -> [observed : Nat, outcomes : Nat, completed : Nat]]
  <1> counters \in [Plugins -> [observed : Nat, outcomes : Nat, completed : Nat]]
    BY DEF TypeInv, TypeOK
  <1>1. /\ [counters[p] EXCEPT !.observed = @ + 1] \in [observed : Nat, outcomes : Nat, completed : Nat]
        /\ [counters[p] EXCEPT !.outcomes = @ + 1] \in [observed : Nat, outcomes : Nat, completed : Nat]
        /\ [counters[p] EXCEPT !.completed = @ + 1] \in [observed : Nat, outcomes : Nat, completed : Nat]
    OBVIOUS
  <1>2. QED
    BY <1>1

\* A call and its plugin object.
LEMMA CallTyped ==
    ASSUME TypeInv, NEW r \in Requests
    PROVE  /\ icall[r].p \in Plugins /\ icall[r].outcome \in Outcomes
           /\ icall[r].n \in 0..MaxCandidates /\ icall[r].stamp \in Nat
           /\ Working(r) => icall[r].n \in 1..MaxCandidates
  <1>1. icall[r] \in InterceptRec
    BY DEF TypeInv, TypeOK
  <1>2. /\ icall[r].p \in Plugins /\ icall[r].outcome \in Outcomes
        /\ icall[r].n \in 0..MaxCandidates /\ icall[r].stamp \in Nat
    BY <1>1 DEF InterceptRec
  <1>3. Working(r) => icall[r].n > 0
    BY DEF TypeInv, Numbered
  <1>4. QED
    BY <1>2, <1>3, InterceptionAssumption

LEMMA NoticeTyped ==
    ASSUME TypeInv, NEW c \in Notices
    PROVE  /\ ccall[c] \in CompleteRec
           /\ ccall[c].p \in Plugins /\ ccall[c].was \in BOOLEAN
           /\ ccall[c].record \in Record \cup {NoRecord}
           /\ ccall[c].at \in {"told", "taken"} => ccall[c].r \in Requests
           /\ ccall[c].record # NoRecord => ccall[c].at = "taken" /\ ccall[c].r \in Requests
  <1>1. ccall[c] \in CompleteRec
    BY DEF TypeInv, TypeOK
  <1>2. QED
    BY <1>1 DEF CompleteRec, TypeInv, CallsBelong

-----------------------------------------------------------------------------
(* Types.                                                                  *)

CountersType == [Plugins -> [observed : Nat, outcomes : Nat, completed : Nat]]
RecordsType == [Plugins -> [Requests -> Record \cup {NoRecord}]]

LEMMA TypeInit == Init => TypeInv
  <1> SUFFICES ASSUME Init PROVE TypeInv
    OBVIOUS
  <1>1. First \in Plugins /\ MaxCandidates \in Nat /\ Nobody \notin Requests
    BY InterceptionAssumption
  <1>2. icall \in [Requests -> InterceptRec]
    BY <1>1 DEF Init, InterceptRec, Outcomes
  <1>3. NoCall \in CompleteRec
    BY <1>1 DEF NoCall, CompleteRec
  <1>4. ccall \in [Notices -> CompleteRec]
    BY <1>3 DEF Init
  <1>5. counters \in CountersType
    BY DEF Init, NoCounts, CountersType
  <1>6. TypeOK
    BY <1>1, <1>2, <1>4, <1>5 DEF Init, TypeOK, CountersType
  <1>7. CallsBelong
    BY DEF Init, CallsBelong, NoCall
  <1>8. Numbered
    BY DEF Init, Numbered, Working
  <1>9. QED
    BY <1>6, <1>7, <1>8 DEF TypeInv

LEMMA ObserveTypes ==
    ASSUME TypeInv, NEW r \in Requests, Observe(r)
    PROVE  TypeInv'
  <1> DEFINE new == [at |-> "observed", p |-> plugin, n |-> tried + 1,
                     outcome |-> "pass", stamp |-> 0]
  <1>1. tried + 1 \in 0..MaxCandidates /\ tried \in Nat /\ plugin \in Plugins
    BY InterceptionAssumption DEF TypeInv, TypeOK, Observe
  <1>2. new \in InterceptRec /\ new.at # "idle" /\ new.n = tried + 1
    BY <1>1 DEF InterceptRec, Outcomes
  <1>3. icall' = [icall EXCEPT ![r] = new] /\ tried' = tried + 1
    BY DEF Observe
  <1>4. icall \in [Requests -> InterceptRec]
    BY DEF TypeInv, TypeOK
  <1> HIDE DEF new
  <1>5. icall' \in [Requests -> InterceptRec]
    BY <1>2, <1>3, <1>4
  <1>6. icall'[r] = new /\ \A q \in Requests \ {r} : icall'[q] = icall[q]
    BY <1>3, <1>4
  <1>7. \A q \in Requests : icall[q].n \in 0..MaxCandidates
    BY CallTyped
  <1>8. Numbered'
    BY <1>1, <1>2, <1>3, <1>6, <1>7 DEF TypeInv, Numbered, Working
  <1>9. counters' \in CountersType
    BY <1>1, CountersTyped DEF Observe, CountersType
  <1>10. TypeOK'
    BY <1>1, <1>3, <1>5, <1>9 DEF TypeInv, TypeOK, Observe, CountersType
  <1>11. CallsBelong'
    BY DEF TypeInv, CallsBelong, Observe
  <1>12. QED
    BY <1>8, <1>10, <1>11 DEF TypeInv

LEMMA BeginTypes ==
    ASSUME TypeInv, NEW r \in Requests, BeginRequest(r)
    PROVE  TypeInv'
  <1>1. /\ icall' = Goes(r, "begun", "pass", 0) /\ tried' = tried
        /\ "begun" \in Phases /\ "pass" \in Outcomes /\ 0 \in Nat /\ Working(r)
    BY DEF BeginRequest, Phases, Outcomes, Working
  <1>2. icall' \in [Requests -> InterceptRec] /\ Numbered'
    BY <1>1, GoesOn
  <1>3. records' \in RecordsType
    BY CallTyped, RecordsTyped DEF BeginRequest, RecordsType
  <1>4. TypeOK'
    BY <1>2, <1>3 DEF TypeInv, TypeOK, BeginRequest, RecordsType
  <1>5. CallsBelong'
    BY DEF TypeInv, CallsBelong, BeginRequest
  <1>6. QED
    BY <1>2, <1>4, <1>5 DEF TypeInv

LEMMA DecideTypes ==
    ASSUME TypeInv, NEW r \in Requests, Decide(r)
    PROVE  TypeInv'
  <1>1. PICK outcome \in Outcomes : icall' = Goes(r, After(outcome), outcome, 0)
    BY DEF Decide
  <1>2. After(outcome) \in Phases
    BY DEF After, Phases
  <1>3. tried' = tried /\ Working(r) /\ 0 \in Nat
    BY DEF Decide, Working
  <1>4. icall' \in [Requests -> InterceptRec] /\ Numbered'
    BY <1>1, <1>2, <1>3, GoesOn
  <1>5. icall[r].p \in Plugins
    BY CallTyped
  <1>6. counters' = [counters EXCEPT ![icall[r].p].outcomes = @ + 1]
    BY DEF Decide
  <1>7. counters' \in CountersType
    BY <1>5, <1>6, CountersTyped DEF CountersType
  <1>8. tracked' \in [Plugins -> SUBSET Requests]
    <2>1. PICK o \in Outcomes : \E after \in Tracks(o, tracked[icall[r].p], r) :
              tracked' = [tracked EXCEPT ![icall[r].p] = after]
      BY DEF Decide
    <2>2. PICK after \in Tracks(o, tracked[icall[r].p], r) :
              tracked' = [tracked EXCEPT ![icall[r].p] = after]
      BY <2>1
    <2>3. tracked \in [Plugins -> SUBSET Requests]
      BY DEF TypeInv, TypeOK
    <2>4. after \in SUBSET Requests
      BY <1>5, <2>3 DEF Tracks
    <2>5. QED
      BY <2>2, <2>3, <2>4
  <1>9. TypeOK'
    BY <1>4, <1>7, <1>8 DEF TypeInv, TypeOK, Decide, CountersType
  <1>10. CallsBelong'
    BY DEF TypeInv, CallsBelong, Decide
  <1>11. QED
    BY <1>4, <1>9, <1>10 DEF TypeInv

LEMMA DiscardTypes ==
    ASSUME TypeInv, NEW r \in Requests, Discard(r)
    PROVE  TypeInv'
  <1>1. /\ icall' = Goes(r, "counted", icall[r].outcome, 0) /\ tried' = tried
        /\ "counted" \in Phases /\ icall[r].outcome \in Outcomes /\ 0 \in Nat /\ Working(r)
    BY CallTyped DEF Discard, Phases, Working
  <1>2. icall' \in [Requests -> InterceptRec] /\ Numbered'
    BY <1>1, GoesOn
  <1>3. tracked' \in [Plugins -> SUBSET Requests]
    BY DEF TypeInv, TypeOK, Discard
  <1>4. TypeOK'
    BY <1>2, <1>3 DEF TypeInv, TypeOK, Discard
  <1>5. CallsBelong'
    BY DEF TypeInv, CallsBelong, Discard
  <1>6. QED
    BY <1>2, <1>4, <1>5 DEF TypeInv

LEMMA LogActionTypes ==
    ASSUME TypeInv, NEW r \in Requests, LogAction(r)
    PROVE  TypeInv'
  <1>0. clock \in Nat /\ trail \in [Requests -> Seq(Line)]
    BY DEF TypeInv, TypeOK
  <1>1. /\ icall' = Goes(r, "logged", icall[r].outcome, clock) /\ tried' = tried
        /\ "logged" \in Phases /\ icall[r].outcome \in Outcomes /\ Working(r)
    BY CallTyped DEF LogAction, Phases, Working
  <1>2. icall' \in [Requests -> InterceptRec] /\ Numbered'
    BY <1>0, <1>1, GoesOn
  <1>3. [complete |-> FALSE, n |-> icall[r].n] \in Line
    BY <1>1, CallTyped DEF Line
  <1>4. trail' \in [Requests -> Seq(Line)]
    BY <1>0, <1>3 DEF LogAction
  <1>5. TypeOK'
    BY <1>0, <1>2, <1>4 DEF TypeInv, TypeOK, LogAction
  <1>6. CallsBelong'
    BY DEF TypeInv, CallsBelong, LogAction
  <1>7. QED
    BY <1>2, <1>5, <1>6 DEF TypeInv

LEMMA RememberTypes ==
    ASSUME TypeInv, NEW r \in Requests, Remember(r)
    PROVE  TypeInv'
  <1> DEFINE p == icall[r].p
             new == [n |-> icall[r].n, at |-> icall[r].stamp]
             recs == [records[p] EXCEPT ![r] = new]
             kept == [q \in Requests |-> IF q \in Trimmed(recs) THEN NoRecord ELSE recs[q]]
  <1>1. /\ icall' = Goes(r, "idle", icall[r].outcome, 0) /\ tried' = tried
        /\ "idle" \in Phases /\ icall[r].outcome \in Outcomes /\ 0 \in Nat /\ Working(r)
    BY CallTyped DEF Remember, Phases, Working
  <1>2. icall' \in [Requests -> InterceptRec] /\ Numbered'
    BY <1>1, GoesOn
  <1>3. p \in Plugins /\ new \in Record
    BY <1>1, CallTyped DEF Record
  <1>4. records \in RecordsType
    BY DEF TypeInv, TypeOK, RecordsType
  <1>5. records' = [records EXCEPT ![p] = kept] /\ excused' = excused \cup Trimmed(recs)
    BY DEF Remember
  <1> HIDE DEF new
  <1>6. recs \in [Requests -> Record \cup {NoRecord}]
    BY <1>3, <1>4 DEF RecordsType
  <1>7. Trimmed(recs) \subseteq Requests
    BY DEF Trimmed, Recorded
  <1> HIDE DEF recs
  <1>8. kept \in [Requests -> Record \cup {NoRecord}]
    BY <1>6
  <1> HIDE DEF kept
  <1>9. records' \in RecordsType
    BY <1>3, <1>4, <1>5, <1>8 DEF RecordsType
  <1>10. host' \in [Requests -> {"open", "refused", "over"}]
    BY DEF TypeInv, TypeOK, Remember
  <1>11. excused' \subseteq Requests
    BY <1>5, <1>7 DEF TypeInv, TypeOK
  <1>12. TypeOK'
    BY <1>2, <1>9, <1>10, <1>11 DEF TypeInv, TypeOK, Remember, RecordsType
  <1>13. CallsBelong'
    BY DEF TypeInv, CallsBelong, Remember
  <1>14. QED
    BY <1>2, <1>12, <1>13 DEF TypeInv

LEMMA TellTypes ==
    ASSUME TypeInv, NEW c \in Notices, NEW r \in Requests, Tell(c, r)
    PROVE  TypeInv'
  <1> DEFINE new == [at |-> "told", r |-> r, p |-> plugin,
                     was |-> r \in tracked[plugin], record |-> NoRecord]
  <1>1. plugin \in Plugins
    BY DEF TypeInv, TypeOK
  <1>2. (r \in tracked[plugin]) \in BOOLEAN
    OBVIOUS
  <1>3. new \in CompleteRec /\ new.at = "told" /\ new.r = r /\ new.record = NoRecord
    BY <1>1, <1>2 DEF CompleteRec
  <1>4. ccall' = [ccall EXCEPT ![c] = new] /\ ccall \in [Notices -> CompleteRec]
    BY DEF Tell, TypeInv, TypeOK
  <1> HIDE DEF new
  <1>5. /\ ccall' \in [Notices -> CompleteRec] /\ ccall'[c] = new
        /\ \A d \in Notices \ {c} : ccall'[d] = ccall[d]
    BY <1>3, <1>4
  <1>6. tracked' \in [Plugins -> SUBSET Requests]
    BY DEF TypeInv, TypeOK, Tell
  <1>7. host' \in [Requests -> {"open", "refused", "over"}]
    BY DEF TypeInv, TypeOK, Tell
  <1>8. excused' \subseteq Requests
    BY DEF TypeInv, TypeOK, Tell
  <1>9. TypeOK'
    BY <1>5, <1>6, <1>7, <1>8 DEF TypeInv, TypeOK, Tell
  <1>10. CallsBelong'
    BY <1>3, <1>5 DEF TypeInv, CallsBelong
  <1>11. Numbered'
    BY DEF TypeInv, Numbered, Working, Tell
  <1>12. QED
    BY <1>9, <1>10, <1>11 DEF TypeInv

LEMMA TakeTypes ==
    ASSUME TypeInv, NEW c \in Notices, Take(c)
    PROVE  TypeInv'
  <1> DEFINE new == [at |-> "taken", r |-> ccall[c].r, p |-> ccall[c].p,
                     was |-> ccall[c].was, record |-> records[ccall[c].p][ccall[c].r]]
  <1>1. /\ ccall[c].r \in Requests /\ ccall[c].p \in Plugins /\ ccall[c].was \in BOOLEAN
    BY NoticeTyped DEF Take
  <1>2. records[ccall[c].p][ccall[c].r] \in Record \cup {NoRecord}
    BY <1>1 DEF TypeInv, TypeOK
  <1>3. new \in CompleteRec /\ new.at = "taken" /\ new.r \in Requests
    BY <1>1, <1>2 DEF CompleteRec
  <1>4. ccall' = [ccall EXCEPT ![c] = new] /\ ccall \in [Notices -> CompleteRec]
    BY DEF Take, Taken, TypeInv, TypeOK
  <1> HIDE DEF new
  <1>5. /\ ccall' \in [Notices -> CompleteRec] /\ ccall'[c] = new
        /\ \A d \in Notices \ {c} : ccall'[d] = ccall[d]
    BY <1>3, <1>4
  <1>6. records' \in RecordsType
    BY <1>1, RecordsTyped DEF Take, RecordsType
  <1>7. TypeOK'
    BY <1>5, <1>6 DEF TypeInv, TypeOK, Take, RecordsType
  <1>8. CallsBelong'
    BY <1>3, <1>5 DEF TypeInv, CallsBelong
  <1>9. Numbered'
    BY DEF TypeInv, Numbered, Working, Take
  <1>10. QED
    BY <1>7, <1>8, <1>9 DEF TypeInv

LEMMA LogCompletionTypes ==
    ASSUME TypeInv, NEW c \in Notices, LogCompletion(c)
    PROVE  TypeInv'
  <1>1. Over \in CompleteRec /\ Over.at = "done" /\ Over.record = NoRecord
    BY InterceptionAssumption DEF Over, CompleteRec
  <1>2. ccall' = [ccall EXCEPT ![c] = Over] /\ ccall \in [Notices -> CompleteRec]
    BY DEF LogCompletion, TypeInv, TypeOK
  <1>3. /\ ccall' \in [Notices -> CompleteRec] /\ ccall'[c] = Over
        /\ \A d \in Notices \ {c} : ccall'[d] = ccall[d]
    BY <1>1, <1>2
  <1>4. trail' \in [Requests -> Seq(Line)]
    <2>1. trail' = CompletionLine(c) /\ trail \in [Requests -> Seq(Line)]
      BY DEF LogCompletion, TypeInv, TypeOK
    <2>2. CASE ccall[c].record = NoRecord
      BY <2>1, <2>2 DEF CompletionLine
    <2>3. CASE ccall[c].record # NoRecord
      <3>1. ccall[c].record \in Record /\ ccall[c].r \in Requests
        BY <2>3, NoticeTyped
      <3>2. [complete |-> TRUE, n |-> ccall[c].record.n] \in Line
        BY <3>1 DEF Record, Line
      <3>3. QED
        BY <2>1, <2>3, <3>1, <3>2 DEF CompletionLine
    <2>4. QED
      BY <2>2, <2>3
  <1>5. counters' \in CountersType
    <2>1. counters \in CountersType
      BY DEF TypeInv, TypeOK, CountersType
    <2>2. ccall[c].p \in Plugins
      BY NoticeTyped
    <2>3. Completed(ccall[c].p) \in CountersType
      BY <2>2, CountersTyped DEF Completed, CountersType
    <2>4. QED
      BY <2>1, <2>3 DEF LogCompletion
  <1>6. TypeOK'
    BY <1>3, <1>4, <1>5 DEF TypeInv, TypeOK, LogCompletion, CountersType
  <1>7. CallsBelong'
    BY <1>1, <1>3 DEF TypeInv, CallsBelong
  <1>8. Numbered'
    BY DEF TypeInv, Numbered, Working, LogCompletion
  <1>9. QED
    BY <1>6, <1>7, <1>8 DEF TypeInv

LEMMA OtherTypes ==
    ASSUME TypeInv, NEW p \in Plugins,
           Reconfigure(p) \/ (\E r \in Requests : Forget(p, r)) \/ UNCHANGED vars
    PROVE  TypeInv'
  <1>1. plugin' \in Plugins /\ tracked' \in [Plugins -> SUBSET Requests]
    BY DEF TypeInv, TypeOK, Reconfigure, Forget, vars
  <1>2. UNCHANGED <<records, counters, icall, ccall, host, tried, clock, trail, excused>>
    BY DEF Reconfigure, Forget, vars
  <1>3. TypeOK'
    BY <1>1, <1>2 DEF TypeInv, TypeOK
  <1>4. CallsBelong' /\ Numbered'
    BY <1>2 DEF TypeInv, CallsBelong, Numbered, Working
  <1>5. QED
    BY <1>3, <1>4 DEF TypeInv

LEMMA TypeStep == TypeInv /\ [Next]_vars => TypeInv'
  <1> SUFFICES ASSUME TypeInv, [Next]_vars PROVE TypeInv'
    OBVIOUS
  <1>1. CASE \E r \in Requests :
                \/ Observe(r) \/ BeginRequest(r) \/ Decide(r) \/ Discard(r)
                \/ LogAction(r) \/ Remember(r)
    BY <1>1, ObserveTypes, BeginTypes, DecideTypes, DiscardTypes, LogActionTypes, RememberTypes
  <1>2. CASE \E c \in Notices :
                (\E r \in Requests : Tell(c, r)) \/ Take(c) \/ LogCompletion(c)
    BY <1>2, TellTypes, TakeTypes, LogCompletionTypes
  <1>3. CASE \E p \in Plugins : Reconfigure(p) \/ \E r \in Requests : Forget(p, r)
    BY <1>3, OtherTypes
  <1>4. CASE UNCHANGED vars
    BY <1>4, OtherTypes, InterceptionAssumption
  <1>5. QED
    BY <1>1, <1>2, <1>3, <1>4 DEF Next

\* Types of the handlers' calls, the reporter, the counters and the log, whatever the
\* interleaving of the two handlers.
THEOREM TypeCorrect == Spec => []TypeOK
  <1>1. Spec => []TypeInv
    BY TypeInit, TypeStep, PTL DEF Spec
  <1>2. TypeInv => TypeOK
    BY DEF TypeInv
  <1>3. QED
    BY <1>1, <1>2, PTL

-----------------------------------------------------------------------------
(* The trail.                                                              *)

HasLine(r, complete, n) ==
    \E j \in 1..Len(trail[r]) : trail[r][j] = [complete |-> complete, n |-> n]

\* A candidate whose action line waits for its completion.
Owed(r, n) ==
    /\ HasLine(r, FALSE, n) /\ ~HasLine(r, TRUE, n)
    /\ n <= icall[r].n /\ (Working(r) => n < icall[r].n)

\* No line is about a candidate to come; of the one at work there is the action line,
\* once it is written.
LinesOf(r) ==
    /\ \A j \in 1..Len(trail[r]) :
        /\ trail[r][j].n <= icall[r].n
        /\ Working(r) => \/ trail[r][j].n < icall[r].n
                         \/ icall[r].at = "logged" /\ ~trail[r][j].complete
    /\ icall[r].at = "logged" => HasLine(r, FALSE, icall[r].n)
LinesOld == \A r \in Requests : LinesOf(r)

\* A record, in a reporter or taken from one, stands for one completion to be written,
\* and no two for the same.
RecordsOwed ==
    \A p \in Plugins, r \in Requests : records[p][r] # NoRecord => Owed(r, records[p][r].n)
TakenOwed ==
    \A c \in Notices : ccall[c].record # NoRecord => Owed(ccall[c].r, ccall[c].record.n)
OneHolder ==
    /\ \A r \in Requests, p1, p2 \in Plugins :
        (p1 # p2 /\ records[p1][r] # NoRecord /\ records[p2][r] # NoRecord)
            => records[p1][r].n # records[p2][r].n
    /\ \A p \in Plugins, c \in Notices :
        (ccall[c].record # NoRecord /\ records[p][ccall[c].r] # NoRecord)
            => records[p][ccall[c].r].n # ccall[c].record.n
    /\ \A c1, c2 \in Notices :
        (c1 # c2 /\ ccall[c1].record # NoRecord /\ ccall[c2].record # NoRecord
            /\ ccall[c1].r = ccall[c2].r)
            => ccall[c1].record.n # ccall[c2].record.n

TrailInv == LinesOld /\ RecordsOwed /\ TakenOwed /\ OneHolder /\ TrailOnce

\* What TypeInv says of the numbers.
LEMMA Numbers ==
    ASSUME TypeInv
    PROVE  /\ \A r \in Requests : icall[r].n \in Int /\ trail[r] \in Seq(Line)
           /\ \A r \in Requests : \A j \in 1..Len(trail[r]) : trail[r][j] \in Line
           /\ \A p \in Plugins, r \in Requests :
                records[p][r] # NoRecord => records[p][r].n \in Int
           /\ \A c \in Notices :
                ccall[c].record # NoRecord => ccall[c].record.n \in Int /\ ccall[c].r \in Requests
  <1>1. \A r \in Requests : icall[r].n \in Int
    BY CallTyped
  <1>2. \A r \in Requests : trail[r] \in Seq(Line)
    BY DEF TypeInv, TypeOK
  <1>3. \A r \in Requests : \A j \in 1..Len(trail[r]) : trail[r][j] \in Line
    BY <1>2
  <1>4. \A p \in Plugins, r \in Requests : records[p][r] # NoRecord => records[p][r] \in Record
    BY DEF TypeInv, TypeOK
  <1>5. \A c \in Notices :
            ccall[c].record # NoRecord => ccall[c].record \in Record /\ ccall[c].r \in Requests
    BY NoticeTyped
  <1>6. QED
    BY <1>1, <1>2, <1>3, <1>4, <1>5 DEF Record

\* A step of the interceptor that writes no line, up to its last.
Advances(r) ==
    \/ icall'[r] = icall[r]
    \/ /\ icall[r].at # "logged" /\ icall'[r].at # "logged"
       /\ icall'[r].n >= icall[r].n
       /\ icall'[r].at # "idle" => (icall[r].at # "idle" \/ icall'[r].n > icall[r].n)

LEMMA OwedKept ==
    ASSUME NEW r \in Requests, NEW n \in Int, icall[r].n \in Int, icall'[r].n \in Int,
           trail'[r] = trail[r], Advances(r), Owed(r, n)
    PROVE  Owed(r, n)'
  <1>1. HasLine(r, FALSE, n)' /\ ~HasLine(r, TRUE, n)'
    BY DEF Owed, HasLine
  <1>2. n <= icall'[r].n /\ (icall'[r].at # "idle" => n < icall'[r].n)
    BY DEF Owed, Advances, Working
  <1>3. QED
    BY <1>1, <1>2 DEF Owed, Working

LEMMA LinesKept ==
    ASSUME TypeInv, NEW r \in Requests, icall'[r].n \in Int, LinesOf(r),
           trail' = trail, Advances(r)
    PROVE  LinesOf(r)'
  <1>1. icall[r].n \in Int
    BY Numbers
  <1>2. \A j \in 1..Len(trail[r]) : trail[r][j].n \in Int
    BY Numbers, InterceptionAssumption DEF Line
  <1>3. CASE icall'[r] = icall[r]
    BY <1>3 DEF LinesOf, Working, HasLine
  <1>4. CASE icall'[r] # icall[r]
    <2>1. icall'[r].at # "logged"
      BY <1>4 DEF Advances
    <2>2. \A j \in 1..Len(trail[r]) : trail[r][j].n <= icall'[r].n
      BY <1>1, <1>2, <1>4 DEF LinesOf, Advances
    <2>3. ASSUME icall'[r].at # "idle", NEW j \in 1..Len(trail[r])
          PROVE  trail[r][j].n < icall'[r].n
      BY <1>1, <1>2, <1>4, <2>3 DEF LinesOf, Working, Advances
    <2>4. QED
      BY <2>1, <2>2, <2>3 DEF LinesOf, Working
  <1>5. QED
    BY <1>3, <1>4

\* Steps that write no line and give no record: they keep records or drop them.
Quiet ==
    /\ trail' = trail
    /\ \A r \in Requests : Advances(r)
    /\ \A p \in Plugins, r \in Requests :
        records'[p][r] # NoRecord => records'[p][r] = records[p][r]
    /\ \A c \in Notices :
        ccall'[c].record # NoRecord =>
            ccall'[c].record = ccall[c].record /\ ccall'[c].r = ccall[c].r

LEMMA QuietTrail ==
    ASSUME TypeInv, TypeInv', TrailInv, Quiet
    PROVE  TrailInv'
  <1>1. \A r \in Requests : icall[r].n \in Int /\ icall'[r].n \in Int
    <2>1. icall' \in [Requests -> InterceptRec]
      BY DEF TypeInv, TypeOK
    <2>2. QED
      BY <2>1, Numbers, InterceptionAssumption DEF InterceptRec
  <1>2. LinesOld'
    BY <1>1, LinesKept DEF LinesOld, TrailInv, Quiet
  <1>3. ASSUME NEW r \in Requests, NEW n \in Int, Owed(r, n) PROVE Owed(r, n)'
    BY <1>1, <1>3, OwedKept DEF Quiet
  <1>4. RecordsOwed'
    <2>1. SUFFICES ASSUME NEW p \in Plugins, NEW r \in Requests, records'[p][r] # NoRecord
                   PROVE  Owed(r, records[p][r].n)'
      BY DEF RecordsOwed
    <2>2. records'[p][r] = records[p][r] /\ records[p][r].n \in Int
      BY <2>1, Numbers DEF Quiet
    <2>3. Owed(r, records[p][r].n)
      BY <2>1, <2>2 DEF TrailInv, RecordsOwed
    <2> DEFINE m == records[p][r].n
    <2>4. QED
      BY <2>2, <2>3, <1>3 DEF Owed, HasLine, Working
  <1>5. TakenOwed'
    <2>1. SUFFICES ASSUME NEW c \in Notices, ccall'[c].record # NoRecord
                   PROVE  Owed(ccall[c].r, ccall[c].record.n)'
      BY DEF TakenOwed
    <2>2. /\ ccall'[c].record = ccall[c].record /\ ccall'[c].r = ccall[c].r
          /\ ccall[c].r \in Requests /\ ccall[c].record.n \in Int
      BY <2>1, Numbers DEF Quiet
    <2>3. Owed(ccall[c].r, ccall[c].record.n)
      BY <2>1, <2>2 DEF TrailInv, TakenOwed
    <2>4. QED
      BY <2>2, <2>3, <1>3, SMTT(40) DEF Owed, HasLine, Working
  <1>6. OneHolder'
    <2>1. OneHolder
      BY DEF TrailInv
    <2>2. ASSUME NEW p \in Plugins, NEW c \in Notices, ccall'[c].record # NoRecord,
                 records'[p][ccall'[c].r] # NoRecord
          PROVE  records'[p][ccall'[c].r].n # ccall'[c].record.n
      <3>1. ccall'[c].record = ccall[c].record /\ ccall'[c].r = ccall[c].r
        BY <2>2 DEF Quiet
      <3>2. ccall[c].r \in Requests
        BY <2>2, <3>1, Numbers
      <3>3. records'[p][ccall[c].r] = records[p][ccall[c].r]
        BY <2>2, <3>1, <3>2 DEF Quiet
      <3>4. QED
        BY <2>1, <2>2, <3>1, <3>3 DEF OneHolder
    <2>3. ASSUME NEW c1 \in Notices, NEW c2 \in Notices, c1 # c2,
                 ccall'[c1].record # NoRecord, ccall'[c2].record # NoRecord,
                 ccall'[c1].r = ccall'[c2].r
          PROVE  ccall'[c1].record.n # ccall'[c2].record.n
      BY <2>1, <2>3 DEF OneHolder, Quiet
    <2>4. ASSUME NEW r \in Requests, NEW p1 \in Plugins, NEW p2 \in Plugins, p1 # p2,
                 records'[p1][r] # NoRecord, records'[p2][r] # NoRecord
          PROVE  records'[p1][r].n # records'[p2][r].n
      BY <2>1, <2>4 DEF OneHolder, Quiet
    <2>5. QED
      BY <2>2, <2>3, <2>4 DEF OneHolder
  <1>7. TrailOnce'
    BY DEF TrailInv, TrailOnce, Quiet
  <1>8. QED
    BY <1>2, <1>4, <1>5, <1>6, <1>7 DEF TrailInv

\* The handlers' steps that are quiet.
LEMMA QuietSteps ==
    ASSUME TypeInv, [Next]_vars
    PROVE  \/ Quiet
           \/ \E r \in Requests : LogAction(r) \/ Remember(r)
           \/ \E c \in Notices : Take(c) \/ LogCompletion(c)
  <1>0. icall \in [Requests -> InterceptRec] /\ ccall \in [Notices -> CompleteRec]
    BY DEF TypeInv, TypeOK
  <1>1. ASSUME NEW r \in Requests, Observe(r) PROVE Quiet
    <2>1. /\ icall'[r].at = "observed" /\ icall'[r].n = tried + 1
          /\ \A q \in Requests \ {r} : icall'[q] = icall[q]
      BY <1>0, <1>1 DEF Observe
    <2>2. icall[r].n <= tried /\ icall[r].n \in Int /\ tried \in Int /\ icall[r].at = "idle"
      BY <1>1, Numbers, InterceptionAssumption, SMTT(40)
        DEF TypeInv, TypeOK, Numbered, Observe, Working
    <2>3. \A q \in Requests : Advances(q)
      BY <2>1, <2>2 DEF Advances
    <2>4. QED
      BY <1>1, <2>3 DEF Quiet, Observe
  <1>2. ASSUME NEW r \in Requests, NEW at \in Phases, NEW outcome \in Outcomes,
               icall' = Goes(r, at, outcome, 0), at # "logged", icall[r].at # "logged",
               Working(r), tried' = tried
        PROVE  \A q \in Requests : Advances(q)
    <2>1. /\ icall'[r] = [at |-> at, p |-> icall[r].p, n |-> icall[r].n,
                          outcome |-> outcome, stamp |-> 0]
          /\ \A q \in Requests \ {r} : icall'[q] = icall[q]
      BY <1>2, GoesOn
    <2>2. icall[r].n \in Int
      BY Numbers
    <2>3. QED
      BY <1>2, <2>1, <2>2 DEF Advances, Working
  <1>3. ASSUME NEW r \in Requests, BeginRequest(r) PROVE Quiet
    <2>1. \A q \in Requests : Advances(q)
      BY <1>2, <1>3 DEF BeginRequest, Phases, Outcomes, Working
    <2>2. icall[r].p \in Plugins
      BY CallTyped
    <2>3. \A p \in Plugins, q \in Requests :
            records'[p][q] # NoRecord => records'[p][q] = records[p][q]
      BY <1>3, <2>2, RecordsTyped DEF BeginRequest
    <2>4. QED
      BY <1>3, <2>1, <2>3 DEF Quiet, BeginRequest
  <1>4. ASSUME NEW r \in Requests, Decide(r) PROVE Quiet
    <2>1. PICK outcome \in Outcomes : icall' = Goes(r, After(outcome), outcome, 0)
      BY <1>4 DEF Decide
    <2>2. After(outcome) \in Phases /\ After(outcome) # "logged"
      BY DEF After, Phases
    <2>3. icall[r].at = "begun" /\ tried' = tried /\ Working(r)
      BY <1>4 DEF Decide, Working
    <2>4. \A q \in Requests : Advances(q)
      BY <1>2, <2>1, <2>2, <2>3
    <2>5. QED
      BY <1>4, <2>4 DEF Quiet, Decide
  <1>5. ASSUME NEW r \in Requests, Discard(r) PROVE Quiet
    <2>1. \A q \in Requests : Advances(q)
      BY <1>2, <1>5, CallTyped DEF Discard, Phases, Working
    <2>2. QED
      BY <1>5, <2>1 DEF Quiet, Discard
  <1>6. ASSUME NEW c \in Notices, NEW r \in Requests, Tell(c, r) PROVE Quiet
    <2>1. ccall'[c].record = NoRecord /\ \A d \in Notices \ {c} : ccall'[d] = ccall[d]
      BY <1>0, <1>6 DEF Tell
    <2>2. QED
      BY <1>6, <2>1 DEF Quiet, Tell, Advances
  <1>7. ASSUME NEW p \in Plugins, Reconfigure(p) \/ \E r \in Requests : Forget(p, r)
        PROVE  Quiet
    BY <1>7 DEF Quiet, Reconfigure, Forget, Advances
  <1>8. CASE UNCHANGED vars
    BY <1>8 DEF Quiet, vars, Advances
  <1>9. QED
    BY <1>1, <1>3, <1>4, <1>5, <1>6, <1>7, <1>8 DEF Next

\* A request's trail with one line more.
LEMMA LineAdded ==
    ASSUME TypeInv, NEW r \in Requests, NEW line \in Line,
           trail' = [trail EXCEPT ![r] = Append(@, line)]
    PROVE  /\ \A q \in Requests \ {r} : trail'[q] = trail[q]
           /\ Len(trail'[r]) = Len(trail[r]) + 1 /\ Len(trail[r]) \in Nat
           /\ \A j \in 1..Len(trail[r]) : trail'[r][j] = trail[r][j]
           /\ trail'[r][Len(trail[r]) + 1] = line
  <1>1. trail[r] \in Seq(Line) /\ trail \in [Requests -> Seq(Line)]
    BY DEF TypeInv, TypeOK
  <1>2. trail'[r] = Append(trail[r], line) /\ \A q \in Requests \ {r} : trail'[q] = trail[q]
    BY <1>1
  <1>3. QED
    BY <1>1, <1>2

LEMMA HasLineAdded ==
    ASSUME TypeInv, NEW r \in Requests, NEW line \in Line,
           trail' = [trail EXCEPT ![r] = Append(@, line)],
           NEW complete \in BOOLEAN, NEW n \in Int
    PROVE  HasLine(r, complete, n)'
                <=> HasLine(r, complete, n) \/ line = [complete |-> complete, n |-> n]
  <1> DEFINE l == [complete |-> complete, n |-> n]
             last == Len(trail[r])
  <1> HIDE DEF l, last
  <1>1. /\ Len(trail'[r]) = last + 1 /\ last \in Nat /\ trail'[r][last + 1] = line
        /\ \A j \in 1..last : trail'[r][j] = trail[r][j]
    BY LineAdded DEF last
  <1>2. (\E j \in 1..Len(trail'[r]) : trail'[r][j] = l)
            <=> (\E j \in 1..last : trail[r][j] = l) \/ line = l
    BY <1>1
  <1>3. QED
    BY <1>2 DEF HasLine, l, last

\* A line more keeps TrailOnce if it completes an action that waits for it.
LEMMA TrailOnceAdded ==
    ASSUME TypeInv, TrailOnce, NEW r \in Requests, NEW line \in Line,
           trail' = [trail EXCEPT ![r] = Append(@, line)],
           line.complete => HasLine(r, FALSE, line.n) /\ ~HasLine(r, TRUE, line.n)
    PROVE  TrailOnce'
  <1> SUFFICES ASSUME NEW q \in Requests, NEW i \in 1..Len(trail'[q]), trail'[q][i].complete
               PROVE  /\ \E j \in 1..(i - 1) :
                            trail'[q][j] = [complete |-> FALSE, n |-> trail'[q][i].n]
                      /\ \A j \in 1..(i - 1) : trail'[q][j] # trail'[q][i]
    BY DEF TrailOnce
  <1>1. CASE q # r
    <2>1. trail'[q] = trail[q]
      BY <1>1, LineAdded
    <2>2. /\ \E j \in 1..(i - 1) : trail[q][j] = [complete |-> FALSE, n |-> trail[q][i].n]
          /\ \A j \in 1..(i - 1) : trail[q][j] # trail[q][i]
      BY <2>1 DEF TrailOnce
    <2>3. QED
      BY <2>1, <2>2
  <1>2. CASE q = r
    <2>1. /\ Len(trail'[r]) = Len(trail[r]) + 1 /\ Len(trail[r]) \in Nat
          /\ \A j \in 1..Len(trail[r]) : trail'[r][j] = trail[r][j]
          /\ trail'[r][Len(trail[r]) + 1] = line
      BY LineAdded
    <2>2. CASE i \in 1..Len(trail[r])
      <3>1. trail'[r][i] = trail[r][i] /\ \A j \in 1..(i - 1) : trail'[r][j] = trail[r][j]
        BY <2>1, <2>2
      <3>2. /\ \E j \in 1..(i - 1) : trail[r][j] = [complete |-> FALSE, n |-> trail[r][i].n]
            /\ \A j \in 1..(i - 1) : trail[r][j] # trail[r][i]
        BY <1>2, <2>2, <3>1 DEF TrailOnce
      <3>3. QED
        BY <1>2, <3>1, <3>2
    <2>3. CASE i = Len(trail[r]) + 1
      <3>1. trail'[r][i] = line /\ i - 1 = Len(trail[r])
        BY <2>1, <2>3
      <3>2. /\ HasLine(r, FALSE, line.n) /\ ~HasLine(r, TRUE, line.n)
            /\ line = [complete |-> TRUE, n |-> line.n]
        BY <1>2, <3>1 DEF Line
      <3>3. QED
        BY <1>2, <2>1, <3>1, <3>2, ZenonT(60) DEF HasLine
    <2>4. i \in 1..Len(trail[r]) \/ i = Len(trail[r]) + 1
      BY <1>2, <2>1
    <2>5. QED
      BY <2>2, <2>3, <2>4
  <1>3. QED
    BY <1>1, <1>2

LEMMA LogActionTrail ==
    ASSUME TypeInv, TypeInv', TrailInv, NEW r \in Requests, LogAction(r)
    PROVE  TrailInv'
  <1> DEFINE line == [complete |-> FALSE, n |-> icall[r].n]
  <1>1. /\ icall[r].at = "counted" /\ trail' = [trail EXCEPT ![r] = Append(@, line)]
        /\ records' = records /\ ccall' = ccall
    BY DEF LogAction
  <1>2. /\ icall[r].outcome \in Outcomes /\ clock \in Nat /\ Working(r)
        /\ icall[r].n \in 1..MaxCandidates /\ icall[r].n \in Int
    BY <1>1, CallTyped, Numbers DEF Working, TypeInv, TypeOK
  <1>3. /\ icall'[r].at = "logged" /\ icall'[r].n = icall[r].n
        /\ \A q \in Requests \ {r} : icall'[q] = icall[q]
    <2>1. /\ icall' = Goes(r, "logged", icall[r].outcome, clock) /\ tried' = tried
          /\ "logged" \in Phases
      BY DEF LogAction, Phases
    <2>2. icall'[r] = [at |-> "logged", p |-> icall[r].p, n |-> icall[r].n,
                       outcome |-> icall[r].outcome, stamp |-> clock]
      BY <1>2, <2>1, GoesOn
    <2>3. \A q \in Requests \ {r} : icall'[q] = icall[q]
      BY <1>2, <2>1, GoesOn
    <2>4. QED
      BY <2>2, <2>3
  <1>4. line \in Line /\ ~line.complete /\ line.n = icall[r].n
    BY <1>2 DEF Line
  <1> HIDE DEF line
  <1>5. ASSUME NEW complete \in BOOLEAN, NEW n \in Int
        PROVE  HasLine(r, complete, n)' <=> HasLine(r, complete, n)
                    \/ line = [complete |-> complete, n |-> n]
    <2>1. PICK logged \in Line : logged = line
      BY <1>4
    <2>2. trail' = [trail EXCEPT ![r] = Append(@, logged)]
      BY <1>1, <2>1
    <2>3. HasLine(r, complete, n)' <=> HasLine(r, complete, n)
                    \/ logged = [complete |-> complete, n |-> n]
      BY <2>2, HasLineAdded
    <2>4. QED
      BY <2>1, <2>3
  <1>6. /\ \A q \in Requests \ {r} : trail'[q] = trail[q]
        /\ Len(trail'[r]) = Len(trail[r]) + 1 /\ Len(trail[r]) \in Nat
        /\ \A j \in 1..Len(trail[r]) : trail'[r][j] = trail[r][j]
        /\ trail'[r][Len(trail[r]) + 1] = line
    BY <1>1, <1>4, LineAdded
  <1>7. LinesOld'
    <2>1. ASSUME NEW q \in Requests, q # r PROVE LinesOf(q)'
      BY <1>3, <1>6, <2>1 DEF TrailInv, LinesOld, LinesOf, HasLine, Working
    <2>2. LinesOf(r)
      BY DEF TrailInv, LinesOld
    <2>3. HasLine(r, FALSE, icall[r].n)'
      <3>1. line = [complete |-> FALSE, n |-> icall[r].n]
        BY DEF line
      <3>2. \E j \in 1..Len(trail'[r]) : trail'[r][j] = line
        BY <1>6
      <3>3. QED
        BY <1>3, <3>1, <3>2 DEF HasLine
    <2>4. ASSUME NEW j \in 1..Len(trail'[r])
          PROVE  trail'[r][j].n <= icall'[r].n
                    /\ (trail'[r][j].n < icall'[r].n \/ ~trail'[r][j].complete)
      <3>1. CASE j \in 1..Len(trail[r])
        <4>1. trail[r][j].n < icall[r].n
          BY <1>1, <1>2, <2>2, <3>1 DEF LinesOf
        <4>2. trail[r][j].n \in Int
          BY <3>1, Numbers, InterceptionAssumption DEF Line
        <4>3. QED
          BY <1>2, <1>3, <1>6, <3>1, <4>1, <4>2
      <3>2. CASE j = Len(trail[r]) + 1
        BY <1>2, <1>3, <1>4, <1>6, <3>2
      <3>3. QED
        BY <1>6, <3>1, <3>2
    <2>5. LinesOf(r)'
      BY <1>3, <2>3, <2>4 DEF LinesOf
    <2>6. QED
      BY <2>1, <2>5 DEF LinesOld
  <1>8. ASSUME NEW q \in Requests, NEW n \in Int, Owed(q, n) PROVE Owed(q, n)'
    <2>1. CASE q # r
      BY <1>3, <1>6, <1>8, <2>1 DEF Owed, HasLine, Working
    <2>2. CASE q = r
      <3>1. HasLine(r, FALSE, n)'
        BY <1>5, <1>8, <2>2 DEF Owed
      <3>2. ~HasLine(r, TRUE, n)'
        <4>1. line # [complete |-> TRUE, n |-> n]
          BY <1>4
        <4>2. ~HasLine(r, TRUE, n)
          BY <1>8, <2>2 DEF Owed
        <4>3. QED
          BY <1>5, <4>1, <4>2
      <3>3. n <= icall'[r].n /\ n < icall'[r].n
        BY <1>2, <1>3, <1>8, <2>2 DEF Owed
      <3>4. QED
        BY <2>2, <3>1, <3>2, <3>3 DEF Owed
    <2>3. QED
      BY <2>1, <2>2
  <1>9. RecordsOwed'
    <2>1. SUFFICES ASSUME NEW p \in Plugins, NEW q \in Requests, records'[p][q] # NoRecord
                   PROVE  Owed(q, records[p][q].n)'
      BY DEF RecordsOwed
    <2>2. Owed(q, records[p][q].n) /\ records[p][q].n \in Int
      BY <1>1, <2>1, Numbers DEF TrailInv, RecordsOwed
    <2>3. QED
      BY <1>1, <1>8, <2>2 DEF Owed, HasLine, Working
  <1>10. TakenOwed'
    <2>1. SUFFICES ASSUME NEW c \in Notices, ccall'[c].record # NoRecord
                   PROVE  Owed(ccall[c].r, ccall[c].record.n)'
      BY DEF TakenOwed
    <2>2. Owed(ccall[c].r, ccall[c].record.n) /\ ccall[c].r \in Requests /\ ccall[c].record.n \in Int
      BY <1>1, <2>1, Numbers DEF TrailInv, TakenOwed
    <2>3. ccall'[c].r = ccall[c].r /\ ccall'[c].record.n = ccall[c].record.n
      BY <1>1
    <2>4. QED
      BY <1>8, <2>2, <2>3, SMTT(40) DEF Owed, HasLine, Working
  <1>11. OneHolder'
    BY <1>1 DEF TrailInv, OneHolder
  <1>12. TrailOnce'
    BY <1>1, <1>4, TrailOnceAdded DEF TrailInv
  <1>13. QED
    BY <1>7, <1>9, <1>10, <1>11, <1>12 DEF TrailInv

LEMMA RememberTrail ==
    ASSUME TypeInv, TypeInv', TrailInv, NEW r \in Requests, Remember(r)
    PROVE  TrailInv'
  <1>0. PICK m \in Int : m = icall[r].n
    BY Numbers
  <1> DEFINE p == icall[r].p
             new == [n |-> m, at |-> icall[r].stamp]
             recs == [records[p] EXCEPT ![r] = new]
             kept == [q \in Requests |-> IF q \in Trimmed(recs) THEN NoRecord ELSE recs[q]]
  <1>1. /\ icall[r].at = "logged" /\ trail' = trail /\ ccall' = ccall /\ Working(r)
        /\ p \in Plugins /\ icall[r].outcome \in Outcomes
    BY CallTyped DEF Remember, Working
  <1>2. icall'[r].at = "idle" /\ icall'[r].n = m /\ \A q \in Requests \ {r} : icall'[q] = icall[q]
    <2>1. /\ icall' = Goes(r, "idle", icall[r].outcome, 0) /\ tried' = tried
          /\ "idle" \in Phases /\ 0 \in Nat
      BY DEF Remember, Phases
    <2>2. icall'[r] = [at |-> "idle", p |-> icall[r].p, n |-> icall[r].n,
                       outcome |-> icall[r].outcome, stamp |-> 0]
      BY <1>1, <2>1, GoesOn
    <2>3. \A q \in Requests \ {r} : icall'[q] = icall[q]
      BY <1>1, <2>1, GoesOn
    <2>4. QED
      BY <1>0, <2>2, <2>3
  <1>3. /\ \A p1 \in Plugins \ {p} : records'[p1] = records[p1]
        /\ \A q \in Requests \ {r} : records'[p][q] # NoRecord => records'[p][q] = records[p][q]
        /\ records'[p][r] # NoRecord => records'[p][r].n = m
    <2>1. records' = [records EXCEPT ![p] = kept]
      BY <1>0 DEF Remember
    <2>2. records \in [Plugins -> [Requests -> Record \cup {NoRecord}]]
      BY DEF TypeInv, TypeOK
    <2>3. new.n = m
      OBVIOUS
    <2> HIDE DEF new
    <2>4. recs[r] = new /\ \A q \in Requests \ {r} : recs[q] = records[p][q]
      BY <1>1, <2>2
    <2> HIDE DEF recs
    <2>5. \A q \in Requests : kept[q] # NoRecord => kept[q] = recs[q]
      OBVIOUS
    <2> HIDE DEF kept, p
    <2>6. records'[p] = kept /\ \A p1 \in Plugins \ {p} : records'[p1] = records[p1]
      BY <1>1, <2>1, <2>2
    <2>7. QED
      BY <2>3, <2>4, <2>5, <2>6
  <1> HIDE DEF p
  <1>4. LinesOf(r) /\ m = icall[r].n
    BY <1>0 DEF TrailInv, LinesOld
  <1>5. LinesOld'
    <2>1. ASSUME NEW q \in Requests, q # r PROVE LinesOf(q)'
      BY <1>1, <1>2, <2>1 DEF TrailInv, LinesOld, LinesOf, HasLine, Working
    <2>2. LinesOf(r)'
      BY <1>1, <1>2, <1>4 DEF LinesOf, Working
    <2>3. QED
      BY <2>1, <2>2 DEF LinesOld
  <1>6. ASSUME NEW q \in Requests, NEW n \in Int, Owed(q, n) PROVE Owed(q, n)'
    <2>1. CASE q # r
      BY <1>1, <1>2, <1>6, <2>1 DEF Owed, HasLine, Working
    <2>2. CASE q = r
      BY <1>1, <1>2, <1>4, <1>6, <2>2 DEF Owed, HasLine, Working
    <2>3. QED
      BY <2>1, <2>2
  <1>7. Owed(r, m)'
    <2>1. HasLine(r, FALSE, m)
      BY <1>1, <1>4 DEF LinesOf
    <2>2. ~HasLine(r, TRUE, m)
      BY <1>1, <1>4 DEF LinesOf, HasLine
    <2>3. HasLine(r, FALSE, m)' /\ ~HasLine(r, TRUE, m)'
      BY <1>1, <2>1, <2>2 DEF HasLine
    <2>4. m <= icall'[r].n /\ icall'[r].at = "idle"
      BY <1>0, <1>2
    <2>5. QED
      BY <2>3, <2>4 DEF Owed, Working
  <1>8. ASSUME NEW n \in Int, Owed(r, n) PROVE n # m
    BY <1>1, <1>4, <1>8 DEF Owed
  <1>9. ASSUME NEW p1 \in Plugins, NEW q \in Requests, records'[p1][q] # NoRecord
        PROVE  \/ p1 = p /\ q = r /\ records'[p1][q].n = m
               \/ records[p1][q] # NoRecord /\ records'[p1][q] = records[p1][q]
    BY <1>3, <1>9
  <1>10. ASSUME NEW p1 \in Plugins, NEW q \in Requests, records[p1][q] # NoRecord
         PROVE  Owed(q, records[p1][q].n) /\ records[p1][q].n \in Int
    BY <1>10, Numbers DEF TrailInv, RecordsOwed
  <1>11. RecordsOwed'
    <2>1. SUFFICES ASSUME NEW p1 \in Plugins, NEW q \in Requests, records'[p1][q] # NoRecord
                   PROVE  Owed(q, records[p1][q].n)'
      BY DEF RecordsOwed
    <2>2. CASE q = r /\ records'[p1][q].n = m
      BY <1>7, <2>2 DEF Owed, HasLine, Working
    <2>3. CASE records[p1][q] # NoRecord /\ records'[p1][q] = records[p1][q]
      BY <1>6, <1>10, <2>3 DEF Owed, HasLine, Working
    <2>4. QED
      BY <1>9, <2>1, <2>2, <2>3
  <1>12. ASSUME NEW c \in Notices, ccall[c].record # NoRecord
         PROVE  /\ Owed(ccall[c].r, ccall[c].record.n) /\ ccall[c].r \in Requests
                /\ ccall[c].record.n \in Int
    BY <1>12, Numbers DEF TrailInv, TakenOwed
  <1>13. TakenOwed'
    <2>1. SUFFICES ASSUME NEW c \in Notices, ccall'[c].record # NoRecord
                   PROVE  Owed(ccall[c].r, ccall[c].record.n)'
      BY DEF TakenOwed
    <2>2. /\ Owed(ccall[c].r, ccall[c].record.n) /\ ccall[c].r \in Requests
          /\ ccall[c].record.n \in Int
      BY <1>1, <1>12, <2>1
    <2>3. ccall'[c].r = ccall[c].r /\ ccall'[c].record.n = ccall[c].record.n
      BY <1>1
    <2>4. QED
      BY <1>6, <2>2, <2>3 DEF Owed, HasLine, Working
  <1>14. OneHolder'
    <2>1. OneHolder
      BY DEF TrailInv
    <2>2. ASSUME NEW q \in Requests, NEW p1 \in Plugins, NEW p2 \in Plugins, p1 # p2,
                 records'[p1][q] # NoRecord, records'[p2][q] # NoRecord
          PROVE  records'[p1][q].n # records'[p2][q].n
      <3>1. CASE q = r /\ p1 = p
        BY <1>3, <1>8, <1>10, <2>2, <3>1
      <3>2. CASE q = r /\ p2 = p
        BY <1>3, <1>8, <1>10, <2>2, <3>2
      <3>3. CASE q # r \/ (p1 # p /\ p2 # p)
        BY <1>9, <2>1, <2>2, <3>3 DEF OneHolder
      <3>4. QED
        BY <3>1, <3>2, <3>3
    <2>3. ASSUME NEW p1 \in Plugins, NEW c \in Notices, ccall'[c].record # NoRecord,
                 records'[p1][ccall'[c].r] # NoRecord
          PROVE  records'[p1][ccall'[c].r].n # ccall'[c].record.n
      <3>1. /\ ccall'[c] = ccall[c] /\ ccall[c].r \in Requests
            /\ Owed(ccall[c].r, ccall[c].record.n) /\ ccall[c].record.n \in Int
        BY <1>1, <1>12, <2>3
      <3>2. CASE ccall[c].r = r /\ p1 = p
        BY <1>3, <1>8, <2>3, <3>1, <3>2
      <3>3. CASE ~(ccall[c].r = r /\ p1 = p)
        BY <1>9, <2>1, <2>3, <3>1, <3>3 DEF OneHolder
      <3>4. QED
        BY <3>2, <3>3
    <2>4. QED
      BY <1>1, <2>1, <2>2, <2>3 DEF OneHolder
  <1>15. TrailOnce'
    BY <1>1 DEF TrailInv, TrailOnce
  <1>16. QED
    BY <1>5, <1>11, <1>13, <1>14, <1>15 DEF TrailInv

LEMMA TakeTrail ==
    ASSUME TypeInv, TypeInv', TrailInv, NEW c \in Notices, Take(c)
    PROVE  TrailInv'
  <1> DEFINE r == ccall[c].r
             p == ccall[c].p
             record == records[p][r]
  <1>1. /\ r \in Requests /\ p \in Plugins /\ ccall[c].record = NoRecord
        /\ trail' = trail /\ icall' = icall
    BY NoticeTyped DEF Take
  <1>2. /\ records'[p][r] = NoRecord
        /\ \A p1 \in Plugins, q \in Requests :
            p1 # p \/ q # r => records'[p1][q] = records[p1][q]
    BY <1>1, RecordsTyped DEF Take
  <1>3. /\ ccall'[c].r = r /\ ccall'[c].record = record
        /\ \A d \in Notices \ {c} : ccall'[d] = ccall[d]
    <2>1. ccall \in [Notices -> CompleteRec]
      BY DEF TypeInv, TypeOK
    <2>2. QED
      BY <2>1 DEF Take, Taken
  <1> HIDE DEF r, p
  <1>4. ASSUME NEW q \in Requests, NEW n, Owed(q, n) PROVE Owed(q, n)'
    BY <1>1, <1>4 DEF Owed, HasLine, Working
  <1>5. LinesOld'
    BY <1>1 DEF TrailInv, LinesOld, LinesOf, HasLine, Working
  <1>6. RecordsOwed'
    <2>1. SUFFICES ASSUME NEW p1 \in Plugins, NEW q \in Requests, records'[p1][q] # NoRecord
                   PROVE  Owed(q, records[p1][q].n)'
      BY DEF RecordsOwed
    <2>2. records'[p1][q] = records[p1][q]
      BY <1>2, <2>1
    <2>3. Owed(q, records[p1][q].n)
      BY <2>1, <2>2 DEF TrailInv, RecordsOwed
    <2>4. QED
      BY <1>4, <2>2, <2>3 DEF Owed, HasLine, Working
  <1>7. TakenOwed'
    <2>1. SUFFICES ASSUME NEW d \in Notices, ccall'[d].record # NoRecord
                   PROVE  Owed(ccall[d].r, ccall[d].record.n)'
      BY DEF TakenOwed
    <2>2. CASE d = c
      <3>1. Owed(r, record.n)
        BY <1>1, <1>3, <2>1, <2>2 DEF TrailInv, RecordsOwed
      <3>2. ccall'[d].r = r /\ ccall'[d].record.n = record.n
        BY <1>3, <2>2
      <3>3. QED
        BY <1>1, <1>4, <3>1, <3>2 DEF Owed, HasLine, Working
    <2>3. CASE d # c
      <3>1. ccall'[d].r = ccall[d].r /\ ccall'[d].record = ccall[d].record
        BY <1>3, <2>3
      <3>2. Owed(ccall[d].r, ccall[d].record.n) /\ ccall[d].r \in Requests
        BY <2>1, <3>1, NoticeTyped DEF TrailInv, TakenOwed
      <3>3. QED
        BY <1>4, <3>1, <3>2 DEF Owed, HasLine, Working
    <2>4. QED
      BY <2>2, <2>3
  <1>8. OneHolder'
    <2>1. OneHolder
      BY DEF TrailInv
    <2>2. ASSUME NEW q \in Requests, NEW p1 \in Plugins, NEW p2 \in Plugins, p1 # p2,
                 records'[p1][q] # NoRecord, records'[p2][q] # NoRecord
          PROVE  records'[p1][q].n # records'[p2][q].n
      BY <1>2, <2>1, <2>2 DEF OneHolder
    <2>3. ASSUME NEW p1 \in Plugins, NEW d \in Notices, ccall'[d].record # NoRecord,
                 records'[p1][ccall'[d].r] # NoRecord
          PROVE  records'[p1][ccall'[d].r].n # ccall'[d].record.n
      <3>1. CASE d = c
        BY <1>1, <1>2, <1>3, <2>1, <2>3, <3>1 DEF OneHolder
      <3>2. CASE d # c
        <4>1. ccall'[d] = ccall[d] /\ ccall[d].r \in Requests
          BY <1>3, <2>3, <3>2, NoticeTyped
        <4>2. records'[p1][ccall[d].r] = records[p1][ccall[d].r]
          BY <1>2, <2>3, <4>1
        <4>3. QED
          BY <2>1, <2>3, <4>1, <4>2 DEF OneHolder
      <3>3. QED
        BY <3>1, <3>2
    <2>4. ASSUME NEW d \in Notices, d # c, ccall'[c].record # NoRecord,
                 ccall'[d].record # NoRecord, ccall'[c].r = ccall'[d].r
          PROVE  ccall'[c].record.n # ccall'[d].record.n
      BY <1>1, <1>3, <2>1, <2>4 DEF OneHolder
    <2>5. ASSUME NEW c1 \in Notices, NEW c2 \in Notices, c1 # c2,
                 ccall'[c1].record # NoRecord, ccall'[c2].record # NoRecord,
                 ccall'[c1].r = ccall'[c2].r
          PROVE  ccall'[c1].record.n # ccall'[c2].record.n
      <3>1. CASE c1 = c
        BY <2>4, <2>5, <3>1
      <3>2. CASE c2 = c
        BY <2>4, <2>5, <3>2
      <3>3. CASE c1 # c /\ c2 # c
        BY <1>3, <2>1, <2>5, <3>3 DEF OneHolder
      <3>4. QED
        BY <3>1, <3>2, <3>3
    <2>6. QED
      BY <2>2, <2>3, <2>5 DEF OneHolder
  <1>9. TrailOnce'
    BY <1>1 DEF TrailInv, TrailOnce
  <1>10. QED
    BY <1>5, <1>6, <1>7, <1>8, <1>9 DEF TrailInv

LEMMA LogCompletionTrail ==
    ASSUME TypeInv, TypeInv', TrailInv, NEW c \in Notices, LogCompletion(c)
    PROVE  TrailInv'
  <1>1. /\ records' = records /\ icall' = icall
        /\ ccall'[c].record = NoRecord /\ \A d \in Notices \ {c} : ccall'[d] = ccall[d]
    <2>1. ccall \in [Notices -> CompleteRec]
      BY DEF TypeInv, TypeOK
    <2>2. QED
      BY <2>1 DEF LogCompletion, Over
  <1>2. CASE ccall[c].record = NoRecord
    <2>1. trail' = trail
      BY <1>2 DEF LogCompletion, CompletionLine
    <2>2. \A d \in Notices :
            ccall'[d].record # NoRecord =>
                ccall'[d].record = ccall[d].record /\ ccall'[d].r = ccall[d].r
      BY <1>1
    <2>3. Quiet
      BY <1>1, <2>1, <2>2 DEF Quiet, Advances
    <2>4. QED
      BY <2>3, QuietTrail
  <1>3. CASE ccall[c].record # NoRecord
    <2>0. PICK r \in Requests, m \in 1..MaxCandidates :
                r = ccall[c].r /\ m = ccall[c].record.n
      BY <1>3, NoticeTyped DEF Record
    <2> DEFINE line == [complete |-> TRUE, n |-> m]
    <2>1. m \in Int /\ line \in Line /\ Owed(r, m)
      BY <1>3, <2>0, InterceptionAssumption DEF Line, TrailInv, TakenOwed
    <2>2. trail' = [trail EXCEPT ![r] = Append(@, line)]
      BY <1>3, <2>0 DEF LogCompletion, CompletionLine
    <2>3. line.complete /\ line.n = m
      OBVIOUS
    <2> HIDE DEF line
    <2>4. line = [complete |-> TRUE, n |-> m]
      BY DEF line
    <2>5. ASSUME NEW q \in Requests, NEW n \in Int, Owed(q, n), q # r \/ n # m
          PROVE  Owed(q, n)'
      <3>1. CASE q # r
        <4>1. trail'[q] = trail[q]
          BY <2>1, <2>2, <3>1, LineAdded
        <4>2. QED
          BY <1>1, <2>5, <4>1 DEF Owed, HasLine, Working
      <3>2. CASE q = r
        <4> DEFINE open == [complete |-> FALSE, n |-> n]
                   done == [complete |-> TRUE, n |-> n]
        <4>1. HasLine(q, FALSE, n)' <=> HasLine(q, FALSE, n) \/ line = open
          BY <2>1, <2>2, <3>2, HasLineAdded
        <4>2. HasLine(q, TRUE, n)' <=> HasLine(q, TRUE, n) \/ line = done
          BY <2>1, <2>2, <3>2, HasLineAdded
        <4>3. line # done
          BY <2>3, <2>5, <3>2
        <4>4. QED
          BY <1>1, <2>5, <4>1, <4>2, <4>3 DEF Owed, Working
      <3>3. QED
        BY <3>1, <3>2
    <2>6. LinesOld'
      <3>1. ASSUME NEW q \in Requests, q # r PROVE LinesOf(q)'
        <4>1. trail'[q] = trail[q]
          BY <2>1, <2>2, <3>1, LineAdded
        <4>2. QED
          BY <1>1, <4>1 DEF TrailInv, LinesOld, LinesOf, HasLine, Working
      <3>2. LinesOf(r)'
        <4>1. /\ Len(trail'[r]) = Len(trail[r]) + 1 /\ Len(trail[r]) \in Nat
              /\ \A j \in 1..Len(trail[r]) : trail'[r][j] = trail[r][j]
              /\ trail'[r][Len(trail[r]) + 1] = line
          BY <2>1, <2>2, LineAdded
        <4>2. LinesOf(r) /\ icall'[r] = icall[r]
          BY <1>1, <2>1 DEF TrailInv, LinesOld
        <4>3. m <= icall[r].n /\ (Working(r) => m < icall[r].n)
          BY <2>1 DEF Owed
        <4>4. \A j \in 1..Len(trail'[r]) : j \in 1..Len(trail[r]) \/ j = Len(trail[r]) + 1
          BY <4>1
        <4>5. \A j \in 1..Len(trail'[r]) :
                /\ trail'[r][j].n <= icall'[r].n
                /\ icall'[r].at # "idle" =>
                        \/ trail'[r][j].n < icall'[r].n
                        \/ icall'[r].at = "logged" /\ ~trail'[r][j].complete
          BY <2>3, <4>1, <4>2, <4>3, <4>4 DEF LinesOf, Working
        <4>6. icall'[r].at = "logged" => HasLine(r, FALSE, icall[r].n)'
          <5>1. PICK k \in Int : k = icall[r].n
            BY Numbers
          <5>2. HasLine(r, FALSE, k) => HasLine(r, FALSE, k)'
            BY <2>1, <2>2, HasLineAdded
          <5>3. QED
            BY <4>2, <5>1, <5>2 DEF LinesOf, HasLine
        <4>7. QED
          BY <4>5, <4>6 DEF LinesOf, Working
      <3>3. QED
        BY <3>1, <3>2 DEF LinesOld
    <2>7. OneHolder
      BY DEF TrailInv
    <2>8. RecordsOwed'
      <3>1. SUFFICES ASSUME NEW p \in Plugins, NEW q \in Requests, records'[p][q] # NoRecord
                     PROVE  Owed(q, records[p][q].n)'
        BY DEF RecordsOwed
      <3>2. /\ records'[p][q] = records[p][q] /\ records[p][q] # NoRecord
            /\ records[p][q].n \in Int /\ Owed(q, records[p][q].n)
        BY <1>1, <3>1, Numbers DEF TrailInv, RecordsOwed
      <3>3. q # r \/ records[p][q].n # m
        BY <1>3, <2>0, <2>7, <3>2 DEF OneHolder
      <3>4. QED
        BY <2>5, <3>2, <3>3 DEF Owed, HasLine, Working
    <2>9. TakenOwed'
      <3>1. SUFFICES ASSUME NEW d \in Notices, ccall'[d].record # NoRecord
                     PROVE  Owed(ccall[d].r, ccall[d].record.n)'
        BY DEF TakenOwed
      <3>2. /\ d # c /\ ccall'[d].r = ccall[d].r /\ ccall'[d].record.n = ccall[d].record.n
            /\ ccall[d].record # NoRecord
        BY <1>1, <3>1
      <3>3. /\ ccall[d].r \in Requests /\ ccall[d].record.n \in Int
            /\ Owed(ccall[d].r, ccall[d].record.n)
        BY <3>2, Numbers DEF TrailInv, TakenOwed
      <3>4. ccall[d].r # r \/ ccall[d].record.n # m
        BY <1>3, <2>0, <2>7, <3>2 DEF OneHolder
      <3>5. QED
        BY <2>5, <3>2, <3>3, <3>4, SMTT(40) DEF Owed, HasLine, Working
    <2>10. OneHolder'
      BY <1>1, <2>7 DEF OneHolder
    <2>11. TrailOnce'
      BY <2>1, <2>2, <2>3, TrailOnceAdded DEF TrailInv, Owed
    <2>12. QED
      BY <2>6, <2>8, <2>9, <2>10, <2>11 DEF TrailInv
  <1>4. QED
    BY <1>2, <1>3

LEMMA TrailInit == Init => TrailInv
  <1> SUFFICES ASSUME Init PROVE TrailInv
    OBVIOUS
  <1>1. \A p \in Plugins, q \in Requests : records[p][q] = NoRecord
    BY DEF Init
  <1>2. \A c \in Notices : ccall[c].record = NoRecord
    BY DEF Init, NoCall
  <1>3. \A q \in Requests : 1..Len(trail[q]) = {} /\ icall[q].at = "idle"
    BY DEF Init
  <1>4. LinesOld /\ TrailOnce
    <2>1. TrailOnce
      BY <1>3 DEF TrailOnce
    <2>2. LinesOld
      BY <1>3 DEF LinesOld, LinesOf, Working
    <2>3. QED
      BY <2>1, <2>2
  <1>5. QED
    BY <1>1, <1>2, <1>4 DEF TrailInv, RecordsOwed, TakenOwed, OneHolder

LEMMA TrailStep == TypeInv /\ TypeInv' /\ TrailInv /\ [Next]_vars => TrailInv'
  BY QuietSteps, QuietTrail, LogActionTrail, RememberTrail, TakeTrail, LogCompletionTrail

\* action_complete follows the line of the action it is about and is written once for
\* it, with retries, completions reported twice or in the middle of the interceptor,
\* trimmed records and reconfigurations: a record, wherever it is held, is the only
\* title to a completion line that is still owed.
THEOREM TrailCorrect == Spec => []TrailOnce
  <1>1. Init => TypeInv /\ TrailInv
    BY TypeInit, TrailInit
  <1>2. TypeInv /\ TrailInv /\ [Next]_vars => (TypeInv /\ TrailInv)'
    BY TypeStep, TrailStep
  <1>3. TypeInv /\ TrailInv => TrailOnce
    BY DEF TrailInv
  <1>4. QED
    BY <1>1, <1>2, <1>3, PTL DEF Spec

-----------------------------------------------------------------------------
(* The latest record.                                                      *)

LEMMA LatestStep == TypeInv /\ RecordIsLatest /\ [Next]_vars => RecordIsLatest'
  <1> SUFFICES ASSUME TypeInv, RecordIsLatest, [Next]_vars PROVE RecordIsLatest'
    OBVIOUS
  <1>0. icall \in [Requests -> InterceptRec]
    BY DEF TypeInv, TypeOK
  <1>1. ASSUME NEW r \in Requests, Observe(r) PROVE RecordIsLatest'
    <2>1. /\ icall'[r].at = "observed" /\ records' = records
          /\ \A q \in Requests \ {r} : icall'[q] = icall[q]
      BY <1>0, <1>1 DEF Observe
    <2>2. QED
      BY <2>1 DEF RecordIsLatest
  <1>2. ASSUME NEW r \in Requests, NEW at \in Phases, NEW outcome \in Outcomes,
               NEW stamp \in Nat, icall' = Goes(r, at, outcome, stamp), Working(r),
               tried' = tried
        PROVE  /\ icall'[r].p = icall[r].p /\ icall'[r].n = icall[r].n
               /\ \A q \in Requests \ {r} : icall'[q] = icall[q]
    <2>1. /\ icall'[r] = [at |-> at, p |-> icall[r].p, n |-> icall[r].n,
                          outcome |-> outcome, stamp |-> stamp]
          /\ \A q \in Requests \ {r} : icall'[q] = icall[q]
      BY <1>2, GoesOn
    <2>2. QED
      BY <2>1
  <1>3. ASSUME NEW r \in Requests, BeginRequest(r) PROVE RecordIsLatest'
    <2>1. /\ icall'[r].p = icall[r].p
          /\ \A q \in Requests \ {r} : icall'[q] = icall[q]
      BY <1>2, <1>3 DEF BeginRequest, Phases, Outcomes, Working
    <2>2. /\ records'[icall[r].p][r] = NoRecord
          /\ \A p \in Plugins, q \in Requests \ {r} : records'[p][q] = records[p][q]
      BY <1>3, CallTyped, RecordsTyped DEF BeginRequest
    <2>3. QED
      BY <2>1, <2>2, CallTyped DEF RecordIsLatest
  <1>4. ASSUME NEW r \in Requests, Decide(r) PROVE RecordIsLatest'
    <2>1. PICK outcome \in Outcomes : icall' = Goes(r, After(outcome), outcome, 0)
      BY <1>4 DEF Decide
    <2>2. After(outcome) \in Phases
      BY DEF After, Phases
    <2>3. /\ icall[r].at = "begun" /\ tried' = tried /\ Working(r) /\ records' = records
      BY <1>4 DEF Decide, Working
    <2>4. /\ icall'[r].p = icall[r].p /\ icall'[r].n = icall[r].n
          /\ \A q \in Requests \ {r} : icall'[q] = icall[q]
      BY <1>2, <2>1, <2>2, <2>3
    <2>5. QED
      BY <2>3, <2>4 DEF RecordIsLatest
  <1>5. ASSUME NEW r \in Requests, Discard(r) \/ LogAction(r) PROVE RecordIsLatest'
    <2>1. /\ icall[r].at \in {"failing", "counted"} /\ tried' = tried /\ Working(r)
          /\ records' = records /\ icall[r].outcome \in Outcomes /\ clock \in Nat
      BY <1>5, CallTyped DEF Discard, LogAction, Working, TypeInv, TypeOK
    <2>2. /\ icall'[r].p = icall[r].p /\ icall'[r].n = icall[r].n
          /\ \A q \in Requests \ {r} : icall'[q] = icall[q]
      BY <1>2, <1>5, <2>1 DEF Discard, LogAction, Phases
    <2>3. QED
      BY <2>1, <2>2 DEF RecordIsLatest
  <1>6. ASSUME NEW r \in Requests, Remember(r) PROVE RecordIsLatest'
    <2> DEFINE p == icall[r].p
               new == [n |-> icall[r].n, at |-> icall[r].stamp]
               recs == [records[p] EXCEPT ![r] = new]
               kept == [q \in Requests |-> IF q \in Trimmed(recs) THEN NoRecord ELSE recs[q]]
    <2>1. /\ icall'[r].p = icall[r].p /\ icall'[r].n = icall[r].n
          /\ \A q \in Requests \ {r} : icall'[q] = icall[q]
      BY <1>2, <1>6, CallTyped DEF Remember, Phases, Working
    <2>2. records' = [records EXCEPT ![p] = kept] /\ p \in Plugins
      BY <1>6, CallTyped DEF Remember
    <2>3. records \in [Plugins -> [Requests -> Record \cup {NoRecord}]]
      BY DEF TypeInv, TypeOK
    <2>4. new.n = icall[r].n
      OBVIOUS
    <2> HIDE DEF new
    <2>5. recs[r] = new /\ \A q \in Requests \ {r} : recs[q] = records[p][q]
      BY <2>2, <2>3
    <2> HIDE DEF recs
    <2>6. \A q \in Requests : kept[q] \in {NoRecord, recs[q]}
      OBVIOUS
    <2> HIDE DEF kept
    <2>7. records'[p] = kept /\ \A p1 \in Plugins \ {p} : records'[p1] = records[p1]
      BY <2>2, <2>3
    <2>8. \A q \in Requests \ {r} :
            records'[icall[q].p][q] \in {NoRecord, records[icall[q].p][q]}
      BY <2>5, <2>6, <2>7, CallTyped
    <2>9. records'[icall'[r].p][r] # NoRecord => records'[icall'[r].p][r].n = icall'[r].n
      BY <2>1, <2>4, <2>5, <2>6, <2>7
    <2>10. QED
      BY <2>1, <2>8, <2>9 DEF RecordIsLatest
  <1>7. ASSUME NEW c \in Notices, Take(c) PROVE RecordIsLatest'
    <2>1. ccall[c].r \in Requests /\ ccall[c].p \in Plugins /\ icall' = icall
      BY <1>7, NoticeTyped DEF Take
    <2>2. \A p \in Plugins, q \in Requests : records'[p][q] \in {NoRecord, records[p][q]}
      BY <1>7, <2>1, RecordsTyped DEF Take
    <2>3. QED
      BY <2>1, <2>2, CallTyped DEF RecordIsLatest
  <1>8. ASSUME UNCHANGED <<icall, records>> PROVE RecordIsLatest'
    BY <1>8 DEF RecordIsLatest
  <1>9. QED
    BY <1>1, <1>3, <1>4, <1>5, <1>6, <1>7, <1>8
       DEF Next, Tell, LogCompletion, Reconfigure, Forget, vars

\* When HandleRequestComplete asks for it, the record there is of the last candidate of
\* the request or there is none: beginRequest leaves nothing of an earlier one.
THEOREM LatestCorrect == Spec => []RecordIsLatest
  <1>1. Init => TypeInv /\ RecordIsLatest
    BY TypeInit, InterceptionAssumption DEF Init, RecordIsLatest
  <1>2. TypeInv /\ RecordIsLatest /\ [Next]_vars => (TypeInv /\ RecordIsLatest)'
    BY TypeStep, LatestStep
  <1>3. QED
    BY <1>1, <1>2, PTL DEF Spec

-----------------------------------------------------------------------------
(* The counters.                                                           *)

\* Sets of requests and notices that gain or lose a member.
LEMMA Sizes ==
    ASSUME NEW S, IsFiniteSet(S), NEW x
    PROVE  /\ Cardinality(S) \in Nat
           /\ IsFiniteSet(S \cup {x}) /\ IsFiniteSet(S \ {x})
           /\ x \notin S => Cardinality(S \cup {x}) = Cardinality(S) + 1
           /\ x \in S => S \cup {x} = S /\ Cardinality(S \ {x}) = Cardinality(S) - 1
           /\ x \notin S => S \ {x} = S
           /\ Cardinality(S \cup {x}) \in Nat /\ Cardinality(S \ {x}) \in Nat
           /\ Cardinality(S \cup {x}) <= Cardinality(S) + 1
           /\ Cardinality(S \ {x}) <= Cardinality(S)
  <1>1. Cardinality(S) \in Nat
    BY FS_CardinalityType
  <1>2. /\ IsFiniteSet(S \cup {x})
        /\ Cardinality(S \cup {x}) = IF x \in S THEN Cardinality(S) ELSE Cardinality(S) + 1
    BY FS_AddElement
  <1>3. /\ IsFiniteSet(S \ {x})
        /\ Cardinality(S \ {x}) = IF x \in S THEN Cardinality(S) - 1 ELSE Cardinality(S)
    BY FS_RemoveElement
  <1>4. (x \in S => S \cup {x} = S) /\ (x \notin S => S \ {x} = S)
    OBVIOUS
  <1>5. Cardinality(S \cup {x}) \in Nat /\ Cardinality(S \ {x}) \in Nat
    BY <1>2, <1>3, FS_CardinalityType
  <1>6. QED
    BY <1>1, <1>2, <1>3, <1>4, <1>5

LEMMA Finite ==
    ASSUME TypeInv, NEW p \in Plugins
    PROVE  /\ IsFiniteSet(Uncounted(p)) /\ IsFiniteSet(Completing(p)) /\ IsFiniteSet(tracked[p])
           /\ counters[p].observed \in Nat /\ counters[p].outcomes \in Nat
           /\ counters[p].completed \in Nat
  <1>1. Uncounted(p) \subseteq Requests /\ Completing(p) \subseteq Notices /\ tracked[p] \subseteq Requests
    BY DEF TypeInv, TypeOK, Uncounted, Completing
  <1>2. counters[p] \in [observed : Nat, outcomes : Nat, completed : Nat]
    BY DEF TypeInv, TypeOK
  <1>3. QED
    BY <1>1, <1>2, InterceptionAssumption, FS_Subset

\* What is counted as completed, or is about to be, or may be, was counted as an outcome.
Titles(p) == counters[p].completed + Cardinality(Completing(p)) + Cardinality(tracked[p])
Counting == \A c \in Notices : ccall[c].was => ccall[c].at \in {"told", "taken"}
CountInv == Ledger /\ Counting /\ \A p \in Plugins : Titles(p) <= counters[p].outcomes

\* A counter that goes up.
LEMMA CountersUp ==
    ASSUME TypeInv, NEW p \in Plugins
    PROVE  /\ counters' = [counters EXCEPT ![p].observed = @ + 1] =>
                /\ counters'[p].observed = counters[p].observed + 1
                /\ counters'[p].outcomes = counters[p].outcomes
                /\ counters'[p].completed = counters[p].completed
                /\ \A q \in Plugins \ {p} : counters'[q] = counters[q]
           /\ counters' = [counters EXCEPT ![p].outcomes = @ + 1] =>
                /\ counters'[p].observed = counters[p].observed
                /\ counters'[p].outcomes = counters[p].outcomes + 1
                /\ counters'[p].completed = counters[p].completed
                /\ \A q \in Plugins \ {p} : counters'[q] = counters[q]
           /\ counters' = [counters EXCEPT ![p].completed = @ + 1] =>
                /\ counters'[p].observed = counters[p].observed
                /\ counters'[p].outcomes = counters[p].outcomes
                /\ counters'[p].completed = counters[p].completed + 1
                /\ \A q \in Plugins \ {p} : counters'[q] = counters[q]
  BY DEF TypeInv, TypeOK

\* Steps of calls that have counted their request, or have not begun: nothing to count.
LEMMA NotCounting ==
    ASSUME TypeInv, CountInv,
           counters' = counters, ccall' = ccall,
           \A q \in Requests : icall'[q].p = icall[q].p /\
                (icall'[q].at \in {"observed", "begun"} <=> icall[q].at \in {"observed", "begun"}),
           \A p \in Plugins : tracked'[p] \subseteq tracked[p]
    PROVE  CountInv'
  <1>1. \A p \in Plugins : Uncounted(p)' = Uncounted(p) /\ Completing(p)' = Completing(p)
    BY DEF Uncounted, Completing
  <1>2. ASSUME NEW p \in Plugins
        PROVE  /\ Cardinality(tracked'[p]) <= Cardinality(tracked[p])
               /\ Cardinality(tracked'[p]) \in Nat /\ Cardinality(tracked[p]) \in Nat
               /\ Cardinality(Completing(p)) \in Nat
    BY <1>2, Finite, FS_Subset, FS_CardinalityType
  <1>3. Ledger'
    BY <1>1 DEF CountInv, Ledger
  <1>4. ASSUME NEW p \in Plugins PROVE Titles(p)' <= counters'[p].outcomes
    BY <1>1, <1>2, Finite DEF CountInv, Titles
  <1>5. QED
    BY <1>3, <1>4 DEF CountInv, Counting

LEMMA ObserveCount ==
    ASSUME TypeInv, CountInv, NEW r \in Requests, Observe(r)
    PROVE  CountInv'
  <1>0. PICK o \in Plugins : o = plugin
    BY DEF TypeInv, TypeOK
  <1>1. /\ icall[r].at = "idle" /\ icall'[r].at = "observed" /\ icall'[r].p = o
        /\ \A q \in Requests \ {r} : icall'[q] = icall[q]
        /\ ccall' = ccall /\ tracked' = tracked
    BY <1>0 DEF Observe, Working, TypeInv, TypeOK
  <1>2. /\ counters'[o].observed = counters[o].observed + 1
        /\ counters'[o].outcomes = counters[o].outcomes
        /\ counters'[o].completed = counters[o].completed
        /\ \A q \in Plugins \ {o} : counters'[q] = counters[q]
    BY <1>0, CountersUp DEF Observe
  <1>3. r \notin Uncounted(o) /\ Uncounted(o)' = Uncounted(o) \cup {r}
    BY <1>1 DEF Uncounted
  <1>4. \A p \in Plugins \ {o} : Uncounted(p)' = Uncounted(p)
    BY <1>1 DEF Uncounted
  <1>5. \A p \in Plugins : Completing(p)' = Completing(p)
    BY <1>1 DEF Completing
  <1>6. Cardinality(Uncounted(o)') = Cardinality(Uncounted(o)) + 1 /\ Cardinality(Uncounted(o)) \in Nat
    BY <1>3, Finite, Sizes
  <1>7. ASSUME NEW p \in Plugins
        PROVE  counters'[p].observed = counters'[p].outcomes + Cardinality(Uncounted(p)')
    <2>1. counters[p].observed = counters[p].outcomes + Cardinality(Uncounted(p))
      BY DEF CountInv, Ledger
    <2>2. CASE p = o
      BY <1>2, <1>6, <2>1, <2>2, Finite
    <2>3. CASE p # o
      BY <1>2, <1>4, <2>1, <2>3
    <2>4. QED
      BY <2>2, <2>3
  <1>8. ASSUME NEW p \in Plugins PROVE Titles(p)' <= counters'[p].outcomes
    <2>1. Titles(p)' = Titles(p) /\ counters'[p].outcomes = counters[p].outcomes
      BY <1>1, <1>2, <1>5 DEF Titles
    <2>2. QED
      BY <2>1 DEF CountInv
  <1>9. QED
    BY <1>1, <1>7, <1>8 DEF CountInv, Counting, Ledger

LEMMA DecideCount ==
    ASSUME TypeInv, CountInv, NEW r \in Requests, Decide(r)
    PROVE  CountInv'
  <1>0. PICK o \in Plugins : o = icall[r].p
    BY CallTyped
  <1>1. PICK outcome \in Outcomes :
            /\ icall' = Goes(r, After(outcome), outcome, 0)
            /\ \E after \in Tracks(outcome, tracked[o], r) :
                    tracked' = [tracked EXCEPT ![o] = after]
    BY <1>0 DEF Decide
  <1>2. /\ icall[r].at = "begun" /\ ccall' = ccall
        /\ icall'[r].p = o /\ icall'[r].at \notin {"observed", "begun"}
        /\ \A q \in Requests \ {r} : icall'[q] = icall[q]
    <2>1. /\ After(outcome) \in Phases /\ After(outcome) \notin {"observed", "begun"}
          /\ icall[r].at = "begun" /\ tried' = tried /\ Working(r) /\ ccall' = ccall
      BY DEF After, Phases, Decide, Working
    <2>2. icall'[r] = [at |-> After(outcome), p |-> icall[r].p, n |-> icall[r].n,
                       outcome |-> outcome, stamp |-> 0]
      BY <1>1, <2>1, GoesOn
    <2>3. \A q \in Requests \ {r} : icall'[q] = icall[q]
      BY <1>1, <2>1, GoesOn
    <2> HIDE DEF After
    <2>4. QED
      BY <1>0, <2>1, <2>2, <2>3
  <1>3. /\ counters'[o].observed = counters[o].observed
        /\ counters'[o].outcomes = counters[o].outcomes + 1
        /\ counters'[o].completed = counters[o].completed
        /\ \A q \in Plugins \ {o} : counters'[q] = counters[q]
    BY <1>0, CountersUp DEF Decide
  <1>4. r \in Uncounted(o) /\ Uncounted(o)' = Uncounted(o) \ {r}
    BY <1>0, <1>2 DEF Uncounted
  <1>5. \A p \in Plugins \ {o} : Uncounted(p)' = Uncounted(p)
    BY <1>0, <1>2 DEF Uncounted
  <1>6. \A p \in Plugins : Completing(p)' = Completing(p)
    BY <1>2 DEF Completing
  <1>7. Cardinality(Uncounted(o)') = Cardinality(Uncounted(o)) - 1 /\ Cardinality(Uncounted(o)) \in Nat
    BY <1>4, Finite, Sizes
  <1>8. /\ Cardinality(tracked'[o]) <= Cardinality(tracked[o]) + 1
        /\ Cardinality(tracked'[o]) \in Nat
        /\ \A p \in Plugins \ {o} : tracked'[p] = tracked[p]
    <2>1. tracked \in [Plugins -> SUBSET Requests]
      BY DEF TypeInv, TypeOK
    <2>2. PICK after \in Tracks(outcome, tracked[o], r) : tracked' = [tracked EXCEPT ![o] = after]
      BY <1>1
    <2>3. after \in {tracked[o], tracked[o] \ {r}, tracked[o] \cup {r}}
      BY <2>2 DEF Tracks
    <2>4. tracked'[o] = after /\ \A p \in Plugins \ {o} : tracked'[p] = tracked[p]
      BY <2>1, <2>2
    <2>5. IsFiniteSet(tracked[o])
      BY Finite
    <2>6. /\ Cardinality(tracked[o] \cup {r}) \in Nat /\ Cardinality(tracked[o] \ {r}) \in Nat
          /\ Cardinality(tracked[o] \cup {r}) <= Cardinality(tracked[o]) + 1
          /\ Cardinality(tracked[o] \ {r}) <= Cardinality(tracked[o])
          /\ Cardinality(tracked[o]) \in Nat
      BY <2>5, Sizes
    <2>7. Cardinality(after) <= Cardinality(tracked[o]) + 1 /\ Cardinality(after) \in Nat
      <3>1. CASE after = tracked[o] \cup {r}
        BY <2>6, <3>1
      <3>2. CASE after = tracked[o] \ {r}
        BY <2>6, <3>2
      <3>3. CASE after = tracked[o]
        BY <2>6, <3>3
      <3>4. QED
        BY <2>3, <3>1, <3>2, <3>3
    <2>8. QED
      BY <2>4, <2>7
  <1>9. ASSUME NEW p \in Plugins
        PROVE  counters'[p].observed = counters'[p].outcomes + Cardinality(Uncounted(p)')
    <2>1. counters[p].observed = counters[p].outcomes + Cardinality(Uncounted(p))
      BY DEF CountInv, Ledger
    <2>2. CASE p = o
      BY <1>3, <1>7, <2>1, <2>2, Finite
    <2>3. CASE p # o
      BY <1>3, <1>5, <2>1, <2>3
    <2>4. QED
      BY <2>2, <2>3
  <1>10. ASSUME NEW p \in Plugins PROVE Titles(p)' <= counters'[p].outcomes
    <2>1. Titles(p) <= counters[p].outcomes
      BY DEF CountInv
    <2>2. /\ Cardinality(Completing(p)) \in Nat /\ Cardinality(tracked[p]) \in Nat
          /\ counters[p].completed \in Nat /\ counters[p].outcomes \in Nat
      BY Finite, FS_CardinalityType
    <2>3. CASE p = o
      BY <1>3, <1>6, <1>8, <2>1, <2>2, <2>3 DEF Titles
    <2>4. CASE p # o
      BY <1>3, <1>6, <1>8, <2>1, <2>4 DEF Titles
    <2>5. QED
      BY <2>3, <2>4
  <1>11. QED
    BY <1>2, <1>9, <1>10 DEF CountInv, Counting, Ledger

LEMMA TellCount ==
    ASSUME TypeInv, CountInv, NEW c \in Notices, NEW r \in Requests, Tell(c, r)
    PROVE  CountInv'
  <1>0. PICK o \in Plugins : o = plugin
    BY DEF TypeInv, TypeOK
  <1>1. /\ icall' = icall /\ counters' = counters /\ ccall[c].at = "idle"
        /\ ccall'[c].p = o /\ ccall'[c].was = (r \in tracked[o])
        /\ \A d \in Notices \ {c} : ccall'[d] = ccall[d]
        /\ tracked'[o] = tracked[o] \ {r}
        /\ \A p \in Plugins \ {o} : tracked'[p] = tracked[p]
    <2>1. ccall \in [Notices -> CompleteRec] /\ tracked \in [Plugins -> SUBSET Requests]
      BY DEF TypeInv, TypeOK
    <2>2. QED
      BY <1>0, <2>1 DEF Tell
  <1>2. ~ccall[c].was
    BY <1>1 DEF CountInv, Counting
  <1>3. \A p \in Plugins : Uncounted(p)' = Uncounted(p)
    BY <1>1 DEF Uncounted
  <1>4. \A p \in Plugins \ {o} : Completing(p)' = Completing(p)
    BY <1>1, <1>2 DEF Completing
  <1>5. /\ c \notin Completing(o)
        /\ Completing(o)' = IF r \in tracked[o] THEN Completing(o) \cup {c} ELSE Completing(o)
    BY <1>1, <1>2 DEF Completing
  <1>6. /\ IsFiniteSet(Completing(o)) /\ IsFiniteSet(tracked[o])
        /\ counters[o].completed \in Nat /\ counters[o].outcomes \in Nat
    BY Finite
  <1>7. /\ Cardinality(Completing(o)) \in Nat
        /\ Cardinality(Completing(o) \cup {c}) = Cardinality(Completing(o)) + 1
    BY <1>5, <1>6, Sizes
  <1>8. /\ Cardinality(tracked[o]) \in Nat
        /\ r \in tracked[o] => Cardinality(tracked[o] \ {r}) = Cardinality(tracked[o]) - 1
        /\ r \notin tracked[o] => tracked[o] \ {r} = tracked[o]
    BY <1>6, Sizes
  <1>9. ASSUME NEW p \in Plugins PROVE Titles(p)' <= counters'[p].outcomes
    <2>1. Titles(p) <= counters[p].outcomes
      BY DEF CountInv
    <2>2. CASE p = o /\ r \in tracked[o]
      <3>1. Cardinality(Completing(o)') = Cardinality(Completing(o)) + 1
        BY <1>5, <1>7, <2>2
      <3>2. Cardinality(tracked'[o]) = Cardinality(tracked[o]) - 1
        BY <1>1, <1>8, <2>2
      <3>3. Titles(o)' = Titles(o)
        BY <1>1, <1>6, <1>7, <1>8, <3>1, <3>2 DEF Titles
      <3>4. QED
        BY <1>1, <2>1, <2>2, <3>3
    <2>3. CASE p = o /\ r \notin tracked[o]
      BY <1>1, <1>5, <1>8, <2>1, <2>3 DEF Titles
    <2>4. CASE p # o
      BY <1>1, <1>4, <2>1, <2>4 DEF Titles
    <2>5. QED
      BY <2>2, <2>3, <2>4
  <1>10. Ledger'
    BY <1>1, <1>3 DEF CountInv, Ledger
  <1>11. Counting'
    <2>1. ccall'[c].at = "told"
      BY DEF Tell, TypeInv, TypeOK
    <2>2. QED
      BY <1>1, <2>1 DEF CountInv, Counting
  <1>12. QED
    BY <1>9, <1>10, <1>11 DEF CountInv

LEMMA LogCompletionCount ==
    ASSUME TypeInv, CountInv, NEW c \in Notices, LogCompletion(c)
    PROVE  CountInv'
  <1>0. PICK o \in Plugins : o = ccall[c].p
    BY NoticeTyped
  <1>1. /\ icall' = icall /\ tracked' = tracked /\ ~ccall'[c].was
        /\ \A d \in Notices \ {c} : ccall'[d] = ccall[d]
    <2>1. ccall \in [Notices -> CompleteRec]
      BY DEF TypeInv, TypeOK
    <2>2. QED
      BY <2>1 DEF LogCompletion, Over
  <1>2. \A p \in Plugins : Uncounted(p)' = Uncounted(p)
    BY <1>1 DEF Uncounted
  <1>3. \A p \in Plugins \ {o} : Completing(p)' = Completing(p)
    BY <1>0, <1>1 DEF Completing
  <1>4. /\ Completing(o)' = Completing(o) \ {c}
        /\ ccall[c].was => c \in Completing(o)
        /\ ~ccall[c].was => c \notin Completing(o)
    BY <1>0, <1>1 DEF Completing
  <1>5. /\ IsFiniteSet(Completing(o)) /\ IsFiniteSet(tracked[o])
        /\ counters[o].completed \in Nat /\ counters[o].outcomes \in Nat
    BY Finite
  <1>6. /\ Cardinality(Completing(o)) \in Nat
        /\ c \in Completing(o) => Cardinality(Completing(o) \ {c}) = Cardinality(Completing(o)) - 1
        /\ c \notin Completing(o) => Completing(o) \ {c} = Completing(o)
    BY <1>5, Sizes
  <1>7. Cardinality(tracked[o]) \in Nat
    BY <1>5, Sizes
  <1>8. /\ \A p \in Plugins : counters'[p].observed = counters[p].observed
        /\ \A p \in Plugins : counters'[p].outcomes = counters[p].outcomes
        /\ \A p \in Plugins \ {o} : counters'[p].completed = counters[p].completed
        /\ counters'[o].completed =
                IF ccall[c].was THEN counters[o].completed + 1 ELSE counters[o].completed
    <2>1. CASE ccall[c].was
      <3>1. counters' = [counters EXCEPT ![o].completed = @ + 1]
        BY <1>0, <2>1 DEF LogCompletion, Completed
      <3>2. /\ counters'[o].observed = counters[o].observed
            /\ counters'[o].outcomes = counters[o].outcomes
            /\ counters'[o].completed = counters[o].completed + 1
            /\ \A q \in Plugins \ {o} : counters'[q] = counters[q]
        BY <3>1, CountersUp
      <3>3. QED
        BY <2>1, <3>2
    <2>2. CASE ~ccall[c].was
      <3>1. counters' = counters
        BY <2>2 DEF LogCompletion
      <3>2. QED
        BY <2>2, <3>1
    <2>3. QED
      BY <2>1, <2>2, NoticeTyped
  <1>9. ASSUME NEW p \in Plugins PROVE Titles(p)' <= counters'[p].outcomes
    <2>1. Titles(p) <= counters[p].outcomes
      BY DEF CountInv
    <2>2. CASE p = o
      <3>1. Cardinality(tracked'[o]) = Cardinality(tracked[o])
        BY <1>1
      <3>2. counters'[o].completed + Cardinality(Completing(o)')
                = counters[o].completed + Cardinality(Completing(o))
        <4>1. CASE ccall[c].was
          <5>1. Cardinality(Completing(o)') = Cardinality(Completing(o)) - 1
            BY <1>4, <1>6, <4>1
          <5>2. counters'[o].completed = counters[o].completed + 1
            BY <1>8, <4>1
          <5>3. QED
            BY <1>5, <1>6, <5>1, <5>2
        <4>2. CASE ~ccall[c].was
          BY <1>4, <1>6, <1>8, <4>2
        <4>3. QED
          BY <4>1, <4>2
      <3>3. Titles(o)' = Titles(o)
        BY <3>1, <3>2 DEF Titles
      <3>4. QED
        BY <1>8, <2>1, <2>2, <3>3
    <2>3. CASE p # o
      BY <1>1, <1>3, <1>8, <2>1, <2>3 DEF Titles
    <2>4. QED
      BY <2>2, <2>3
  <1>10. Ledger'
    BY <1>2, <1>8 DEF CountInv, Ledger
  <1>11. Counting'
    BY <1>1 DEF CountInv, Counting
  <1>12. QED
    BY <1>9, <1>10, <1>11 DEF CountInv

LEMMA CountInit == Init => CountInv
  <1> SUFFICES ASSUME Init PROVE CountInv
    OBVIOUS
  <1>1. ASSUME NEW p \in Plugins
        PROVE  /\ counters[p].observed = 0 /\ counters[p].outcomes = 0
               /\ counters[p].completed = 0
               /\ Uncounted(p) = {} /\ Completing(p) = {} /\ tracked[p] = {}
    BY DEF Init, NoCounts, Uncounted, Completing, NoCall
  <1>2. Cardinality({}) = 0
    BY FS_EmptySet
  <1>3. Ledger /\ \A p \in Plugins : Titles(p) <= counters[p].outcomes
    <2>1. ASSUME NEW p \in Plugins
          PROVE  /\ counters[p].observed = counters[p].outcomes + Cardinality(Uncounted(p))
                 /\ counters[p].completed + Cardinality(Completing(p)) + Cardinality(tracked[p])
                        <= counters[p].outcomes
      <3>1. /\ counters[p].observed = 0 /\ counters[p].outcomes = 0 /\ counters[p].completed = 0
            /\ Cardinality(Uncounted(p)) = 0 /\ Cardinality(Completing(p)) = 0
            /\ Cardinality(tracked[p]) = 0
        BY <1>1, <1>2
      <3>2. QED
        BY <3>1
    <2>2. QED
      BY <2>1 DEF Ledger, Titles
  <1>4. Counting
    BY DEF Init, Counting, NoCall
  <1>5. QED
    BY <1>3, <1>4 DEF CountInv

LEMMA CountStep == TypeInv /\ CountInv /\ [Next]_vars => CountInv'
  <1> SUFFICES ASSUME TypeInv, CountInv, [Next]_vars PROVE CountInv'
    OBVIOUS
  <1>1. ASSUME NEW r \in Requests, NEW at \in Phases, NEW outcome \in Outcomes,
               NEW stamp \in Nat, icall' = Goes(r, at, outcome, stamp), Working(r),
               tried' = tried,
               at \in {"observed", "begun"} <=> icall[r].at \in {"observed", "begun"}
        PROVE  \A q \in Requests : icall'[q].p = icall[q].p /\
                (icall'[q].at \in {"observed", "begun"} <=> icall[q].at \in {"observed", "begun"})
    <2>1. icall'[r] = [at |-> at, p |-> icall[r].p, n |-> icall[r].n,
                       outcome |-> outcome, stamp |-> stamp]
      BY <1>1, GoesOn
    <2>2. \A q \in Requests \ {r} : icall'[q] = icall[q]
      BY <1>1, GoesOn
    <2>3. icall'[r].p = icall[r].p /\ icall'[r].at = at
      BY <2>1
    <2>4. QED
      BY <1>1, <2>2, <2>3
  <1>2. ASSUME NEW r \in Requests, BeginRequest(r) PROVE CountInv'
    <2>1. /\ icall' = Goes(r, "begun", "pass", 0) /\ Working(r) /\ tried' = tried
          /\ "begun" \in Phases /\ "pass" \in Outcomes /\ 0 \in Nat
          /\ icall[r].at = "observed"
          /\ counters' = counters /\ ccall' = ccall /\ tracked' = tracked
      BY <1>2 DEF BeginRequest, Phases, Outcomes, Working
    <2>2. QED
      BY <1>1, <2>1, NotCounting
  <1>3. ASSUME NEW r \in Requests, Discard(r) PROVE CountInv'
    <2>1. /\ icall' = Goes(r, "counted", icall[r].outcome, 0) /\ Working(r) /\ tried' = tried
          /\ "counted" \in Phases /\ icall[r].outcome \in Outcomes /\ 0 \in Nat
          /\ icall[r].at = "failing"
          /\ counters' = counters /\ ccall' = ccall
      BY <1>3, CallTyped DEF Discard, Phases, Working
    <2>2. \A p \in Plugins : tracked'[p] \subseteq tracked[p]
      BY <1>3 DEF Discard, TypeInv, TypeOK
    <2>3. QED
      BY <1>1, <2>1, <2>2, NotCounting
  <1>4. ASSUME NEW r \in Requests, LogAction(r) PROVE CountInv'
    <2>1. /\ icall' = Goes(r, "logged", icall[r].outcome, clock) /\ Working(r) /\ tried' = tried
          /\ "logged" \in Phases /\ icall[r].outcome \in Outcomes /\ clock \in Nat
          /\ icall[r].at = "counted"
          /\ counters' = counters /\ ccall' = ccall /\ tracked' = tracked
      BY <1>4, CallTyped DEF LogAction, Phases, Working, TypeInv, TypeOK
    <2>2. QED
      BY <1>1, <2>1, NotCounting
  <1>5. ASSUME NEW r \in Requests, Remember(r) PROVE CountInv'
    <2>1. /\ icall' = Goes(r, "idle", icall[r].outcome, 0) /\ Working(r) /\ tried' = tried
          /\ "idle" \in Phases /\ icall[r].outcome \in Outcomes /\ 0 \in Nat
          /\ icall[r].at = "logged"
          /\ counters' = counters /\ ccall' = ccall /\ tracked' = tracked
      BY <1>5, CallTyped DEF Remember, Phases, Working
    <2>2. QED
      BY <1>1, <2>1, NotCounting
  <1>6. ASSUME NEW c \in Notices, Take(c) PROVE CountInv'
    <2>1. /\ icall' = icall /\ counters' = counters /\ tracked' = tracked
          /\ ccall[c].at = "told" /\ ccall'[c].at = "taken"
          /\ ccall'[c].p = ccall[c].p /\ ccall'[c].was = ccall[c].was
          /\ \A d \in Notices \ {c} : ccall'[d] = ccall[d]
      <3>1. ccall \in [Notices -> CompleteRec]
        BY DEF TypeInv, TypeOK
      <3>2. QED
        BY <1>6, <3>1 DEF Take, Taken
    <2>2. \A p \in Plugins : Uncounted(p)' = Uncounted(p) /\ Completing(p)' = Completing(p)
      BY <2>1 DEF Uncounted, Completing
    <2>3. Counting'
      BY <2>1 DEF CountInv, Counting
    <2>4. QED
      BY <2>1, <2>2, <2>3 DEF CountInv, Ledger, Titles
  <1>7. ASSUME NEW p \in Plugins, NEW r \in Requests, Forget(p, r) PROVE CountInv'
    <2>1. /\ icall' = icall /\ counters' = counters /\ ccall' = ccall
          /\ \A q \in Plugins : tracked'[q] \subseteq tracked[q]
      BY <1>7 DEF Forget, TypeInv, TypeOK
    <2>2. QED
      BY <2>1, NotCounting
  <1>8. ASSUME UNCHANGED <<icall, counters, ccall, tracked>> PROVE CountInv'
    BY <1>8, NotCounting
  <1>9. QED
    BY <1>2, <1>3, <1>4, <1>5, <1>6, <1>7, <1>8, ObserveCount, DecideCount, TellCount,
       LogCompletionCount DEF Next, Reconfigure, vars

\* metrics.go: every way out of InterceptRequestAfterAuth has counted the request under
\* one outcome, however many calls run.
THEOREM LedgerCorrect == Spec => []Ledger
  <1>1. Init => TypeInv /\ CountInv
    BY TypeInit, CountInit
  <1>2. TypeInv /\ CountInv /\ [Next]_vars => (TypeInv /\ CountInv)'
    BY TypeStep, CountStep
  <1>3. CountInv => Ledger
    BY DEF CountInv
  <1>4. QED
    BY <1>1, <1>2, <1>3, PTL DEF Spec

\* metrics.go: what is counted as completed, and all that may still be, was observed
\* before, with retries and completions reported twice or to another plugin object.
THEOREM CompletedOnceCorrect == Spec => []CompletedOnce
  <1>1. Init => TypeInv /\ CountInv
    BY TypeInit, CountInit
  <1>2. TypeInv /\ CountInv /\ [Next]_vars => (TypeInv /\ CountInv)'
    BY TypeStep, CountStep
  <1>3. TypeInv /\ CountInv => CompletedOnce
    <2> SUFFICES ASSUME TypeInv, CountInv, NEW p \in Plugins
                 PROVE  Titles(p) <= counters[p].observed
      BY DEF CompletedOnce, Titles
    <2>1. counters[p].observed = counters[p].outcomes + Cardinality(Uncounted(p))
      BY DEF CountInv, Ledger
    <2>2. Cardinality(Uncounted(p)) \in Nat /\ counters[p].outcomes \in Nat
      BY Finite, FS_CardinalityType
    <2>3. Titles(p) <= counters[p].outcomes /\ Titles(p) \in Int
      BY Finite, FS_CardinalityType DEF CountInv, Titles
    <2>4. QED
      BY <2>1, <2>2, <2>3
  <1>4. QED
    BY <1>1, <1>2, <1>3, PTL DEF Spec

-----------------------------------------------------------------------------
(* The bound of the reporter.                                              *)

\* A set of natural numbers has a least one.
LEMMA NatLeast ==
    ASSUME NEW T, T \subseteq Nat, T # {}
    PROVE  \E x \in T : \A y \in T : x <= y
  <1> DEFINE R == {xy \in Nat \X Nat : xy[1] < xy[2]}
  <1>1. IsWellFoundedOn(R, Nat)
    BY NatLessThanWellFounded DEF OpToRel
  <1>2. \A x, y \in Nat : x < y => <<x, y>> \in R
    OBVIOUS
  <1> HIDE DEF R
  <1>3. PICK x \in T : \A y \in T : <<y, x>> \notin R
    BY <1>1, WFMin
  <1>4. ASSUME NEW y \in T PROVE x <= y
    <2>1. x \in Nat /\ y \in Nat /\ ~ y < x
      BY <1>2, <1>3, <1>4
    <2>2. QED
      BY <2>1
  <1>5. QED
    BY <1>4

\* trimPendingLocked finds an oldest record to drop when there are too many.
LEMMA TrimsOne ==
    ASSUME NEW recs \in [Requests -> Record \cup {NoRecord}],
           Cardinality(Recorded(recs)) > MaxRecords
    PROVE  Trimmed(recs) # {} /\ Trimmed(recs) \subseteq Recorded(recs)
  <1>1. Cardinality(Recorded(recs)) # 0 /\ ~ Cardinality(Recorded(recs)) <= MaxRecords
    <2>1. IsFiniteSet(Recorded(recs))
      BY InterceptionAssumption, FS_Subset DEF Recorded
    <2>2. Cardinality(Recorded(recs)) \in Nat
      BY <2>1, FS_CardinalityType
    <2>3. QED
      BY <2>2, InterceptionAssumption
  <1>2. Recorded(recs) # {}
    BY <1>1, FS_EmptySet
  <1>3. \A r \in Recorded(recs) : recs[r] \in Record /\ recs[r].at \in Nat
    BY DEF Recorded, Record
  <1> DEFINE T == {recs[r].at : r \in Recorded(recs)}
  <1>4. T \subseteq Nat /\ T # {}
    BY <1>2, <1>3
  <1>5. PICK x \in T : \A y \in T : x <= y
    BY <1>4, NatLeast
  <1>6. PICK r \in Recorded(recs) : recs[r].at = x
    OBVIOUS
  <1>7. r \in Trimmed(recs)
    BY <1>1, <1>5, <1>6 DEF Trimmed
  <1>8. Trimmed(recs) \subseteq Recorded(recs)
    BY DEF Trimmed
  <1>9. QED
    BY <1>7, <1>8

\* After action() a reporter has as many records as before or as the bound allows.
LEMMA TrimmedFits ==
    ASSUME NEW before \in [Requests -> Record \cup {NoRecord}],
           Cardinality(Recorded(before)) <= MaxRecords,
           NEW r \in Requests, NEW new \in Record
    PROVE  LET recs == [before EXCEPT ![r] = new]
               kept == [q \in Requests |-> IF q \in Trimmed(recs) THEN NoRecord ELSE recs[q]]
           IN Cardinality(Recorded(kept)) <= MaxRecords
  <1> DEFINE recs == [before EXCEPT ![r] = new]
             kept == [q \in Requests |-> IF q \in Trimmed(recs) THEN NoRecord ELSE recs[q]]
  <1>1. /\ recs \in [Requests -> Record \cup {NoRecord}]
        /\ \A q \in Requests \ {r} : recs[q] = before[q]
    OBVIOUS
  <1>2. \A q \in Requests : kept[q] = IF q \in Trimmed(recs) THEN NoRecord ELSE recs[q]
    OBVIOUS
  <1> HIDE DEF recs, kept
  <1>3. IsFiniteSet(Recorded(before)) /\ IsFiniteSet(Recorded(recs)) /\ IsFiniteSet(Recorded(kept))
    BY InterceptionAssumption, FS_Subset DEF Recorded
  <1>4. /\ Cardinality(Recorded(before)) \in Nat /\ Cardinality(Recorded(recs)) \in Nat
        /\ Cardinality(Recorded(kept)) \in Nat /\ MaxRecords \in Nat
    BY <1>3, FS_CardinalityType, InterceptionAssumption
  <1>5. Recorded(kept) \subseteq Recorded(recs) \ Trimmed(recs)
    BY <1>2 DEF Recorded
  <1>6. CASE Cardinality(Recorded(recs)) <= MaxRecords
    <2>1. Recorded(kept) \subseteq Recorded(recs)
      BY <1>5
    <2>2. Cardinality(Recorded(kept)) <= Cardinality(Recorded(recs))
      BY <1>3, <2>1, FS_Subset
    <2>3. QED
      BY <1>4, <1>6, <2>2 DEF kept, recs
  <1>7. CASE ~ Cardinality(Recorded(recs)) <= MaxRecords
    <2>1. Cardinality(Recorded(recs)) > MaxRecords
      BY <1>4, <1>7
    <2>2. PICK q : q \in Trimmed(recs) /\ q \in Recorded(recs)
      BY <1>1, <2>1, TrimsOne
    <2>3. Recorded(kept) \subseteq Recorded(recs) \ {q}
      BY <1>5, <2>2
    <2>4. /\ IsFiniteSet(Recorded(recs) \ {q})
          /\ Cardinality(Recorded(recs) \ {q}) = Cardinality(Recorded(recs)) - 1
      BY <1>3, <2>2, Sizes
    <2>5. Cardinality(Recorded(kept)) <= Cardinality(Recorded(recs)) - 1
      BY <2>3, <2>4, FS_Subset
    <2>6. Recorded(recs) \subseteq Recorded(before) \cup {r}
      BY <1>1 DEF Recorded
    <2>7. /\ IsFiniteSet(Recorded(before) \cup {r})
          /\ Cardinality(Recorded(before) \cup {r}) <= Cardinality(Recorded(before)) + 1
          /\ Cardinality(Recorded(before) \cup {r}) \in Nat
      BY <1>3, Sizes
    <2>8. Cardinality(Recorded(recs)) <= Cardinality(Recorded(before) \cup {r})
      BY <2>6, <2>7, FS_Subset
    <2>9. Cardinality(Recorded(recs)) <= Cardinality(Recorded(before)) + 1
      BY <1>4, <2>7, <2>8
    <2>10. Cardinality(Recorded(kept)) <= MaxRecords
      BY <1>4, <2>5, <2>9
    <2>11. QED
      BY <2>10 DEF kept, recs
  <1>8. QED
    BY <1>6, <1>7

\* Fewer records are within the bound too.
LEMMA FewerFit ==
    ASSUME NEW some \in [Requests -> Record \cup {NoRecord}],
           NEW fewer \in [Requests -> Record \cup {NoRecord}],
           \A q \in Requests : fewer[q] # NoRecord => some[q] # NoRecord,
           Cardinality(Recorded(some)) <= MaxRecords
    PROVE  Cardinality(Recorded(fewer)) <= MaxRecords
  <1>1. Recorded(fewer) \subseteq Recorded(some)
    BY DEF Recorded
  <1>2. IsFiniteSet(Recorded(some)) /\ IsFiniteSet(Recorded(fewer))
    BY InterceptionAssumption, FS_Subset DEF Recorded
  <1>3. Cardinality(Recorded(fewer)) <= Cardinality(Recorded(some))
    BY <1>1, <1>2, FS_Subset
  <1>4. /\ Cardinality(Recorded(fewer)) \in Nat /\ Cardinality(Recorded(some)) \in Nat
        /\ MaxRecords \in Nat
    BY <1>2, FS_CardinalityType, InterceptionAssumption
  <1>5. QED
    BY <1>3, <1>4

\* Only action() adds a record, and it trims them.
LEMMA BoundStep == TypeInv /\ TypeInv' /\ ReporterBounded /\ [Next]_vars => ReporterBounded'
  <1> SUFFICES ASSUME TypeInv, TypeInv', ReporterBounded, [Next]_vars,
                      NEW p \in Plugins
               PROVE  Cardinality(Recorded(records'[p])) <= MaxRecords
    BY DEF ReporterBounded, Recorded
  <1>1. /\ records \in [Plugins -> [Requests -> Record \cup {NoRecord}]]
        /\ records' \in [Plugins -> [Requests -> Record \cup {NoRecord}]]
    BY DEF TypeInv, TypeOK
  <1>2. Cardinality(Recorded(records[p])) <= MaxRecords
    BY DEF ReporterBounded
  <1>3. ASSUME \A q \in Requests : records'[p][q] # NoRecord => records[p][q] # NoRecord
        PROVE  Cardinality(Recorded(records'[p])) <= MaxRecords
    <2>1. /\ records[p] \in [Requests -> Record \cup {NoRecord}]
          /\ records'[p] \in [Requests -> Record \cup {NoRecord}]
      BY <1>1
    <2>2. QED
      BY <1>2, <1>3, <2>1, FewerFit
  <1>4. ASSUME NEW r \in Requests, Remember(r)
        PROVE  Cardinality(Recorded(records'[p])) <= MaxRecords
    <2> DEFINE own == icall[r].p
               new == [n |-> icall[r].n, at |-> icall[r].stamp]
               recs == [records[own] EXCEPT ![r] = new]
               kept == [q \in Requests |-> IF q \in Trimmed(recs) THEN NoRecord ELSE recs[q]]
    <2>1. records' = [records EXCEPT ![own] = kept] /\ own \in Plugins /\ Working(r)
      BY <1>4, CallTyped DEF Remember, Working
    <2>2. new \in Record
      <3>1. icall[r].n \in 0..MaxCandidates /\ icall[r].stamp \in Nat
        BY DEF TypeInv, TypeOK, InterceptRec
      <3>2. icall[r].n > 0
        BY <2>1 DEF TypeInv, Numbered
      <3>3. icall[r].n \in 1..MaxCandidates
        BY <3>1, <3>2, InterceptionAssumption
      <3>4. QED
        BY <3>1, <3>3 DEF Record
    <2>3. records[own] \in [Requests -> Record \cup {NoRecord}]
      BY <1>1, <2>1
    <2>4. Cardinality(Recorded(records[own])) <= MaxRecords
      BY <2>1 DEF ReporterBounded
    <2> HIDE DEF own, new
    <2>5. Cardinality(Recorded(kept)) <= MaxRecords
      BY <2>2, <2>3, <2>4, TrimmedFits
    <2>6. p = own => records'[p] = kept
      BY <1>1, <2>1
    <2>7. p # own => records'[p] = records[p]
      BY <1>1, <2>1
    <2> HIDE DEF kept
    <2>8. QED
      BY <1>2, <2>5, <2>6, <2>7
  <1>5. ASSUME NEW r \in Requests, NEW own \in Plugins,
               records' = [records EXCEPT ![own][r] = NoRecord]
        PROVE  Cardinality(Recorded(records'[p])) <= MaxRecords
    <2>1. \A q \in Requests : records'[p][q] # NoRecord => records[p][q] # NoRecord
      BY <1>5, RecordsTyped
    <2>2. QED
      BY <1>3, <2>1
  <1>6. ASSUME NEW r \in Requests, BeginRequest(r)
        PROVE  Cardinality(Recorded(records'[p])) <= MaxRecords
    BY <1>5, <1>6, CallTyped DEF BeginRequest
  <1>7. ASSUME NEW c \in Notices, Take(c)
        PROVE  Cardinality(Recorded(records'[p])) <= MaxRecords
    BY <1>5, <1>7, NoticeTyped DEF Take
  <1>8. ASSUME records' = records
        PROVE  Cardinality(Recorded(records'[p])) <= MaxRecords
    BY <1>2, <1>8
  <1>9. QED
    BY <1>4, <1>6, <1>7, <1>8
       DEF Next, Observe, Decide, Discard, LogAction, Tell, LogCompletion, Reconfigure, Forget, vars

\* trimPendingLocked keeps the pending records within maxPending, although records of
\* requests that were canceled in the middle are taken by no completion.
THEOREM BoundCorrect == Spec => []ReporterBounded
  <1>1. Init => ReporterBounded
    <2>1. SUFFICES ASSUME Init, NEW p \in Plugins
                   PROVE  Cardinality(Recorded(records[p])) <= MaxRecords
      BY DEF ReporterBounded
    <2>2. Recorded(records[p]) = {}
      BY <2>1 DEF Init, Recorded
    <2>3. QED
      BY <2>2, FS_EmptySet, InterceptionAssumption
  <1>2. QED
    BY <1>1, TypeInit, TypeStep, BoundStep, PTL DEF Spec

-----------------------------------------------------------------------------
(* Completions that are owed are reported.                                 *)

\* Where the completion of candidate n of r is: in the log, or taken by a
\* HandleRequestComplete that will write it, or in the reporter of the plugin object that
\* handled r, whose HandleRequestComplete has yet to ask for it if r is over.
Logged(r, n) == HasLine(r, TRUE, n)
InHand(r, n) ==
    \E c \in Notices : /\ ccall[c].at = "taken" /\ ccall[c].r = r
                       /\ ccall[c].record # NoRecord /\ ccall[c].record.n = n
InReporter(r, n) ==
    /\ records[icall[r].p][r] # NoRecord /\ records[icall[r].p][r].n = n
    /\ host[r] = "over" =>
        \E c \in Notices : ccall[c].at = "told" /\ ccall[c].r = r /\ ccall[c].p = icall[r].p

\* A request that is over is not at work, unless it was canceled in the middle, and the
\* completion of what it did last is somewhere.
ReportOf(r) ==
    /\ host[r] = "over" => ~Working(r)
    /\ ~Working(r) /\ Acted(r) =>
        Logged(r, icall[r].n) \/ InHand(r, icall[r].n) \/ InReporter(r, icall[r].n)
ReportInv == \A r \in Requests \ excused : ReportOf(r)

\* A request that a step has nothing to do with is as well reported as before.
LEMMA ReportKept ==
    ASSUME NEW r \in Requests, ReportOf(r), icall'[r] = icall[r], host'[r] = host[r],
           records'[icall[r].p][r] = records[icall[r].p][r],
           Logged(r, icall[r].n) => Logged(r, icall[r].n)',
           \A c \in Notices :
                ccall[c].at \in {"told", "taken"} /\ ccall[c].r = r => ccall'[c] = ccall[c]
    PROVE  ReportOf(r)'
  <1> DEFINE n == icall[r].n
  <1>1. Working(r)' <=> Working(r)
    BY DEF Working
  <1>2. Acted(r)' <=> Acted(r)
    BY DEF Acted
  <1>3. InHand(r, n) => InHand(r, icall[r].n)'
    BY DEF InHand
  <1>4. InReporter(r, n) => InReporter(r, icall[r].n)'
    BY DEF InReporter
  <1>5. QED
    BY <1>1, <1>2, <1>3, <1>4 DEF ReportOf

\* The steps of InterceptRequestAfterAuth before its last: a request at work is not over, so
\* it owes nothing yet.
LEMMA WorkReport ==
    ASSUME TypeInv, TypeInv', ReportInv, NEW r \in Requests,
           Observe(r) \/ BeginRequest(r) \/ Decide(r) \/ Discard(r) \/ LogAction(r)
    PROVE  ReportInv'
  <1>0. icall \in [Requests -> InterceptRec] /\ icall[r].p \in Plugins
    BY CallTyped DEF TypeInv, TypeOK
  <1>1. excused' = excused /\ host' = host /\ ccall' = ccall
    BY DEF Observe, BeginRequest, Decide, Discard, LogAction
  <1>2. \A q \in Requests \ {r} : icall'[q] = icall[q]
    BY <1>0 DEF Observe, BeginRequest, Decide, Discard, LogAction, Goes
  <1>3. \A q \in Requests \ {r}, p \in Plugins : records'[p][q] = records[p][q]
    BY <1>0, RecordsTyped DEF Observe, BeginRequest, Decide, Discard, LogAction
  <1>4. \A q \in Requests \ {r} : trail'[q] = trail[q]
    <2>1. trail \in [Requests -> Seq(Line)]
      BY DEF TypeInv, TypeOK
    <2>2. QED
      BY <2>1 DEF Observe, BeginRequest, Decide, Discard, LogAction
  <1>5. ASSUME NEW q \in Requests \ {r}, q \notin excused PROVE ReportOf(q)'
    <2>1. ReportOf(q) /\ icall[q].p \in Plugins
      BY <1>5, CallTyped DEF ReportInv
    <2>2. Logged(q, icall[q].n) => Logged(q, icall[q].n)'
      BY <1>2, <1>4 DEF Logged, HasLine
    <2>3. QED
      BY <1>1, <1>2, <1>3, <2>1, <2>2, ReportKept
  <1>6. ASSUME r \notin excused PROVE ReportOf(r)'
    <2>1. ReportOf(r)
      BY <1>6 DEF ReportInv
    <2>2. CASE Observe(r)
      BY <1>0, <2>2 DEF Observe, ReportOf, Working
    <2>3. CASE ~Observe(r)
      <3>1. Working(r) /\ host[r] # "over"
        BY <2>1, <2>3 DEF BeginRequest, Decide, Discard, LogAction, Working, ReportOf
      <3>2. icall'[r].at # "idle" \/ icall'[r].outcome = "pass"
        BY <1>0, <2>3 DEF BeginRequest, Decide, Discard, LogAction, Goes, After
      <3>3. QED
        BY <1>1, <3>1, <3>2 DEF ReportOf, Working, Acted
    <2>4. QED
      BY <2>2, <2>3
  <1>7. QED
    BY <1>1, <1>5, <1>6 DEF ReportInv

\* action() keeps a record of what was done, or drops it to keep its bound.
LEMMA RememberReport ==
    ASSUME TypeInv, ReportInv, NEW r \in Requests, Remember(r)
    PROVE  ReportInv'
  <1> DEFINE p == icall[r].p
             new == [n |-> icall[r].n, at |-> icall[r].stamp]
             recs == [records[p] EXCEPT ![r] = new]
             kept == [q \in Requests |-> IF q \in Trimmed(recs) THEN NoRecord ELSE recs[q]]
  <1>1. /\ records' = [records EXCEPT ![p] = kept] /\ p \in Plugins
        /\ excused' = excused \cup Trimmed(recs)
        /\ ccall' = ccall /\ trail' = trail /\ Working(r)
    BY CallTyped DEF Remember, Working
  <1>2. records \in [Plugins -> [Requests -> Record \cup {NoRecord}]]
    BY DEF TypeInv, TypeOK
  <1>3. /\ icall'[r].at = "idle" /\ icall'[r].p = p /\ icall'[r].n = icall[r].n
        /\ \A q \in Requests \ {r} : icall'[q] = icall[q]
    <2>1. icall \in [Requests -> InterceptRec]
      BY DEF TypeInv, TypeOK
    <2>2. QED
      BY <2>1 DEF Remember, Goes
  <1>4. /\ \A q \in Requests \ {r} : host'[q] = host[q]
        /\ host'[r] \in {host[r], "refused"}
    BY DEF Remember, TypeInv, TypeOK
  <1>5. new.n = icall[r].n /\ new \in Record
    <2>1. icall[r].n \in 0..MaxCandidates /\ icall[r].n > 0 /\ icall[r].stamp \in Nat
      BY <1>1 DEF TypeInv, TypeOK, InterceptRec, Numbered
    <2>2. icall[r].n \in 1..MaxCandidates
      BY <2>1, InterceptionAssumption
    <2>3. QED
      BY <2>1, <2>2 DEF Record
  <1> HIDE DEF new
  <1>6. recs[r] = new /\ \A q \in Requests \ {r} : recs[q] = records[p][q]
    BY <1>1, <1>2
  <1> HIDE DEF recs
  <1>7. \A q \in Requests \ Trimmed(recs) : kept[q] = recs[q]
    OBVIOUS
  <1> HIDE DEF kept
  <1>8. records'[p] = kept /\ \A o \in Plugins \ {p} : records'[o] = records[o]
    BY <1>1, <1>2
  <1>9. ASSUME NEW q \in Requests \ {r}, q \notin excused' PROVE ReportOf(q)'
    <2>1. ReportOf(q) /\ icall[q].p \in Plugins /\ q \notin Trimmed(recs)
      BY <1>1, <1>9, CallTyped DEF ReportInv
    <2>2. records'[icall[q].p][q] = records[icall[q].p][q]
      BY <1>6, <1>7, <1>8, <2>1
    <2>3. Logged(q, icall[q].n) => Logged(q, icall[q].n)'
      BY <1>1, <1>3 DEF Logged, HasLine
    <2>4. QED
      BY <1>1, <1>3, <1>4, <2>1, <2>2, <2>3, ReportKept
  <1>10. ASSUME r \notin excused' PROVE ReportOf(r)'
    <2>1. host[r] # "over" /\ r \notin Trimmed(recs)
      BY <1>1, <1>10 DEF ReportInv, ReportOf
    <2>2. records'[p][r] = new /\ new # NoRecord /\ host'[r] # "over"
      BY <1>4, <1>5, <1>6, <1>7, <1>8, <2>1, NoRecordAssumption
    <2>3. InReporter(r, icall[r].n)'
      BY <1>3, <1>5, <2>2 DEF InReporter
    <2>4. QED
      BY <2>2, <2>3 DEF ReportOf
  <1>11. QED
    BY <1>9, <1>10 DEF ReportInv

\* The host reports a completion: what is in the reporter will be asked for, unless another
\* plugin object is told.
LEMMA TellReport ==
    ASSUME TypeInv, ReportInv, NEW c \in Notices, NEW r \in Requests, Tell(c, r)
    PROVE  ReportInv'
  <1>1. /\ ccall[c].at = "idle" /\ icall' = icall /\ records' = records /\ trail' = trail
        /\ excused' = IF Working(r) \/ icall[r].p # plugin THEN excused \cup {r} ELSE excused
    BY DEF Tell
  <1>2. /\ ccall'[c].at = "told" /\ ccall'[c].r = r /\ ccall'[c].p = plugin
        /\ \A d \in Notices \ {c} : ccall'[d] = ccall[d]
    BY DEF Tell, TypeInv, TypeOK
  <1>3. host'[r] = "over" /\ \A q \in Requests \ {r} : host'[q] = host[q]
    BY DEF Tell, TypeInv, TypeOK
  <1>4. ASSUME NEW q \in Requests \ {r}, q \notin excused' PROVE ReportOf(q)'
    <2>1. ReportOf(q)
      BY <1>1, <1>4 DEF ReportInv
    <2>2. Logged(q, icall[q].n) => Logged(q, icall[q].n)'
      BY <1>1 DEF Logged, HasLine
    <2>3. QED
      BY <1>1, <1>2, <1>3, <2>1, <2>2, ReportKept
  <1>5. ASSUME r \notin excused' PROVE ReportOf(r)'
    <2>1. ReportOf(r) /\ ~Working(r) /\ icall[r].p = plugin
      BY <1>1, <1>5 DEF ReportInv
    <2>2. Logged(r, icall[r].n) => Logged(r, icall[r].n)'
      BY <1>1 DEF Logged, HasLine
    <2>3. InHand(r, icall[r].n) => InHand(r, icall[r].n)'
      BY <1>1, <1>2 DEF InHand
    <2>4. InReporter(r, icall[r].n) => InReporter(r, icall[r].n)'
      BY <1>1, <1>2, <2>1 DEF InReporter
    <2>5. QED
      BY <1>1, <2>1, <2>2, <2>3, <2>4 DEF ReportOf, Working, Acted
  <1>6. QED
    BY <1>4, <1>5 DEF ReportInv

\* complete() of the reporter hands the record over.
LEMMA TakeReport ==
    ASSUME TypeInv, ReportInv, NEW c \in Notices, Take(c)
    PROVE  ReportInv'
  <1>0. PICK r \in Requests, p \in Plugins : ccall[c].r = r /\ ccall[c].p = p
    BY NoticeTyped DEF Take
  <1>1. ccall[c].at = "told" /\ UNCHANGED <<icall, host, trail, excused>>
    BY DEF Take
  <1>2. /\ ccall'[c].at = "taken" /\ ccall'[c].r = r /\ ccall'[c].record = records[p][r]
        /\ \A d \in Notices \ {c} : ccall'[d] = ccall[d]
    BY <1>0 DEF Take, Taken, TypeInv, TypeOK
  <1>3. \A o \in Plugins, q \in Requests : o # p \/ q # r => records'[o][q] = records[o][q]
    BY <1>0, RecordsTyped DEF Take
  <1>4. ASSUME NEW q \in Requests \ excused, q # r PROVE ReportOf(q)'
    <2>1. ReportOf(q) /\ icall[q].p \in Plugins
      BY CallTyped DEF ReportInv
    <2>2. Logged(q, icall[q].n) => Logged(q, icall[q].n)'
      BY <1>1 DEF Logged, HasLine
    <2>3. \A d \in Notices :
            ccall[d].at \in {"told", "taken"} /\ ccall[d].r = q => ccall'[d] = ccall[d]
      BY <1>0, <1>2, <1>4
    <2>4. QED
      BY <1>1, <1>3, <1>4, <2>1, <2>2, <2>3, ReportKept
  <1>5. ASSUME r \notin excused PROVE ReportOf(r)'
    <2>1. ReportOf(r) /\ icall[r].p \in Plugins
      BY <1>5, CallTyped DEF ReportInv
    <2>2. Logged(r, icall[r].n) => Logged(r, icall[r].n)'
      BY <1>1 DEF Logged, HasLine
    <2>3. InHand(r, icall[r].n) => InHand(r, icall[r].n)'
      <3>1. \A d \in Notices : ccall[d].at = "taken" => ccall'[d] = ccall[d]
        BY <1>1, <1>2
      <3>2. QED
        BY <1>1, <3>1 DEF InHand
    <2>4. CASE icall[r].p = p
      <3>1. InReporter(r, icall[r].n) => InHand(r, icall[r].n)'
        BY <1>1, <1>2, <2>4 DEF InReporter, InHand
      <3>2. QED
        BY <1>1, <2>1, <2>2, <2>3, <3>1 DEF ReportOf, Working, Acted
    <2>5. CASE icall[r].p # p
      <3>1. \A d \in Notices : ccall[d].p # p => ccall'[d] = ccall[d]
        BY <1>0, <1>2
      <3>2. InReporter(r, icall[r].n) => InReporter(r, icall[r].n)'
        BY <1>1, <1>3, <2>1, <2>5, <3>1 DEF InReporter
      <3>3. QED
        BY <1>1, <2>1, <2>2, <2>3, <3>2 DEF ReportOf, Working, Acted
    <2>6. QED
      BY <2>4, <2>5
  <1>6. QED
    BY <1>1, <1>4, <1>5 DEF ReportInv

\* The line of what was taken is written.
LEMMA LogCompletionReport ==
    ASSUME TypeInv, ReportInv, NEW c \in Notices, LogCompletion(c)
    PROVE  ReportInv'
  <1>0. PICK r \in Requests, record \in Record \cup {NoRecord} :
          ccall[c].r = r /\ ccall[c].record = record
    BY NoticeTyped DEF LogCompletion, TypeInv, TypeOK, CompleteRec
  <1> DEFINE line == [complete |-> TRUE, n |-> record.n]
  <1>1. /\ ccall[c].at = "taken"
        /\ UNCHANGED <<icall, host, records, excused>>
        /\ \A d \in Notices \ {c} : ccall'[d] = ccall[d]
    BY DEF LogCompletion, TypeInv, TypeOK
  <1>2. record = NoRecord => trail' = trail
    BY <1>0 DEF LogCompletion, CompletionLine
  <1>3. record # NoRecord => line \in Line /\ trail' = [trail EXCEPT ![r] = Append(@, line)]
    BY <1>0 DEF LogCompletion, CompletionLine, Record, Line
  <1> HIDE DEF line
  <1>4. ASSUME NEW q \in Requests, NEW n \in Int, Logged(q, n) PROVE Logged(q, n)'
    <2>1. CASE trail'[q] = trail[q]
      BY <1>4, <2>1 DEF Logged, HasLine
    <2>2. CASE q = r /\ record # NoRecord
      BY <1>1, <1>3, <1>4, <2>2, HasLineAdded DEF Logged
    <2>3. QED
      BY <1>1, <1>2, <1>3, <2>1, <2>2, LineAdded
  <1>5. ASSUME NEW q \in Requests \ excused PROVE ReportOf(q)'
    <2>1. ReportOf(q) /\ icall[q].n \in Int
      BY Numbers DEF ReportInv
    <2>2. Logged(q, icall[q].n) => Logged(q, icall[q].n)'
      BY <1>1, <1>4, <2>1 DEF Logged, HasLine
    <2>3. InHand(q, icall[q].n) => InHand(q, icall[q].n)' \/ Logged(q, icall[q].n)'
      <3>1. SUFFICES ASSUME InHand(q, icall[q].n)
                     PROVE  InHand(q, icall[q].n)' \/ Logged(q, icall[q].n)'
        OBVIOUS
      <3>2. PICK d \in Notices : /\ ccall[d].at = "taken" /\ ccall[d].r = q
                                 /\ ccall[d].record # NoRecord /\ ccall[d].record.n = icall[q].n
        BY <3>1 DEF InHand
      <3>3. CASE d # c
        BY <1>1, <3>2, <3>3 DEF InHand
      <3>4. CASE d = c
        <4>1. q = r /\ record # NoRecord /\ line = [complete |-> TRUE, n |-> icall[q].n]
          BY <1>0, <3>2, <3>4 DEF line
        <4>2. PICK n \in Int : n = icall[q].n
          BY <2>1
        <4>3. HasLine(r, TRUE, n)'
          BY <1>3, <4>1, <4>2, HasLineAdded
        <4>4. QED
          BY <1>1, <4>1, <4>2, <4>3 DEF Logged, HasLine
      <3>5. QED
        BY <3>3, <3>4
    <2>4. InReporter(q, icall[q].n) => InReporter(q, icall[q].n)'
      <3>1. \A d \in Notices : ccall[d].at = "told" => ccall'[d] = ccall[d]
        BY <1>1
      <3>2. QED
        BY <1>1, <3>1 DEF InReporter
    <2>5. QED
      BY <1>1, <2>1, <2>2, <2>3, <2>4 DEF ReportOf, Working, Acted
  <1>6. QED
    BY <1>1, <1>5 DEF ReportInv

\* Every step keeps the invariant.
LEMMA ReportStep == TypeInv /\ TypeInv' /\ ReportInv /\ [Next]_vars => ReportInv'
  <1> SUFFICES ASSUME TypeInv, TypeInv', ReportInv, [Next]_vars PROVE ReportInv'
    OBVIOUS
  <1>1. ASSUME UNCHANGED <<records, icall, ccall, host, trail, excused>> PROVE ReportInv'
    BY <1>1 DEF ReportInv, ReportOf, Logged, HasLine, InHand, InReporter, Working, Acted
  <1>2. QED
    BY <1>1, WorkReport, RememberReport, TellReport, TakeReport, LogCompletionReport
       DEF Next, Reconfigure, Forget, vars

\* A request whose last candidate was acted upon ends with action_complete for it, unless
\* the reporter forgot it to keep its bound, it was canceled in the middle, or its
\* completion went to another plugin object: records of other requests and of earlier
\* candidates, and completions reported twice, take nothing away.
THEOREM ReportCorrect == Spec => []Reported
  <1>1. Init => ReportInv
    BY DEF Init, ReportInv, ReportOf, Acted, Working
  <1>2. ReportInv => Reported
    BY DEF ReportInv, ReportOf, Reported, Settled, Logged, HasLine, InHand, InReporter
  <1>3. QED
    BY <1>1, <1>2, TypeInit, TypeStep, ReportStep, PTL DEF Spec
=============================================================================
