------------------------------- MODULE Config --------------------------------
(***************************************************************************)
(* parsePluginConfig of config.go, and the sweep interval that state.go    *)
(* derives from what it accepts: the values RouteState takes for           *)
(* constants.  Durations are nanoseconds, as in the code.                  *)
(*                                                                         *)
(* The YAML decoder is one bit, and so is what is said of a name: the      *)
(* document decodes without unknown fields (the host's "store" aside), and *)
(* state_file is blank or absolute.                                        *)
(***************************************************************************)
EXTENDS Integers, TLAPS

CONSTANTS
    Unset,      \* a field that is missing or blank
    Misspelt    \* a text that time.ParseDuration or the lists of names refuse

Second == 1000000000
Minute == 60 * Second
Hour == 60 * Minute
DefaultStateTTL == 4 * Hour
MaxStateTTL == 24 * Hour
DefaultMaxSessions == 4096
DefaultMaxPending == 8192
MaxTrackedEntries == 65536

Policies == {"block", "strip"}
Levels == {"off", "actions", "debug"}

RawConfig ==
    [decodes : BOOLEAN, absolute : BOOLEAN,
     state_ttl : Int \cup {Unset, Misspelt}, max_sessions : Int, max_pending : Int,
     compaction_policy : Policies \cup {Unset, Misspelt},
     diagnostics : Levels \cup {Unset, Misspelt}]

\* A blank text, and a zero number, stand for the default.
OrDefault(text, default) == IF text = Unset THEN default ELSE text
OrDefaultEntries(n, default) == IF n = 0 THEN default ELSE n

Parsed(raw) ==
    [StateTTL |-> OrDefault(raw.state_ttl, DefaultStateTTL),
     MaxSessions |-> OrDefaultEntries(raw.max_sessions, DefaultMaxSessions),
     MaxPending |-> OrDefaultEntries(raw.max_pending, DefaultMaxPending),
     CompactionPolicy |-> OrDefault(raw.compaction_policy, "block"),
     Diagnostics |-> OrDefault(raw.diagnostics, "actions")]

Accepted(raw) ==
    LET cfg == Parsed(raw) IN
    /\ raw.decodes /\ raw.absolute
    /\ raw.state_ttl # Misspelt
    /\ cfg.StateTTL >= Minute /\ cfg.StateTTL <= MaxStateTTL
    /\ cfg.MaxSessions >= 1 /\ cfg.MaxSessions <= MaxTrackedEntries
    /\ cfg.MaxPending >= 1 /\ cfg.MaxPending <= MaxTrackedEntries
    /\ cfg.CompactionPolicy \in Policies
    /\ cfg.Diagnostics \in Levels

\* maybePurgeExpiredLocked: the time to the next sweep.
SweepInterval(ttl) ==
    LET interval == ttl \div 16 IN
    IF interval < Second THEN Second ELSE IF interval > Minute THEN Minute ELSE interval

-----------------------------------------------------------------------------
\* The durations are what their names say: the least state_ttl is sixteen sweeps of a second
\* and more.
LEMMA Durations ==
    /\ Second \in Nat /\ Second >= 1
    /\ Minute \in Nat /\ Minute >= 16 * Second
    /\ DefaultStateTTL \in Int /\ MaxStateTTL \in Int
  <1>1. Second \in Nat /\ Second >= 1
    BY SMT DEF Second
  <1>2. Minute \in Nat /\ Minute >= 16 * Second
    BY <1>1, SMT DEF Minute
  <1>3. Hour \in Nat
    BY <1>2, SMT DEF Hour
  <1>4. DefaultStateTTL \in Int /\ MaxStateTTL \in Int
    BY <1>3, SMT DEF DefaultStateTTL, MaxStateTTL
  <1>5. QED
    BY <1>1, <1>2, <1>4

\* A state_ttl that is accepted is a duration, whatever the text was.
LEMMA AcceptedDuration ==
    ASSUME NEW raw \in RawConfig, Accepted(raw)
    PROVE  Parsed(raw).StateTTL \in Minute..MaxStateTTL
  <1>1. raw.state_ttl \in Int \cup {Unset}
    BY DEF RawConfig, Accepted
  <1>2. Parsed(raw).StateTTL \in Int
    BY <1>1, Durations DEF Parsed, OrDefault
  <1>3. Parsed(raw).StateTTL >= Minute /\ Parsed(raw).StateTTL <= MaxStateTTL
    BY DEF Accepted
  <1>4. QED
    BY <1>2, <1>3, Durations

\* What parsePluginConfig accepts, defaults and explicit values alike, satisfies the
\* assumptions under which the store is proved correct (RouteState, BoundsAssumption):
\* both caps hold one entry, and the next sweep is planned within the TTL, not at once.
THEOREM AcceptedBounds ==
    ASSUME NEW raw \in RawConfig, Accepted(raw)
    PROVE  LET cfg == Parsed(raw) IN
           /\ cfg.MaxSessions \in Nat \ {0} /\ cfg.MaxPending \in Nat \ {0}
           /\ cfg.StateTTL \in Nat \ {0}
           /\ SweepInterval(cfg.StateTTL) \in 1..cfg.StateTTL
  <1> DEFINE cfg == Parsed(raw)
  <1>1. cfg.StateTTL \in Minute..MaxStateTTL
    BY AcceptedDuration
  <1>2. cfg.MaxSessions \in Nat \ {0}
    <2>1. cfg.MaxSessions \in Int
      BY SMT DEF RawConfig, Parsed, OrDefaultEntries, DefaultMaxSessions
    <2>2. QED
      BY <2>1 DEF Accepted
  <1>3. cfg.MaxPending \in Nat \ {0}
    <2>1. cfg.MaxPending \in Int
      BY SMT DEF RawConfig, Parsed, OrDefaultEntries, DefaultMaxPending
    <2>2. QED
      BY <2>1 DEF Accepted
  <1> HIDE DEF cfg
  <1>4. cfg.StateTTL \in Nat \ {0} /\ cfg.StateTTL >= 16 * Second
    BY <1>1, Durations
  <1>5. SweepInterval(cfg.StateTTL) \in 1..cfg.StateTTL
    BY <1>4, Durations DEF SweepInterval
  <1>6. QED
    BY <1>2, <1>3, <1>4, <1>5 DEF cfg
=============================================================================
