--------------------------- MODULE RoutingConfig ---------------------------
(***************************************************************************)
(* Loading the routing sections of the configuration                       *)
(* (internal/config/config.go: parseConfig, setDefaults, Validate).        *)
(*                                                                         *)
(* The global section and the one of each chain are completed in place,    *)
(* in the order of the file.  A section without an object of its own       *)
(* shares the one of the global section by pointer, and the methods that   *)
(* complete a section write through that pointer, so what is loaded for    *)
(* one chain could depend on the chains before it.                         *)
(*                                                                         *)
(* The objects live on a heap indexed by the section that allocated them.  *)
(* DetectionWindow, BanWindow and AlwaysRoute are completed alike and are  *)
(* the members of Fields; the three lists of error patterns are merged     *)
(* alike and are one set.  Durations and rates are numbers: a duration is  *)
(* unset unless it is positive, a rate when it is 0.                       *)
(***************************************************************************)
EXTENDS Integers, Sequences, Functions

CONSTANTS
    Nil,
    Global,             \* the global section
    Chains,             \* the sections of the chains, in the order of the file
    Fields,             \* the scalar settings
    Methods,            \* the RPC methods
    Sections(_),        \* what the file may say in a section
    DefaultField,       \* DefaultDetectionWindow, DefaultBanWindow, FALSE
    DefaultErrorRate,
    DefaultMaxLatency,
    MaxRate             \* 100 %

Owners == {Global} \cup Range(Chains)

\* What the file may say in one section.
IsSection(s) ==
    /\ s.latency # Nil =>
           /\ DOMAIN s.latency.methods \subseteq Methods
           /\ \A m \in DOMAIN s.latency.methods : s.latency.methods[m] \in Int
           /\ s.latency.threshold \in Int
    /\ s.errors # Nil =>
           /\ s.errors = [codes |-> s.errors.codes, rate |-> s.errors.rate]
           /\ s.errors.rate \in Int

ASSUME ConfigAssumption ==
    /\ Chains \in Seq(Range(Chains))
    /\ \A i, j \in 1..Len(Chains) : Chains[i] = Chains[j] => i = j
    /\ Global \notin Range(Chains)
    /\ Nil \notin Owners
    /\ \A o \in Owners : \A s \in Sections(o) : IsSection(s)
    /\ \A f \in Fields : DefaultField[f] # Nil
    /\ DefaultMaxLatency \in Nat \ {0}
    /\ MaxRate \in Nat
    /\ DefaultErrorRate \in 1..MaxRate

VARIABLES
    yaml,       \* the file: what each section says
    routing,    \* the RoutingConfig of each section
    latencies,  \* the heap of LatencyConfig objects, by section
    errors,     \* the heap of ErrorsConfig objects, by section
    stage,      \* the sections completed so far, the global one first
    outcome     \* of parseConfig

configVars == <<yaml, routing, latencies, errors, stage, outcome>>

(***************************************************************************)
(* The configuration under construction is passed around as one record.    *)
(***************************************************************************)
Config == [routing |-> routing, latencies |-> latencies, errors |-> errors]

NoErrors == [codes |-> {}, rate |-> 0]

\* RoutingConfig.IsEnhancedRoutingControlDefined.
IsEnhancedRoutingControlDefined(r) ==
    \/ r.errors # Nil
    \/ r.latency # Nil
    \/ \E f \in Fields : r.fields[f] # Nil

(***************************************************************************)
(* LatencyConfig                                                           *)
(***************************************************************************)
\* LatencyConfig.getLatencyThresholdForMethod.
getLatencyThresholdForMethod(l, m) ==
    IF m \in DOMAIN l.thresholds THEN l.thresholds[m] ELSE DefaultMaxLatency

\* LatencyConfig.getLatencyThreshold of object l.  What it returns is then
\* remembered (by initialize, below): in l, and never in g, since the one call
\* with l unset is made without a g.
getLatencyThreshold(l, g) ==
    IF l.threshold > 0 THEN l.threshold
    ELSE IF g # Nil /\ g.threshold > 0 THEN g.threshold
    ELSE DefaultMaxLatency

\* LatencyConfig.initialize of the object at o; the global section's object
\* is at g (which may be o itself, whose map is empty by then), or Nil.
LatencyInitialize(cfg, o, g) ==
    LET emptied == [cfg.latencies EXCEPT ![o].thresholds = <<>>]
        l == emptied[o]
        global == IF g = Nil THEN Nil ELSE emptied[g]
        unset == {m \in DOMAIN l.methods : l.methods[m] <= 0}
        asksGlobal == l.threshold <= 0 /\ g # Nil
        own == getLatencyThreshold(l, global)
        initialized == [l EXCEPT
            !.thresholds = [m \in DOMAIN l.methods |->
                IF m \notin unset THEN l.methods[m]
                ELSE IF asksGlobal THEN getLatencyThresholdForMethod(global, m)
                ELSE own],
            !.threshold = IF unset # {} /\ ~asksGlobal THEN own ELSE @]
    IN  [cfg EXCEPT !.latencies = [emptied EXCEPT ![o] = initialized]]

\* Mutant: the global section's thresholds overwrite the chain's.
LatencyMergeOverwrites(cfg, o, g) ==
    LET global == cfg.latencies[g].thresholds
    IN  [cfg EXCEPT !.latencies[o].thresholds =
            [m \in DOMAIN @ \cup DOMAIN global |->
                IF m \in DOMAIN global THEN global[m] ELSE @[m]]]

\* LatencyConfig.merge: the methods the object at o does not mention.
LatencyMerge(cfg, o, g) ==
    [cfg EXCEPT !.latencies[o].thresholds =
        [m \in DOMAIN @ \cup DOMAIN cfg.latencies[g].thresholds |->
            IF m \in DOMAIN @ THEN @[m] ELSE cfg.latencies[g].thresholds[m]]]

(***************************************************************************)
(* ErrorsConfig                                                            *)
(***************************************************************************)
\* ErrorsConfig.initialize.
ErrorsInitialize(cfg, o, g) ==
    [cfg EXCEPT !.errors[o].rate =
        IF @ # 0 THEN @
        ELSE IF g = Nil THEN DefaultErrorRate
        ELSE cfg.errors[g].rate]

\* Mutant: the patterns are added to the global object.
ErrorsMergeIntoGlobal(cfg, o, g) ==
    [cfg EXCEPT !.errors[g].codes = @ \cup cfg.errors[o].codes]

\* ErrorsConfig.merge.
ErrorsMerge(cfg, o, g) ==
    [cfg EXCEPT !.errors[o].codes = @ \cup cfg.errors[g].codes]

(***************************************************************************)
(* RoutingConfig.setDefaults                                               *)
(***************************************************************************)
\* The fields of section o: its own, the global section's, the default.
CompleteFields(cfg, o, global) ==
    [cfg EXCEPT !.routing[o].fields = [f \in Fields |->
        IF @[f] # Nil THEN @[f]
        ELSE IF global = Nil THEN DefaultField[f]
        ELSE cfg.routing[global].fields[f]]]

\* r.Latency, new or shared with the global section, initialized.
CompleteLatency(cfg, o, global) ==
    LET g == IF global = Nil THEN Nil ELSE cfg.routing[global].latency
        own == cfg.routing[o].latency
        l == IF own # Nil THEN own ELSE IF global = Nil THEN o ELSE g
    IN  LatencyInitialize([cfg EXCEPT !.routing[o].latency = l], l, g)

\* Mutant: a chain without errors keeps none.
CompleteErrorsIfGiven(cfg, o, global) ==
    IF cfg.routing[o].errors = Nil THEN cfg ELSE ErrorsInitialize(cfg, o, Nil)

\* r.Errors, new or shared with the global section, initialized.
CompleteErrors(cfg, o, global) ==
    LET g == IF global = Nil THEN Nil ELSE cfg.routing[global].errors
        own == cfg.routing[o].errors
        e == IF own # Nil THEN own ELSE IF global = Nil THEN o ELSE g
    IN  ErrorsInitialize([cfg EXCEPT !.routing[o].errors = e], e, g)

MergeGlobal(cfg, o, global) ==
    IF global = Nil THEN cfg
    ELSE LET merged == LatencyMerge(cfg, cfg.routing[o].latency,
                                         cfg.routing[global].latency)
         IN  ErrorsMerge(merged, cfg.routing[o].errors,
                                 cfg.routing[global].errors)

\* What setDefaults does once it has decided to complete section o.
Complete(cfg, o, global) ==
    LET fields == CompleteFields(cfg, o, global)
        latency == CompleteLatency(fields, o, global)
        errs == CompleteErrors(latency, o, global)
        merged == MergeGlobal(errs, o, global)
    IN  [merged EXCEPT !.routing[o].isInitialized = TRUE,
                       !.routing[o].isEnabled = TRUE]

\* RoutingConfig.setDefaults of the global section, forced by a chain or not.
SetGlobalDefaults(cfg, force) ==
    LET r == cfg.routing[Global]
    IN  IF ~r.isInitialized /\ (force \/ IsEnhancedRoutingControlDefined(r))
        THEN Complete(cfg, Global, Nil)
        ELSE cfg

\* RoutingConfig.setDefaults of a chain's section.
SetDefaults(cfg, c) ==
    IF \/ cfg.routing[c].isInitialized
       \/ /\ ~IsEnhancedRoutingControlDefined(cfg.routing[c])
          /\ ~IsEnhancedRoutingControlDefined(cfg.routing[Global])
    THEN cfg
    ELSE Complete(SetGlobalDefaults(cfg, TRUE), c, Global)

\* Mutant: the chain looks at the global section as it is now.
SetChainDefaultsNow(cfg, c, isGlobalSpecified) == SetDefaults(cfg, c)

\* SingleChainConfig.setDefaults: isGlobalSpecified is what the file said,
\* for an earlier chain may have completed the global section since.
SetChainDefaults(cfg, c, isGlobalSpecified) ==
    IF ~isGlobalSpecified /\ ~IsEnhancedRoutingControlDefined(cfg.routing[c])
    THEN cfg
    ELSE SetDefaults(cfg, c)

(***************************************************************************)
(* parseConfig                                                             *)
(***************************************************************************)
\* RoutingConfig.isErrorRateValid; isRoutingConfigValid asks nothing else.
isErrorRateValid(cfg, o) ==
    LET e == cfg.routing[o].errors
    IN  e # Nil => cfg.errors[e].rate \in 0..MaxRate

\* Section o as yaml.Unmarshal leaves it: an object for what the file gives.
Unmarshal(o) ==
    [fields |-> yaml[o].fields,
     latency |-> IF yaml[o].latency = Nil THEN Nil ELSE o,
     errors |-> IF yaml[o].errors = Nil THEN Nil ELSE o,
     isInitialized |-> FALSE,
     isEnabled |-> FALSE]

\* The objects of section o as yaml.Unmarshal leaves them.
ReadLatency(o) ==
    [methods |-> IF yaml[o].latency = Nil THEN <<>> ELSE yaml[o].latency.methods,
     threshold |-> IF yaml[o].latency = Nil THEN 0 ELSE yaml[o].latency.threshold,
     thresholds |-> <<>>]

ReadErrors(o) == IF yaml[o].errors = Nil THEN NoErrors ELSE yaml[o].errors

ConfigInit ==
    /\ yaml \in {y \in [Owners -> UNION {Sections(o) : o \in Owners}] :
                    \A o \in Owners : y[o] \in Sections(o)}
    /\ routing = [o \in Owners |-> Unmarshal(o)]
    /\ latencies = [o \in Owners |-> ReadLatency(o)]
    /\ errors = [o \in Owners |-> ReadErrors(o)]
    /\ stage = 0
    /\ outcome = "loading"

Become(cfg) ==
    /\ routing' = cfg.routing
    /\ latencies' = cfg.latencies
    /\ errors' = cfg.errors

\* What Config.Global.setDefaults returned.
IsGlobalSpecified == IsEnhancedRoutingControlDefined(yaml[Global])

\* Config.setDefaults: the global section ...
SetGlobal ==
    /\ stage = 0
    /\ Become(SetGlobalDefaults(Config, FALSE))
    /\ stage' = 1
    /\ UNCHANGED <<yaml, outcome>>

\* ... then each chain's.
SetChain ==
    /\ stage \in 1..Len(Chains)
    /\ Become(SetChainDefaults(Config, Chains[stage], IsGlobalSpecified))
    /\ stage' = stage + 1
    /\ UNCHANGED <<yaml, outcome>>

\* Mutant: the global section is not validated.
ValidateChains ==
    /\ stage = Len(Chains) + 1
    /\ outcome = "loading"
    /\ outcome' = IF /\ Len(Chains) > 0
                     /\ \A o \in Range(Chains) : isErrorRateValid(Config, o)
                  THEN "accepted" ELSE "rejected"
    /\ UNCHANGED <<yaml, routing, latencies, errors, stage>>

\* Config.Validate, with isChainsValid.
Validate ==
    /\ stage = Len(Chains) + 1
    /\ outcome = "loading"
    /\ outcome' = IF /\ Len(Chains) > 0
                     /\ \A o \in Owners : isErrorRateValid(Config, o)
                  THEN "accepted" ELSE "rejected"
    /\ UNCHANGED <<yaml, routing, latencies, errors, stage>>

ConfigNext == SetGlobal \/ SetChain \/ Validate

ConfigSpec == ConfigInit /\ [][ConfigNext]_configVars

(***************************************************************************)
(* What the checkers of an upstream read                                   *)
(***************************************************************************)
\* checks.getLatencyThreshold, of LatencyConfig l.
getLatencyThresholdIn(l, m) ==
    IF m \in DOMAIN l.thresholds THEN l.thresholds[m] ELSE l.threshold

\* The settings of section o as the checkers see them.
SettingsIn(cfg, o) ==
    [fields |-> cfg.routing[o].fields,
     rate |-> cfg.errors[cfg.routing[o].errors].rate,
     codes |-> cfg.errors[cfg.routing[o].errors].codes,
     thresholds |-> [m \in Methods |->
         getLatencyThresholdIn(cfg.latencies[cfg.routing[o].latency], m)]]

Settings(o) == SettingsIn(Config, o)

(***************************************************************************)
(* What the file asks for, by the rule of setDefaults (config.go:395-397): *)
(* a value that the chain does not specify is the global section's, and    *)
(* what neither specifies is the default.                                  *)
(***************************************************************************)
GivenRate(rate, otherwise) == IF rate = 0 THEN otherwise ELSE rate
GivenDuration(d, otherwise) == IF d > 0 THEN d ELSE otherwise

IsSpecified(c) ==
    IsGlobalSpecified \/ IsEnhancedRoutingControlDefined(yaml[c])

SpecifiedFields(c) ==
    [f \in Fields |->
        IF yaml[c].fields[f] # Nil THEN yaml[c].fields[f]
        ELSE IF yaml[Global].fields[f] # Nil THEN yaml[Global].fields[f]
        ELSE DefaultField[f]]

RateIn(o) == IF yaml[o].errors = Nil THEN 0 ELSE yaml[o].errors.rate
CodesIn(o) == IF yaml[o].errors = Nil THEN {} ELSE yaml[o].errors.codes

GlobalRate == GivenRate(RateIn(Global), DefaultErrorRate)
SpecifiedRate(c) == GivenRate(RateIn(c), GlobalRate)
SpecifiedCodes(c) == CodesIn(c) \cup CodesIn(Global)

\* The threshold that section o gives the method, and the one that it gives
\* all methods: not positive when it gives none.
Lists(o, m) == yaml[o].latency # Nil /\ m \in DOMAIN yaml[o].latency.methods
MethodThreshold(o, m) == IF Lists(o, m) THEN yaml[o].latency.methods[m] ELSE 0
TopThreshold(o) == IF yaml[o].latency = Nil THEN 0 ELSE yaml[o].latency.threshold

GlobalThreshold(m) ==
    GivenDuration(MethodThreshold(Global, m),
                  GivenDuration(TopThreshold(Global), DefaultMaxLatency))

\* A method that only the global section lists has its threshold from there.
SpecifiedThreshold(c, m) ==
    GivenDuration(MethodThreshold(c, m),
        IF Lists(Global, m) /\ ~Lists(c, m) THEN GlobalThreshold(m)
        ELSE GivenDuration(TopThreshold(c), GlobalThreshold(m)))

\* The methods for which the code does not do so: the chain sets nothing for
\* them, the global section does not list them, and
\* - the chain lists them, so that they get the default in place of the
\*   global section's threshold for all methods;
\* - or the chain has a latency section without them, or has none and nor does
\*   the global section have a threshold for all methods (set or, for want of
\*   one for a method it lists, made up): these get none at all, that is 0,
\*   and every request for them counts as too slow (latency >= 0).
\* ThresholdsAsSpecified is about them.
Overlooked(c, m) ==
    /\ MethodThreshold(c, m) <= 0 /\ TopThreshold(c) <= 0
    /\ ~Lists(Global, m)
    /\ IF yaml[c].latency # Nil
       THEN ~Lists(c, m) \/ TopThreshold(Global) > 0
       ELSE /\ TopThreshold(Global) <= 0
            /\ \A n \in Methods : Lists(Global, n) => MethodThreshold(Global, n) > 0

(***************************************************************************)
(* Properties                                                              *)
(***************************************************************************)
\* Type invariant: what a checker dereferences without a test, the objects of
\* an enabled section, is there.
ConfigTypeOK ==
    /\ \A o \in Owners :
        /\ routing[o].isInitialized \in BOOLEAN
        /\ routing[o].isEnabled \in BOOLEAN
        /\ routing[o].latency \in Owners \cup {Nil}
        /\ routing[o].errors \in Owners \cup {Nil}
        /\ routing[o].isEnabled =>
               Nil \notin {routing[o].latency, routing[o].errors}
                          \cup {routing[o].fields[f] : f \in Fields}
    /\ \A o \in Owners :
        /\ DOMAIN latencies[o].thresholds \subseteq Methods
        /\ latencies[o].threshold \in Int
        /\ errors[o].rate \in Int
    /\ stage \in 0..Len(Chains) + 1
    /\ outcome \in {"loading", "accepted", "rejected"}

\* The configuration that parseConfig makes of a file with no chain but c.
LoadedAlone(c) ==
    LET read == [routing |-> [o \in Owners |-> Unmarshal(o)],
                 latencies |-> [o \in Owners |-> ReadLatency(o)],
                 errors |-> [o \in Owners |-> ReadErrors(o)]]
    IN  SetChainDefaults(SetGlobalDefaults(read, FALSE), c, IsGlobalSpecified)

\* A chain is loaded as the comment of setDefaults says (config.go:395-397):
\* it is enabled when its own section or the global one says anything (an
\* earlier chain that made setDefaults complete an absent global section does
\* not count), and what it does not specify comes from the global section or
\* is the default, but for the thresholds of Overlooked, which are at least the
\* same whatever other chains the file has.  The file is accepted when it has
\* a chain and every rate that it gives is one: completing a section hides no
\* bad rate and makes none.
LoadsAsSpecified ==
    /\ \A i \in 1..Len(Chains) :
        LET c == Chains[i]
        IN  stage > i =>
                /\ routing[c].isEnabled <=> IsSpecified(c)
                /\ routing[c].isEnabled =>
                       /\ Settings(c).fields = SpecifiedFields(c)
                       /\ Settings(c).rate = SpecifiedRate(c)
                       /\ Settings(c).codes = SpecifiedCodes(c)
                       /\ \A m \in Methods :
                             Settings(c).thresholds[m] =
                                 IF Overlooked(c, m)
                                 THEN SettingsIn(LoadedAlone(c), c).thresholds[m]
                                 ELSE SpecifiedThreshold(c, m)
    /\ outcome # "loading" =>
           (outcome = "accepted" <=>
               /\ Len(Chains) > 0
               /\ \A o \in Owners : yaml[o].errors # Nil =>
                                        yaml[o].errors.rate \in 0..MaxRate)

\* All of a chain is loaded as if it were the only one of the file: nothing that the chains before it write, to the objects they
\* share or to the global section, and no chain after it, makes a difference.
LoadsAsIfAlone ==
    \A i \in 1..Len(Chains) :
        LET c == Chains[i]
            alone == LoadedAlone(c)
        IN  stage > i =>
                /\ routing[c].isEnabled <=> alone.routing[c].isEnabled
                /\ routing[c].isEnabled => Settings(c) = SettingsIn(alone, c)

\* Once a section is complete no later section changes its settings, though
\* initialize and merge of a chain without objects write to the global ones.
SettingsAreFinal ==
    [][\A o \in Owners :
          routing[o].isInitialized => Settings(o)' = Settings(o)]_configVars

\* config.go:395-397: "For each routing config value that is not specified, use
\* the corresponding global config value if the global config is specified.
\* Otherwise, use the default value."  The thresholds of Overlooked are not so.
ThresholdsAsSpecified ==
    \A i \in 1..Len(Chains), m \in Methods :
        LET c == Chains[i]
        IN  outcome = "accepted" /\ routing[c].isEnabled =>
                Settings(c).thresholds[m] = SpecifiedThreshold(c, m)
=============================================================================
