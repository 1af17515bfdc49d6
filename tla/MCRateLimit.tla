---------------------------- MODULE MCRateLimit ----------------------------
(***************************************************************************)
(* Rate limiting for TLC: RateCounter, one counter, and RateConfig, the    *)
(* rules it is given.  They share no variable: a behaviour is about one of *)
(* the two.                                                                *)
(***************************************************************************)
EXTENDS RateCounter, TLC

CONSTANTS RuleCheck, Admin, Nil, RuleTtl, InvalidTtl, RuleDelay, Changing,
          MaxChanges, MaxFaults

VARIABLES rules, cached, call, admin, signals, changes, faults, answered, lost

config == <<rules, cached, call, admin, signals, changes, faults, answered, lost>>

Config == INSTANCE RateConfig WITH
    Check <- RuleCheck, Ttl <- RuleTtl, MaxDelay <- RuleDelay

Symmetry == Permutations(Check) \cup Permutations(RuleCheck)

CounterInit ==
    /\ Init
    /\ rules = Nil /\ cached = Nil /\ call = Nil /\ admin = Nil /\ signals = 0
    /\ changes = 0 /\ faults = 0 /\ answered = Nil /\ lost = FALSE

NoCounter ==
    /\ strategy = "fixedWindow" /\ now = 0 /\ clock = Nil
    /\ expires = 0 /\ count = 0 /\ scores = {} /\ tokens = 0 /\ lastRefill = 0
    /\ renewals = 0 /\ log = <<>>

RateNext ==
    \/ rules = Nil /\ Next /\ UNCHANGED config
    \/ rules # Nil /\ Config!Next /\ UNCHANGED vars

RateSpec ==
    /\ CounterInit \/ (Config!Init /\ NoCounter)
    /\ [][RateNext]_<<vars, config>>

\* See RateConfig.
HotReload == rules # Nil => Config!HotReload

\* See RateConfig.
DecidedByRecent == rules # Nil => Config!DecidedByRecent

\* See RateConfig.
WhitelistedKeyPasses == rules # Nil => Config!WhitelistedKeyPasses
=============================================================================
