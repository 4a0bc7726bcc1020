------------------------------ MODULE Settings ------------------------------
(***************************************************************************)
(* load_settings (config/settings.py): configuration files are merged in   *)
(* order, environment variables override them, and the result is validated *)
(* before the program runs with it.  Of the settings those are modelled    *)
(* that open or close the way to a live broker, one flag for all the       *)
(* guards that may not be switched off, and the caps that must be ordered. *)
(* A section is merged key by key; broker is the one that may be null.     *)
(***************************************************************************)
EXTENDS Integers, Sequences

CONSTANTS
    Layers,         \* what a file may contain: settings by name
    Environments,   \* what AQUANT_ variables may say
    MaxFiles,       \* bound: files given to load_settings
    Refused

VARIABLES
    files, environ, \* what is on disk and in the environment
    settings        \* what the program runs with, Refused while it does not

vars == <<files, environ, settings>>

Defaults ==
    [mode |-> "BACKTEST", liveEnabled |-> FALSE, tier |-> "READ_ONLY", manual |-> TRUE,
     capital |-> 0, guards |-> TRUE, evidenceCap |-> 2, coreCap |-> 5, singleName |-> 5,
     broker |-> "null", brokerMode |-> "PAPER", brokerEnabled |-> FALSE, submit |-> FALSE]

Names == DOMAIN Defaults
BrokerKeys == {"brokerMode", "brokerEnabled", "submit"}

Empty == [n \in {} |-> 0]

HasBroker(layer) == DOMAIN layer \cap BrokerKeys # {}

\* _deep_merge: a null takes the section away, a section takes the null away.
Merge(base, layer) ==
    LET kept == CASE "broker" \in DOMAIN layer -> DOMAIN base \ BrokerKeys
                  [] HasBroker(layer)          -> DOMAIN base \ {"broker"}
                  [] OTHER                     -> DOMAIN base
    IN  [n \in kept \cup DOMAIN layer |-> IF n \in DOMAIN layer THEN layer[n] ELSE base[n]]

MergedFiles(layers) ==
    LET upTo[n \in 0..Len(layers)] == IF n = 0 THEN Empty ELSE Merge(upTo[n - 1], layers[n])
    IN  upTo[Len(layers)]

Merged(layers, env) == Merge(MergedFiles(layers), env)

\* _apply_env_overrides raises where a variable goes below a null.
EnvironConflicts(layers, env) ==
    HasBroker(env) /\ "broker" \in DOMAIN MergedFiles(layers)

WithDefaults(given) == [n \in Names |-> IF n \in DOMAIN given THEN given[n] ELSE Defaults[n]]

\* Raw immutability, point-in-time access, quarantine, fills at the next session,
\* refusal of stale and unpublished data, the kill switch.
Guarded(c) == c.guards

SoundLive(c) == c.tier # "FULL" /\ (c.tier = "SMALL_CAPITAL" => c.capital > 0)

SoundCaps(c) == c.evidenceCap <= c.coreCap /\ c.coreCap <= c.singleName

SoundBroker(c) == c.submit => c.brokerEnabled /\ c.brokerMode = "LIVE"

\* Mutant: submission is left to the broker's own section.
LiveGateOfMode(c) == c.mode = "LIVE" => c.liveEnabled /\ c.manual

\* protect_live_mode.
LiveGate(c) ==
    /\ c.mode = "LIVE" => c.liveEnabled /\ c.manual
    /\ c.submit => c.mode = "LIVE" /\ c.liveEnabled

\* Unknown names are refused, and a broker section that does not say its mode.
Load(layers, env) ==
    LET given == Merged(layers, env)
        c == WithDefaults(given)
    IN  IF /\ layers # <<>> /\ ~EnvironConflicts(layers, env)
           /\ DOMAIN given \subseteq Names
           /\ HasBroker(given) => "brokerMode" \in DOMAIN given
           /\ Guarded(c) /\ SoundLive(c) /\ SoundCaps(c) /\ SoundBroker(c) /\ LiveGate(c)
        THEN c ELSE Refused

Init == files = <<>> /\ environ = Empty /\ settings = Refused

\* What is edited while the program runs it reads at its next start.
Write(n, layer) ==
    /\ settings = Refused
    /\ n \in 1..(Len(files) + 1) /\ n <= MaxFiles
    /\ files' = IF n > Len(files) THEN Append(files, layer) ELSE [files EXCEPT ![n] = layer]
    /\ UNCHANGED <<environ, settings>>

SetEnviron(env) ==
    /\ settings = Refused
    /\ environ' = env
    /\ UNCHANGED <<files, settings>>

Start ==
    /\ settings = Refused
    /\ settings' = Load(files, environ)
    /\ UNCHANGED <<files, environ>>

Stop == settings # Refused /\ settings' = Refused /\ UNCHANGED <<files, environ>>

Next ==
    \/ \E n \in 1..MaxFiles, layer \in Layers : Write(n, layer)
    \/ \E env \in Environments : SetEnviron(env)
    \/ Start \/ Stop

Spec == Init /\ [][Next]_vars

-----------------------------------------------------------------------------

Submits(c) == c # Refused /\ c.submit

Gates == {"mode", "liveEnabled", "brokerMode", "brokerEnabled", "submit"}

Without(layer, n) == [m \in DOMAIN layer \ {n} |-> layer[m]]

\* "misspelt" is no name of a setting.
Misspelt(layer, n) ==
    [m \in (DOMAIN layer \ {n}) \cup (IF n \in DOMAIN layer THEN {"misspelt"} ELSE {}) |->
        IF m = "misspelt" THEN layer[n] ELSE layer[m]]

LoadedAs(Change(_, _), n) ==
    Load([i \in DOMAIN files |-> Change(files[i], n)], Change(environ, n))

\* adr-0002-safety-defaults.md: a missing or misspelt setting, or a restart, brings the
\* system back to refusing.  A program that may submit to a live broker asks for manual
\* confirmation, and if any gate had been missing from all of its configuration it could
\* not submit; had a gate been misspelt in it, it would not have started.
EveryGateIsNeeded ==
    Submits(settings) =>
        /\ settings.manual /\ settings.guards
        /\ \A n \in Gates : /\ ~Submits(LoadedAs(Without, n))
                            /\ LoadedAs(Misspelt, n) = Refused
=============================================================================
