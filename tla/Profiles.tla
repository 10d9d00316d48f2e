------------------------------ MODULE Profiles ------------------------------
(***************************************************************************)
(* From the scanner section of the config file to the options of one scan: *)
(* config.Resolve and resolveProfile flatten subnets and profiles at boot  *)
(* (called by agent.New), scanner.New fills in its defaults, and           *)
(* scanner.resolve merges the two again when a subnet is scanned. A list   *)
(* can be missing (nil) or present and empty, and the three layers do not  *)
(* ask the same question about it.                                         *)
(***************************************************************************)
EXTENDS Addresses

CONSTANTS
    Names,       \* what can stand in a subnet field; "" is the empty string
    Parseable    \* those that are a CIDR

ASSUME NamesAssumption == Parseable \subseteq Names \ {""}

(* Lists of ports: missing, [], written by the operator, or built in.      *)
Nil == "nil"
Empty == "[]"
Listed == "operator"
Builtin == "default"
Lists == {Nil, Empty, Listed, Builtin}
NoPorts(list) == list \in {Nil, Empty}

(* A profile field left out; 0 for a duration, Nil for a list.             *)
Unset == "unset"
On == "true"
Off == "false"

(* What the file can say of a profile, and of the global section.          *)
GivenLists == {Nil, Empty, Listed}
ProfileSections ==
    [subnet : Names, interval : Nat, timeout : Nat, probe : GivenLists, deepOn : {Unset, On, Off},
     deep : GivenLists, udp : GivenLists, arpOn : {Unset, On, Off}]
GlobalSections ==
    [interval : Nat, timeout : Nat, probe : GivenLists, deepOn : {On, Off}, deep : GivenLists,
     udp : GivenLists, arpOn : {On, Off}, maxHosts : Nat \ {0}]

VARIABLES
    cfg,        \* [flat, profiles, global, block, ...]: block[name] is the CIDR of a name
    pc,         \* "resolve", "built", "refused"
    at,         \* profile the loop of Resolve is at
    seen,       \* subnets met
    resolved,   \* profiles resolved, Resolve's out
    options,    \* options[i]: effectiveOpts of the last scan of resolved[i]
    current     \* the profile scanned last

profileVars == <<cfg, pc, at, seen, resolved, options, current, walkVars>>

None == [scan |-> "none"]
ParseError == [scan |-> "parse error"]

ProfilesInit ==
    /\ pc = "resolve" /\ at = 1 /\ seen = {}
    /\ resolved = <<>> /\ options = <<>> /\ current = 0
    /\ WalkInit

Bare(name) == [subnet |-> name, interval |-> 0, timeout |-> 0, probe |-> Nil, deepOn |-> Unset,
               deep |-> Nil, udp |-> Nil, arpOn |-> Unset]

Entries == IF cfg.profiles # <<>> THEN cfg.profiles
           ELSE [i \in 1..Len(cfg.flat) |-> Bare(cfg.flat[i])]

-----------------------------------------------------------------------------
(* resolveProfile: nil takes the global value, also when that is empty.    *)
InheritEmpty(list, global) == IF NoPorts(list) THEN global ELSE list   \* mutant: len() == 0

Inherit(list, global) == IF list = Nil THEN global ELSE list

ResolveProfile(p, g) ==
    [subnet   |-> p.subnet,
     interval |-> IF p.interval = 0 THEN g.interval ELSE p.interval,
     timeout  |-> IF p.timeout = 0 THEN g.timeout ELSE p.timeout,
     probe    |-> Inherit(p.probe, g.probe),
     deepOn   |-> IF p.deepOn = Unset THEN g.deepOn ELSE p.deepOn,
     deep     |-> Inherit(p.deep, g.deep),
     udp      |-> Inherit(p.udp, g.udp),
     arpOn    |-> IF p.arpOn = Unset THEN g.arpOn ELSE p.arpOn]

Refuse ==
    pc' = "refused" /\ UNCHANGED <<cfg, at, seen, resolved, options, current, walkVars>>

BothForms == pc = "resolve" /\ cfg.flat # <<>> /\ cfg.profiles # <<>> /\ Refuse

ListedTwice(name) == name \in seen

(* One turn of the loop of Resolve.                                        *)
ResolveEntry ==
    /\ pc = "resolve" /\ (cfg.flat = <<>> \/ cfg.profiles = <<>>)
    /\ at <= Len(Entries)
    /\ LET p == Entries[at]
       IN IF p.subnet = "" \/ ListedTwice(p.subnet) THEN Refuse
          ELSE /\ seen' = seen \cup {p.subnet}
               /\ resolved' = Append(resolved, ResolveProfile(p, cfg.global))
               /\ at' = at + 1
               /\ UNCHANGED <<cfg, pc, options, current, walkVars>>

(* Resolve returns, and agent.New builds the agent.                        *)
Built ==
    /\ pc = "resolve" /\ (cfg.flat = <<>> \/ cfg.profiles = <<>>)
    /\ at > Len(Entries)
    /\ pc' = "built"
    /\ options' = [i \in 1..Len(resolved) |-> None]
    /\ UNCHANGED <<cfg, at, seen, resolved, current, walkVars>>

(* scanner.New: the defaults of the Scanner itself.                        *)
ScannerDefaults(g) ==
    [timeout |-> g.timeout,
     probe   |-> IF NoPorts(g.probe) THEN Builtin ELSE g.probe,
     deepOn  |-> g.deepOn,
     deep    |-> IF g.deepOn = On /\ NoPorts(g.deep) THEN Builtin ELSE g.deep,
     udp     |-> g.udp]

DeepFallback(on, list) == IF on = On /\ NoPorts(list) THEN Builtin ELSE list

(* scanner.resolve. The agent always passes all switches.                  *)
Effective(r, s) ==
    [scan    |-> "done",
     timeout |-> IF r.timeout = 0 THEN s.timeout ELSE r.timeout,
     probe   |-> Inherit(r.probe, s.probe),
     deepOn  |-> r.deepOn,
     deep    |-> DeepFallback(r.deepOn, Inherit(r.deep, s.deep)),
     udp     |-> Inherit(r.udp, s.udp),
     arpOn   |-> r.arpOn]

(* Scan: the options are resolved, then the CIDR is parsed and its size    *)
(* checked. The agent scans one subnet at a time.                          *)
Scan(i) ==
    /\ pc = "built"
    /\ LET name == resolved[i].subnet
       IN IF name \in Parseable
          THEN /\ StartWalk(cfg.block[name], cfg.global.maxHosts)
               /\ options' = [options EXCEPT ![i] =
                                 Effective(resolved[i], ScannerDefaults(cfg.global))]
          ELSE /\ ~Walking
               /\ options' = [options EXCEPT ![i] = ParseError]
               /\ UNCHANGED walkVars
    /\ current' = i
    /\ UNCHANGED <<cfg, pc, at, seen, resolved>>

Walk == WalkStep /\ UNCHANGED <<cfg, pc, at, seen, resolved, options, current>>

ProfilesNext ==
    BothForms \/ ResolveEntry \/ Built \/ (\E i \in 1..Len(options) : Scan(i)) \/ Walk

-----------------------------------------------------------------------------
(* Type invariant.                                                         *)
ProfilesTypeOK ==
    /\ pc \in {"resolve", "built", "refused"}
    /\ at \in 1..(Len(Entries) + 1)
    /\ seen \subseteq Names
    /\ \A i \in 1..Len(resolved) : /\ resolved[i].subnet \in seen
                                   /\ {resolved[i].deepOn, resolved[i].arpOn} \subseteq {On, Off}
                                   /\ {resolved[i].interval, resolved[i].timeout} \subseteq Nat
                                   /\ {resolved[i].probe, resolved[i].deep, resolved[i].udp}
                                         \subseteq GivenLists
    /\ Len(options) \in {0, Len(resolved)} /\ current \in 0..Len(options)
    /\ WalkTypeOK

(* The first of the layers that says something about a field has the last  *)
(* word: the profile, then the global section, then the built-in value.    *)
(* A list that is there and empty says something: a profile switches UDP   *)
(* off with [], and a probe list that is empty finds nobody. Only a deep   *)
(* scan that is on takes [] for nothing said, and has ports to dial.       *)
FirstSaid(list, outer) == IF list # Nil THEN list ELSE outer

InnermostWins ==
    \A i \in 1..Len(options) : options[i].scan = "done" =>
       LET p == Entries[i]
           g == cfg.global
           o == options[i]
           deep == FirstSaid(p.deep, g.deep)
       IN /\ o.udp = FirstSaid(p.udp, g.udp)
          /\ o.probe = FirstSaid(FirstSaid(p.probe, g.probe), Builtin)
          /\ o.deepOn = (IF p.deepOn # Unset THEN p.deepOn ELSE g.deepOn)
          /\ o.arpOn = (IF p.arpOn # Unset THEN p.arpOn ELSE g.arpOn)
          /\ o.timeout = (IF p.timeout # 0 THEN p.timeout ELSE g.timeout)
          /\ resolved[i].interval = (IF p.interval # 0 THEN p.interval ELSE g.interval)
          /\ o.deepOn = On => o.deep = (IF deep = Listed THEN Listed ELSE Builtin)
=============================================================================
