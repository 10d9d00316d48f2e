---------------------------- MODULE SweepsProofs ----------------------------
(***************************************************************************)
(* Proofs about Sweeps, for any files, environments and scanner sections,  *)
(* any devices and lists of ports, and any number of faults.               *)
(***************************************************************************)
EXTENDS Sweeps, SequenceTheorems, FiniteSetTheorems, WellFoundedInduction, TLAPS

(* A process that has loaded its configuration runs with the one it has    *)
(* checked, and builds its agent only then.                                *)
Booted ==
    /\ pc # "resolve" => boot = "loaded"
    /\ boot = "loaded" => conf = ApplyEnv(Decoded) /\ Valid(conf) /\ SecretsPrivate(conf)

LEMMA InitBooted == Init => Booted
  BY DEF Init, ConfigInit, ProfilesInit, Booted

LEMMA NextBooted == Booted /\ [Next]_vars => Booted'
<1> SUFFICES ASSUME Booted, [Next]_vars PROVE Booted'
  OBVIOUS
<1> USE DEF Booted, Decoded, SecretsPrivate, ApplyEnv
<1>1. CASE LoadConfig
  <2>1. boot = "start" /\ pc = "resolve" /\ UNCHANGED <<file, env, pc>>
    BY <1>1 DEF LoadConfig, Load, profileVars
  <2>2. CASE boot' = "loaded"
    <3>1. conf' \in Checked(Decoded) /\ boot' = "loaded"
      BY <1>1, <2>2 DEF LoadConfig, Load
    <3>2. conf' = ApplyEnv(Decoded) /\ Valid(conf') /\ SecretsPrivate(conf')
      BY <3>1 DEF Checked
    <3> QED
      BY <2>1, <3>1, <3>2
  <2> QED
    BY <2>1, <2>2
<1>2. CASE RunAgent
  <2>1. boot = "loaded" /\ UNCHANGED configVars
    BY <1>2 DEF RunAgent
  <2> QED
    BY <2>1 DEF configVars
<1>3. CASE Sweep \/ EndSweep \/ UNCHANGED vars
  <2>1. UNCHANGED <<configVars, pc>>
    BY <1>3 DEF Sweep, EndSweep, UnchangedOutside, vars, profileVars
  <2> QED
    BY <2>1 DEF configVars
<1> QED
  BY <1>1, <1>2, <1>3 DEF Next

(* The fields that hold a secret.                                          *)
LEMMA FieldNames ==
    /\ {"healthToken", "adminToken", "peerToken"} \subseteq Fields
    /\ Default["healthToken"] = "" /\ Default["adminToken"] = ""
<1>1. DOMAIN Default = {"db", "level", "format", "peerAddr", "peerToken", "webhook", "syslog",
                        "healthAddr", "healthToken", "adminAddr", "adminToken"}
  BY DEF Default
<1>2. Default.healthToken = "" /\ Default.adminToken = ""
  BY DEF Default
<1> QED
  BY <1>1, <1>2 DEF Fields

(* The token that was loaded is the secret of the listener.                *)
LEMMA TokenIsSecret ==
    ASSUME conf = ApplyEnv(Decoded), NEW field \in {"healthToken", "adminToken"}
    PROVE  conf[field] = Secret(field)
<1>1. field \in Fields /\ field \in EnvFields /\ Default[field] = ""
  BY FieldNames, Zenon DEF EnvFields
<1>2. Decoded[field] = IF file.state = "loaded" /\ field \in DOMAIN file.given
                       THEN file.given[field] ELSE ""
  BY <1>1 DEF Decoded, Override, Fields
<1> QED
  BY <1>1, <1>2 DEF ApplyEnv, Secret

(* A listener that others can reach is no loopback bind.                   *)
LEMMA ExposedIsNotLoopback == \A addr : Exposed(addr) => ~IsLoopbackBind(addr)
  BY DEF Exposed, IsLoopbackBind

LEMMA GuardedIfBooted == Booted => GuardedRequests
<1> SUFFICES ASSUME Booted PROVE GuardedRequests
  OBVIOUS
<1>1. ASSUME HealthServes, Exposed(conf.healthAddr), NEW req \in Requests, HealthAdmits(req)
      PROVE  req.auth = <<"Bearer", Secret("healthToken")>> /\ req.auth[2] # ""
  <2>1. conf = ApplyEnv(Decoded) /\ Valid(conf)
    BY <1>1 DEF Booted, HealthServes
  <2>2. conf.healthToken # ""
    BY <1>1, <2>1, ExposedIsNotLoopback DEF Valid, NotGiven
  <2>3. conf.healthToken = Secret("healthToken")
    BY <2>1, TokenIsSecret
  <2>4. req.auth = <<"Bearer", conf.healthToken>>
    BY <1>1, <2>2 DEF HealthAdmits, NotGiven
  <2>5. req.auth[2] = conf.healthToken
    BY <2>4
  <2> QED
    BY <2>2, <2>3, <2>4, <2>5
<1>2. ASSUME AdminServes, Exposed(conf.adminAddr), NEW req \in Requests, AdminAdmits(req)
      PROVE  req.auth[2] = Secret("adminToken") /\ req.auth[2] # ""
  <2>1. conf = ApplyEnv(Decoded) /\ Valid(conf)
    BY <1>2 DEF Booted, AdminServes
  <2>2. conf.adminToken # ""
    BY <1>2, <2>1, ExposedIsNotLoopback DEF Valid, NotGiven
  <2>3. conf.adminToken = Secret("adminToken")
    BY <2>1, TokenIsSecret
  <2>4. req.auth \in {"Bearer", "Basic"} \X {conf.adminToken}
    BY <1>2, <2>2 DEF AdminAdmits, CheckAuth, NotGiven
  <2> QED
    BY <2>2, <2>3, <2>4
<1>3. ASSUME NEW req \in Requests, AdminAdmits(req), req.method = "POST"
      PROVE  "right" \in {req.header, req.form}
  BY <1>3 DEF AdminAdmits, CheckCSRF
<1>4. ASSUME HealthServes, file.state = "loaded", ~file.private,
             NEW field \in {"healthToken", "adminToken", "peerToken"} \cap DOMAIN file.given
      PROVE  file.given[field] = ""
  <2>1. conf = ApplyEnv(Decoded) /\ SecretsPrivate(conf)
    BY <1>4 DEF Booted, HealthServes
  <2>2. conf[field] = ""
    BY <1>4, <2>1 DEF SecretsPrivate, NotGiven
  <2>3. field \in Fields /\ Decoded[field] = file.given[field]
    BY <1>4, FieldNames DEF Fields, Decoded, Override
  <2> QED
    BY <2>1, <2>2, <2>3 DEF ApplyEnv
<1> QED
  BY <1>1, <1>2, <1>3, <1>4 DEF GuardedRequests

(* Whatever the file and the environment say: no listener that others can  *)
(* reach serves a request without the secret, no POST passes without the   *)
(* CSRF token, and no secret is taken from a file that others can read.    *)
THEOREM Guarded == Spec => []GuardedRequests
  BY InitBooted, NextBooted, GuardedIfBooted, PTL DEF Spec

-----------------------------------------------------------------------------
(* What Resolve makes of an entry, and what a scan makes of that.          *)
Resolution(i) == ResolveProfile(Entries[i], cfg.global)
OptionsOf(i) == Effective(Resolution(i), ScannerDefaults(cfg.global))

Resolutions == {Resolution(i) : i \in Nat}
Possible == {OptionsOf(i) : i \in Nat} \cup {None, ParseError}

(* Entry i becomes profile i, and profile i is scanned with its options    *)
(* only: they are the same at every scan.                                  *)
Resolving ==
    /\ cfg \in {s.section : s \in Startups}
    /\ resolved \in Seq(Resolutions) /\ at = Len(resolved) + 1
    /\ at <= Len(Entries) + 1
    /\ \A i \in 1..Len(resolved) : resolved[i] = Resolution(i)
    /\ options \in Seq(Possible)
    /\ pc = "built" => Len(options) = Len(resolved)
    /\ pc # "built" => options = <<>> /\ walk = "idle"
    /\ \A i \in 1..Len(options) :
          options[i].scan = "done" => options[i] = OptionsOf(i) /\ resolved[i].subnet \in Parseable

(* The subnet that is walked is the one whose options are current.         *)
Probing == Walking => current \in 1..Len(options) /\ options[current].scan = "done"

LEMMA SectionTypes ==
    ASSUME cfg \in {s.section : s \in Startups}
    PROVE  /\ Len(Entries) \in Nat
           /\ cfg.global \in GlobalSections
           /\ \A i \in 1..Len(Entries) : {Entries[i].probe, Entries[i].deep} \subseteq GivenLists
<1>1. PICK s \in Startups : cfg = s.section
  OBVIOUS
<1>2. /\ cfg.flat \in Seq(Names) /\ cfg.profiles \in Seq(ProfileSections)
      /\ cfg.global \in GlobalSections
  BY <1>1, SectionsAssumption
<1>3. CASE cfg.profiles # <<>>
  <2>1. Entries = cfg.profiles
    BY <1>3 DEF Entries
  <2>2. \A i \in 1..Len(Entries) : Entries[i] \in ProfileSections
    BY <1>2, <2>1
  <2> QED
    BY <1>2, <2>1, <2>2 DEF ProfileSections
<1>4. CASE cfg.profiles = <<>>
  <2>1. Entries = [i \in 1..Len(cfg.flat) |-> Bare(cfg.flat[i])] /\ Len(cfg.flat) \in Nat
    BY <1>2, <1>4 DEF Entries
  <2>2. Len(Entries) = Len(cfg.flat)
    BY <2>1
  <2>3. \A i \in 1..Len(Entries) : Entries[i].probe = Nil /\ Entries[i].deep = Nil
    BY <2>1, <2>2 DEF Bare
  <2> QED
    BY <1>2, <2>1, <2>2, <2>3 DEF GivenLists
<1> QED
  BY <1>3, <1>4

LEMMA InitResolving == Init => Resolving /\ Probing
<1> SUFFICES ASSUME Init PROVE Resolving /\ Probing
  OBVIOUS
<1>1. /\ cfg \in {s.section : s \in Startups} /\ pc = "resolve" /\ at = 1
      /\ resolved = <<>> /\ options = <<>> /\ walk = "idle"
  BY DEF Init, ProfilesInit, WalkInit
<1>2. Len(Entries) \in Nat
  BY <1>1, SectionTypes
<1> QED
  BY <1>1, <1>2 DEF Resolving, Probing, Walking

(* A scan of profile i leaves behind its options, or none.                 *)
LEMMA ScanGives ==
    ASSUME Resolving, NEW i \in 1..Len(options), Scan(i)
    PROVE  /\ options' \in Seq(Possible) /\ Len(options') = Len(options)
           /\ options'[i].scan = "done" =>
                 /\ options'[i] = OptionsOf(i) /\ resolved[i].subnet \in Parseable
           /\ \A j \in 1..Len(options) : j # i => options'[j] = options[j]
           /\ Walking' => options'[i].scan = "done"
           /\ pc = "built" /\ current' = i /\ UNCHANGED <<cfg, pc, at, seen, resolved>>
<1>1. pc = "built" /\ current' = i /\ UNCHANGED <<cfg, pc, at, seen, resolved>>
  BY DEF Scan
<1>2. i \in 1..Len(resolved) /\ i \in Nat /\ resolved[i] = Resolution(i)
  BY <1>1 DEF Resolving
<1>3. options \in Seq(Possible)
  BY DEF Resolving
<1>4. CASE resolved[i].subnet \in Parseable
  <2>1. options' = [options EXCEPT ![i] = OptionsOf(i)]
    BY <1>2, <1>4 DEF Scan, OptionsOf
  <2>2. OptionsOf(i) \in Possible /\ OptionsOf(i).scan = "done"
    BY <1>2 DEF Possible, OptionsOf, Effective
  <2>3. /\ options' \in Seq(Possible) /\ Len(options') = Len(options)
        /\ \A j \in 1..Len(options) : options'[j] = IF j = i THEN OptionsOf(i) ELSE options[j]
    BY <1>3, <2>1, <2>2, ExceptSeq
  <2> QED
    BY <1>1, <1>4, <2>2, <2>3
<1>5. CASE resolved[i].subnet \notin Parseable
  <2>1. options' = [options EXCEPT ![i] = ParseError] /\ ~Walking /\ UNCHANGED walkVars
    BY <1>5 DEF Scan
  <2>2. ParseError \in Possible /\ ParseError.scan # "done"
    BY DEF Possible, ParseError
  <2>3. /\ options' \in Seq(Possible) /\ Len(options') = Len(options)
        /\ \A j \in 1..Len(options) : options'[j] = IF j = i THEN ParseError ELSE options[j]
    BY <1>3, <2>1, <2>2, ExceptSeq
  <2>4. ~Walking'
    BY <2>1 DEF Walking, walkVars
  <2> QED
    BY <1>1, <2>2, <2>3, <2>4
<1> QED
  BY <1>4, <1>5

(* Once a profile was scanned, its options stay.                           *)
LEMMA OptionsStay ==
    ASSUME Resolving, RunAgent, NEW j \in 1..Len(options), options[j].scan = "done"
    PROVE  j \in 1..Len(options') /\ options'[j] = options[j] /\ pc' = pc
<1>1. pc = "built"
  BY DEF Resolving
<1>2. CASE \E i \in 1..Len(options) : Scan(i)
  <2>1. PICK i \in 1..Len(options) : Scan(i)
    BY <1>2
  <2>2. CASE i # j
    BY <2>1, <2>2, ScanGives
  <2>3. CASE i = j
    <3>1. options[j] = OptionsOf(j) /\ resolved[j].subnet \in Parseable
      BY DEF Resolving
    <3>2. j \in 1..Len(resolved) /\ j \in Nat /\ resolved[j] = Resolution(j)
      BY <1>1 DEF Resolving
    <3>3. options' = [options EXCEPT ![j] = OptionsOf(j)]
      BY <2>1, <2>3, <3>1, <3>2 DEF Scan, OptionsOf
    <3>4. options \in Seq(Possible) /\ OptionsOf(j) \in Possible
      BY <3>2 DEF Resolving, Possible
    <3>5. Len(options') = Len(options) /\ options'[j] = OptionsOf(j)
      BY <3>3, <3>4, ExceptSeq
    <3> QED
      BY <2>1, <3>1, <3>5, ScanGives
  <2> QED
    BY <2>2, <2>3
<1>3. CASE Walk
  BY <1>3 DEF Walk
<1> QED
  BY <1>1, <1>2, <1>3 DEF RunAgent, ProfilesNext, BothForms, ResolveEntry, Built

LEMMA ResolvingKept ==
    ASSUME Resolving, UNCHANGED <<cfg, pc, at, resolved, options>>,
           pc = "built" \/ walk' = walk \/ walk' = "idle"
    PROVE  Resolving'
<1>1. Entries' = Entries /\ Resolutions' = Resolutions /\ Possible' = Possible
      /\ \A i : Resolution(i)' = Resolution(i) /\ OptionsOf(i)' = OptionsOf(i)
  BY DEF Entries, Resolutions, Resolution, Possible, OptionsOf
<1> QED
  BY <1>1 DEF Resolving

LEMMA NextResolving == Resolving /\ Probing /\ [Next]_vars => Resolving' /\ Probing'
<1> SUFFICES ASSUME Resolving, Probing, [Next]_vars PROVE Resolving' /\ Probing'
  OBVIOUS
<1>0. Len(Entries) \in Nat /\ Len(resolved) \in Nat /\ at \in Nat
  <2>1. Len(Entries) \in Nat
    BY SectionTypes DEF Resolving
  <2> QED
    BY <2>1 DEF Resolving
<1>1. CASE UNCHANGED <<cfg, pc, at, resolved, options, current>> /\ (walk' = walk \/ walk' = "idle")
  BY <1>1, ResolvingKept DEF Probing, Walking
<1>2. CASE BothForms
  BY <1>2 DEF BothForms, Refuse, walkVars, Resolving, Probing, Walking, Entries, Resolution,
              Resolutions, OptionsOf, Possible
<1>3. CASE ResolveEntry
  <2>0. /\ pc = "resolve" /\ at <= Len(Entries)
        /\ UNCHANGED <<cfg, options, current, walk>>
    BY <1>3 DEF ResolveEntry, Refuse, walkVars
  <2>1. Entries' = Entries /\ options = <<>> /\ walk = "idle"
    BY <2>0 DEF Entries, Resolving
  <2>2. CASE pc' = "refused" /\ UNCHANGED <<at, resolved>>
    BY <2>0, <2>1, <2>2 DEF Resolving, Probing, Walking, Resolution, Resolutions, OptionsOf,
                            Possible
  <2>3. CASE /\ resolved' = Append(resolved, Resolution(at))
             /\ at' = at + 1 /\ UNCHANGED pc
    <3>1. Resolution(at) \in Resolutions /\ resolved \in Seq(Resolutions) /\ at = Len(resolved) + 1
      BY <1>0 DEF Resolutions, Resolving
    <3>2. /\ resolved' \in Seq(Resolutions) /\ Len(resolved') = Len(resolved) + 1
          /\ \A i \in 1..Len(resolved) : resolved'[i] = resolved[i]
          /\ resolved'[Len(resolved) + 1] = Resolution(at)
      BY <2>3, <3>1, AppendProperties
    <3>3. \A i \in 1..Len(resolved') : resolved'[i] = Resolution(i)
      BY <1>0, <3>1, <3>2 DEF Resolving
    <3>4. Resolutions' = Resolutions /\ Possible' = Possible
          /\ \A i : Resolution(i)' = Resolution(i)
      BY <2>0, <2>1 DEF Resolutions, Resolution, Possible, OptionsOf
    <3>5. at' = Len(resolved') + 1 /\ at' <= Len(Entries) + 1
      BY <1>0, <2>0, <2>3, <3>1, <3>2
    <3>6. /\ options' = <<>> /\ walk' = "idle" /\ pc' # "built"
          /\ options' \in Seq(Possible) /\ Len(options') = 0
      BY <2>0, <2>1, <2>3, EmptySeq
    <3> QED
      BY <2>0, <2>1, <3>2, <3>3, <3>4, <3>5, <3>6 DEF Resolving, Probing, Walking
  <2> QED
    BY <1>3, <2>2, <2>3 DEF ResolveEntry, Refuse, Resolution
<1>4. CASE Built
  <2>1. /\ pc' = "built" /\ UNCHANGED <<cfg, at, resolved, current, walk>>
        /\ options' = [i \in 1..Len(resolved) |-> None] /\ walk = "idle"
    BY <1>4 DEF Built, walkVars, Resolving
  <2>2. None \in Possible /\ None.scan # "done"
    BY DEF Possible, None
  <2>3. options' \in Seq(Possible) /\ Len(options') = Len(resolved)
        /\ \A i \in 1..Len(options') : options'[i] = None
    BY <1>0, <2>1, <2>2
  <2>4. Entries' = Entries /\ Resolutions' = Resolutions /\ Possible' = Possible
        /\ \A i : Resolution(i)' = Resolution(i)
    BY <2>1 DEF Entries, Resolutions, Resolution, Possible, OptionsOf
  <2> QED
    BY <1>0, <2>1, <2>2, <2>3, <2>4 DEF Resolving, Probing, Walking
<1>5. ASSUME NEW i \in 1..Len(options), Scan(i) PROVE Resolving' /\ Probing'
  <2>1. /\ options' \in Seq(Possible) /\ Len(options') = Len(options)
        /\ options'[i].scan = "done" =>
              /\ options'[i] = OptionsOf(i) /\ resolved[i].subnet \in Parseable
        /\ \A j \in 1..Len(options) : j # i => options'[j] = options[j]
        /\ Walking' => options'[i].scan = "done"
        /\ pc = "built" /\ current' = i /\ UNCHANGED <<cfg, pc, at, seen, resolved>>
    BY <1>5, ScanGives
  <2>2. Entries' = Entries /\ Resolutions' = Resolutions /\ Possible' = Possible
        /\ \A j : Resolution(j)' = Resolution(j) /\ OptionsOf(j)' = OptionsOf(j)
    BY <2>1 DEF Entries, Resolutions, Resolution, Possible, OptionsOf
  <2>3. \A j \in 1..Len(options') : options'[j].scan = "done" =>
           options'[j] = OptionsOf(j) /\ resolved[j].subnet \in Parseable
    BY <1>5, <2>1 DEF Resolving
  <2>4. Probing'
    BY <1>5, <2>1 DEF Probing
  <2> QED
    BY <1>0, <2>1, <2>2, <2>3, <2>4 DEF Resolving
<1>6. CASE Walk
  <2>1. UNCHANGED <<cfg, pc, at, seen, resolved, options, current>> /\ Walking
    BY <1>6 DEF Walk, WalkStep, CheckSize, Collect, Trim, Walking
  <2>2. pc = "built"
    BY <2>1 DEF Resolving, Walking
  <2> QED
    BY <2>1, <2>2, ResolvingKept DEF Probing
<1>7. CASE LoadConfig \/ Sweep \/ EndSweep \/ UNCHANGED vars
  <2>1. UNCHANGED <<cfg, pc, at, resolved, options, current>> /\ (walk' = walk \/ walk' = "idle")
    BY <1>7 DEF LoadConfig, Sweep, EndSweep, Prune, Cut, NextSweep, EndWalk, UnchangedOutside,
                profileVars, walkVars, vars
  <2> QED
    BY <1>1, <2>1
<1>8. CASE RunAgent
  BY <1>2, <1>3, <1>4, <1>5, <1>6, <1>8 DEF RunAgent, ProfilesNext
<1> QED
  BY <1>7, <1>8 DEF Next

LEMMA InnermostIfResolving == Resolving => InnermostWins
<1> SUFFICES ASSUME Resolving, NEW i \in 1..Len(options), options[i].scan = "done"
             PROVE  LET p == Entries[i]
                        g == cfg.global
                        o == options[i]
                        deep == FirstSaid(p.deep, g.deep)
                    IN /\ o.udp = FirstSaid(p.udp, g.udp)
                       /\ o.probe = FirstSaid(FirstSaid(p.probe, g.probe), Builtin)
                       /\ o.deepOn = (IF p.deepOn # Unset THEN p.deepOn ELSE g.deepOn)
                       /\ o.arpOn = (IF p.arpOn # Unset THEN p.arpOn ELSE g.arpOn)
                       /\ o.timeout = (IF p.timeout # 0 THEN p.timeout ELSE g.timeout)
                       /\ resolved[i].interval = (IF p.interval # 0 THEN p.interval ELSE g.interval)
                       /\ o.deepOn = On => o.deep = (IF deep = Listed THEN Listed ELSE Builtin)
  BY DEF InnermostWins
<1> DEFINE p == Entries[i]
           g == cfg.global
           r == ResolveProfile(p, g)
           s == ScannerDefaults(g)
<1>1. options[i] = Effective(r, s)
  BY DEF Resolving, OptionsOf, Resolution
<1>2. i \in 1..Len(Entries) /\ resolved[i] = r
  <2>1. Len(options) = 0 \/ Len(options) = Len(resolved)
    BY EmptySeq DEF Resolving
  <2>2. Len(Entries) \in Nat /\ Len(resolved) \in Nat
    BY SectionTypes DEF Resolving
  <2>3. i \in 1..Len(resolved) /\ i \in 1..Len(Entries)
    BY <2>1, <2>2 DEF Resolving
  <2> QED
    BY <2>3 DEF Resolving, Resolution
<1>3. /\ p.probe \in GivenLists /\ g.probe \in GivenLists
      /\ p.deep \in GivenLists /\ g.deep \in GivenLists
  BY <1>2, SectionTypes DEF Resolving, GlobalSections
<1> HIDE DEF p, g
<1>4. options[i].udp = FirstSaid(p.udp, g.udp)
  BY <1>1 DEF Effective, ResolveProfile, ScannerDefaults, Inherit, FirstSaid
<1>5. options[i].deepOn = (IF p.deepOn # Unset THEN p.deepOn ELSE g.deepOn)
      /\ options[i].arpOn = (IF p.arpOn # Unset THEN p.arpOn ELSE g.arpOn)
  BY <1>1 DEF Effective, ResolveProfile
<1>6. /\ options[i].timeout = (IF p.timeout # 0 THEN p.timeout ELSE g.timeout)
      /\ resolved[i].interval = (IF p.interval # 0 THEN p.interval ELSE g.interval)
  BY <1>1, <1>2 DEF Effective, ResolveProfile, ScannerDefaults
<1>7. options[i].probe = Inherit(Inherit(p.probe, g.probe),
                                 IF NoPorts(g.probe) THEN Builtin ELSE g.probe)
  BY <1>1 DEF Effective, ResolveProfile, ScannerDefaults
<1>8. options[i].probe = FirstSaid(FirstSaid(p.probe, g.probe), Builtin)
  BY <1>3, <1>7 DEF Inherit, FirstSaid, NoPorts, GivenLists, Nil, Empty, Listed, Builtin
<1>9. options[i].deep = DeepFallback(options[i].deepOn, Inherit(Inherit(p.deep, g.deep), s.deep))
  BY <1>1 DEF Effective, ResolveProfile
<1>10. s.deep \in {Builtin, g.deep}
  BY DEF ScannerDefaults
<1>11. options[i].deepOn = On =>
          options[i].deep = (IF FirstSaid(p.deep, g.deep) = Listed THEN Listed ELSE Builtin)
  <2> HIDE DEF s
  <2> QED
    BY <1>3, <1>9, <1>10
       DEF DeepFallback, Inherit, FirstSaid, NoPorts, GivenLists, Nil, Empty, Listed, Builtin
<1> QED
  BY <1>4, <1>5, <1>6, <1>8, <1>11 DEF p, g

(* Whatever the file says of a profile and of the whole, in any of the     *)
(* three forms a list can have: a scan goes by the innermost layer that    *)
(* says something.                                                         *)
THEOREM Innermost == Spec => []InnermostWins
  BY InitResolving, NextResolving, InnermostIfResolving, PTL DEF Spec

-----------------------------------------------------------------------------
(* A set of naturals has a smallest element: the intervals 1..n are finite *)
(* sets, and finite sets are well founded under strict inclusion.          *)
LEMMA Least ==
    ASSUME NEW T, T \subseteq Nat, T # {}
    PROVE  \E x \in T : \A y \in T : x <= y
<1> DEFINE F == {1..n : n \in T}
<1>1. F \subseteq FiniteSubsetsOf(Nat) /\ F # {}
  <2>1. \A n \in Nat : 1..n \subseteq Nat /\ IsFiniteSet(1..n)
    BY FS_Interval
  <2> QED
    BY <2>1 DEF FiniteSubsetsOf
<1>2. \A n \in T : 1..n \in F
  OBVIOUS
<1>3. \A I \in F : \E n \in T : I = 1..n
  OBVIOUS
<1> HIDE DEF F
<1>4. PICK I \in F : \A J \in F : <<J, I>> \notin StrictSubsetOrdering(Nat)
  BY <1>1, FS_StrictSubsetOrderingWellFounded, WFMin
<1>5. PICK x \in T : I = 1..x
  BY <1>3
<1>6. ASSUME NEW y \in T PROVE x <= y
  <2>1. x \in Nat /\ y \in Nat
    OBVIOUS
  <2>2. SUFFICES ASSUME y < x PROVE FALSE
    BY <2>1
  <2>3. 1..y \subseteq 1..x /\ x \in 1..x /\ x \notin 1..y
    BY <2>1, <2>2
  <2>4. 1..y \subseteq Nat /\ 1..x \subseteq Nat /\ 1..y # 1..x
    BY <2>1, <2>3
  <2>5. <<1..y, 1..x>> \in StrictSubsetOrdering(Nat)
    BY <2>3, <2>4 DEF StrictSubsetOrdering
  <2> QED
    BY <1>2, <1>4, <1>5, <2>5
<1> QED
  BY <1>6


(* Induction over a set of naturals.                                       *)
LEMMA InductiveSet ==
    ASSUME NEW T, T \subseteq Nat, 0 \in T, \A n \in T : n + 1 \in T
    PROVE  T = Nat
<1> SUFFICES ASSUME Nat \ T # {} PROVE FALSE
  OBVIOUS
<1>1. PICK x \in Nat \ T : \A y \in Nat \ T : x <= y
  BY Least
<1>2. x # 0 /\ x - 1 \in Nat
  BY <1>1
<1>3. x - 1 \in T
  BY <1>1, <1>2
<1> QED
  BY <1>1, <1>3

(* The function Size is what its recursion says: for each n there is a     *)
(* sequence of doublings from 0 to n, and any two agree where both are     *)
(* defined.                                                                *)
Doublings(n) ==
    {f \in [0..n -> Nat] : f[0] = 1 /\ \A i \in 0..(n - 1) : f[i + 1] = 2 * f[i]}

LEMMA DoublingsExist == \A n \in Nat : Doublings(n) # {}
<1> DEFINE T == {n \in Nat : Doublings(n) # {}}
<1>1. 0 \in T
  <2>1. [i \in 0..0 |-> 1] \in Doublings(0)
    BY DEF Doublings
  <2> QED
    BY <2>1
<1>2. ASSUME NEW n \in T PROVE n + 1 \in T
  <2>1. n \in Nat
    OBVIOUS
  <2>2. PICK f : f \in Doublings(n)
    OBVIOUS
  <2> DEFINE g == [i \in 0..(n + 1) |-> IF i = n + 1 THEN 2 * f[n] ELSE f[i]]
  <2>3. f \in [0..n -> Nat] /\ f[0] = 1 /\ \A i \in 0..(n - 1) : f[i + 1] = 2 * f[i]
    BY <2>2 DEF Doublings
  <2>4. g \in [0..(n + 1) -> Nat]
    <3>1. ASSUME NEW i \in 0..(n + 1) PROVE g[i] \in Nat
      <4>1. CASE i = n + 1
        BY <2>1, <2>3, <4>1
      <4>2. CASE i # n + 1
        <5>1. i \in 0..n
          BY <2>1, <4>2
        <5> QED
          BY <2>3, <4>2, <5>1
      <4> QED
        BY <4>1, <4>2
    <3> QED
      BY <3>1
  <2>5. g[0] = 1
    BY <2>1, <2>3
  <2>6. ASSUME NEW i \in 0..(n + 1 - 1) PROVE g[i + 1] = 2 * g[i]
    <3>1. i \in 0..n /\ i + 1 \in 0..(n + 1) /\ i \in 0..(n + 1) /\ i # n + 1
      BY <2>1
    <3>2. g[i] = f[i]
      BY <3>1
    <3>3. CASE i = n
      BY <3>1, <3>2, <3>3
    <3>4. CASE i # n
      <4>1. i \in 0..(n - 1) /\ i + 1 # n + 1
        BY <2>1, <3>1, <3>4
      <4> QED
        BY <2>3, <3>1, <3>2, <4>1
    <3> QED
      BY <3>3, <3>4
  <2> HIDE DEF g
  <2>7. g \in Doublings(n + 1)
    BY <2>4, <2>5, <2>6 DEF Doublings
  <2> QED
    BY <2>1, <2>7
<1>3. T = Nat
  <2> HIDE DEF T
  <2>1. T \subseteq Nat
    BY DEF T
  <2> QED
    BY <1>1, <1>2, <2>1, InductiveSet
<1> QED
  BY <1>3

LEMMA DoublingsAgree ==
    ASSUME NEW m \in Nat, NEW n \in Nat, NEW f \in Doublings(m), NEW g \in Doublings(n)
    PROVE  \A i \in Nat : i <= m /\ i <= n => f[i] = g[i]
<1> DEFINE T == {i \in Nat : i <= m /\ i <= n => f[i] = g[i]}
<1>1. 0 \in T
  BY DEF Doublings
<1>2. ASSUME NEW i \in T PROVE i + 1 \in T
  <2>1. i \in Nat
    OBVIOUS
  <2>2. SUFFICES ASSUME i + 1 <= m, i + 1 <= n PROVE f[i + 1] = g[i + 1]
    BY <2>1
  <2>3. i \in 0..(m - 1) /\ i \in 0..(n - 1) /\ i <= m /\ i <= n
    BY <2>1, <2>2
  <2>4. f[i] = g[i]
    BY <2>3
  <2>5. f[i + 1] = 2 * f[i] /\ g[i + 1] = 2 * g[i]
    BY <2>3 DEF Doublings
  <2> QED
    BY <2>4, <2>5
<1>3. T = Nat
  <2> HIDE DEF T
  <2>1. T \subseteq Nat
    BY DEF T
  <2> QED
    BY <1>1, <1>2, <2>1, InductiveSet
<1> QED
  BY <1>3

LEMMA SizeDef == /\ Size \in [Nat -> Nat]
                 /\ Size[0] = 1
                 /\ \A n \in Nat : Size[n + 1] = 2 * Size[n]
<1> DEFINE D(n) == CHOOSE f : f \in Doublings(n)
           F == [n \in Nat |-> D(n)[n]]
<1>1. \A n \in Nat : D(n) \in Doublings(n)
  BY DoublingsExist
<1> HIDE DEF D
<1>2. F[0] = 1
  BY <1>1 DEF Doublings
<1>3. ASSUME NEW n \in Nat, n # 0 PROVE F[n] = 2 * F[n - 1]
  <2>1. n - 1 \in Nat /\ n - 1 <= n /\ n - 1 <= n - 1 /\ n - 1 \in 0..(n - 1) /\ n - 1 + 1 = n
    BY <1>3
  <2>2. D(n)[n] = 2 * D(n)[n - 1]
    <3>1. D(n) \in Doublings(n)
      BY <1>1
    <3> QED
      BY <2>1, <3>1 DEF Doublings
  <2>3. D(n)[n - 1] = D(n - 1)[n - 1]
    <3>1. D(n) \in Doublings(n) /\ D(n - 1) \in Doublings(n - 1)
      BY <1>1, <2>1
    <3> QED
      BY <2>1, <3>1, DoublingsAgree
  <2> QED
    BY <2>1, <2>2, <2>3
<1>4. F = [n \in Nat |-> IF n = 0 THEN 1 ELSE 2 * F[n - 1]]
  <2>1. \A n \in Nat : F[n] = IF n = 0 THEN 1 ELSE 2 * F[n - 1]
    BY <1>2, <1>3
  <2>2. F = [n \in Nat |-> F[n]]
    OBVIOUS
  <2> HIDE DEF F
  <2> QED
    BY <2>1, <2>2
<1> HIDE DEF F
<1>5. Size = [n \in Nat |-> IF n = 0 THEN 1 ELSE 2 * Size[n - 1]]
  <2>1. Size = CHOOSE f : f = [n \in Nat |-> IF n = 0 THEN 1 ELSE 2 * f[n - 1]]
    BY DEF Size
  <2>2. \E f : f = [n \in Nat |-> IF n = 0 THEN 1 ELSE 2 * f[n - 1]]
    BY <1>4
  <2> QED
    BY <2>1, <2>2
<1>6. Size[0] = 1 /\ \A n \in Nat : n # 0 => Size[n] = 2 * Size[n - 1]
  BY <1>5
<1>7. ASSUME NEW n \in Nat PROVE Size[n + 1] = 2 * Size[n]
  <2>1. n + 1 \in Nat /\ n + 1 # 0 /\ n + 1 - 1 = n
    OBVIOUS
  <2> QED
    BY <1>6, <2>1
<1>8. {n \in Nat : Size[n] \in Nat} = Nat
  <2> DEFINE T == {n \in Nat : Size[n] \in Nat}
  <2>1. T \subseteq Nat /\ 0 \in T /\ \A n \in T : n + 1 \in T
    BY <1>6, <1>7
  <2> HIDE DEF T
  <2>2. T = Nat
    BY <2>1, InductiveSet
  <2> QED
    BY <2>2 DEF T
<1>9. Size \in [Nat -> Nat]
  BY <1>5, <1>8
<1> QED
  BY <1>6, <1>7, <1>9

LEMMA SizePositive == \A n \in Nat : Size[n] \in Nat /\ Size[n] >= 1
<1> DEFINE T == {n \in Nat : Size[n] >= 1}
<1>1. T \subseteq Nat /\ 0 \in T
  BY SizeDef
<1>2. ASSUME NEW n \in T PROVE n + 1 \in T
  <2>1. n \in Nat /\ Size[n] >= 1 /\ Size[n] \in Nat /\ Size[n + 1] = 2 * Size[n]
    BY SizeDef
  <2> QED
    BY <2>1
<1>3. T = Nat
  <2> HIDE DEF T
  <2> QED
    BY <1>1, <1>2, InductiveSet
<1> QED
  BY <1>3, SizeDef

(* The blocks of h bits and of 0, 1 and 2 bits.                            *)
LEMMA SizeFour == \A n \in Nat : n >= 2 => Size[n] >= 4
<1>1. ASSUME NEW n \in Nat, n >= 2 PROVE Size[n] >= 4
  <2>1. n - 2 \in Nat /\ n - 1 \in Nat /\ n - 2 + 1 = n - 1 /\ n - 1 + 1 = n
    BY <1>1
  <2>2. Size[n - 1] = 2 * Size[n - 2] /\ Size[n] = 2 * Size[n - 1]
    BY <2>1, SizeDef
  <2>3. Size[n - 2] \in Nat /\ Size[n - 2] >= 1
    BY <2>1, SizePositive
  <2> QED
    BY <2>2, <2>3
<1> QED
  BY <1>1

(* A smaller block goes into a larger one a whole number of times.         *)
LEMMA SizeDivides ==
    ASSUME NEW h \in Nat, NEW b \in Nat, h < b
    PROVE  \E c \in Nat : c >= 2 /\ Size[b] = Size[h] * c
<1> DEFINE T == {d \in Nat : \E c \in Nat : c >= 2 /\ Size[h + d + 1] = Size[h] * c}
<1>1. T \subseteq Nat
  OBVIOUS
<1>2. 0 \in T
  <2>1. h + 0 + 1 = h + 1 /\ Size[h] \in Nat /\ Size[h + 1] = 2 * Size[h]
    BY SizeDef
  <2>2. Size[h + 0 + 1] = Size[h] * 2
    BY <2>1
  <2> QED
    BY <2>2
<1>3. ASSUME NEW d \in T PROVE d + 1 \in T
  <2>1. d \in Nat
    OBVIOUS
  <2>2. PICK c \in Nat : c >= 2 /\ Size[h + d + 1] = Size[h] * c
    OBVIOUS
  <2>3. h + d + 1 \in Nat /\ h + (d + 1) + 1 = (h + d + 1) + 1
    BY <2>1
  <2>4. Size[h + (d + 1) + 1] = 2 * (Size[h] * c)
    BY <2>2, <2>3, SizeDef
  <2>5. Size[h] \in Nat
    BY SizeDef
  <2>6. 2 * (Size[h] * c) = Size[h] * (2 * c) /\ 2 * c \in Nat /\ 2 * c >= 2
    BY <2>2, <2>5
  <2>7. \E e \in Nat : e >= 2 /\ Size[h + (d + 1) + 1] = Size[h] * e
    <3> HIDE DEF T
    <3>1. Size[h + (d + 1) + 1] = Size[h] * (2 * c)
      BY <2>4, <2>6
    <3> DEFINE e == 2 * c
    <3>2. Size[h + (d + 1) + 1] = Size[h] * e /\ e \in Nat /\ e >= 2
      BY <2>6, <3>1
    <3> HIDE DEF e
    <3> QED
      BY <3>2
  <2>8. d + 1 \in Nat
    BY <2>1
  <2> QED
    BY <2>7, <2>8, Zenon
<1>4. T = Nat
  <2> HIDE DEF T
  <2> QED
    BY <1>1, <1>2, <1>3, InductiveSet
<1>5. PICK d \in Nat : h + d + 1 = b
  <2>1. b - h - 1 \in Nat /\ h + (b - h - 1) + 1 = b
    OBVIOUS
  <2> QED
    BY <2>1
<1>6. \E c \in Nat : c >= 2 /\ Size[h + d + 1] = Size[h] * c
  <2>1. d \in T
    <3> HIDE DEF T
    <3> QED
      BY <1>4
  <2> QED
    BY <2>1, Zenon
<1> QED
  BY <1>5, <1>6, Zenon


LEMMA Quotient ==
    ASSUME NEW s \in Nat, s >= 1, NEW k \in Nat, NEW y \in Nat
    PROVE  y \div s = k <=> s * k <= y /\ y < s * k + s
<1>1. y = s * (y \div s) + (y % s) /\ y \div s \in Nat /\ y % s \in 0..(s - 1)
  OBVIOUS
<1>2. ASSUME s * k <= y, y < s * k + s PROVE y \div s = k
  BY <1>2
<1> QED
  BY <1>1, <1>2

(* A masked address is the first of its block, and the block, smaller than *)
(* all addresses, does not reach beyond the last of them.                  *)
LEMMA BlockFits ==
    ASSUME NEW s \in Nat, s >= 1, NEW c \in Nat, NEW base \in Nat,
           base % s = 0, base < s * c
    PROVE  base + s <= s * c
<1> DEFINE k == base \div s
<1>1. base = s * k + (base % s) /\ k \in Nat
  OBVIOUS
<1>2. base = s * k
  BY <1>1
<1> HIDE DEF k
<1>3. k < c
  <2>1. SUFFICES ASSUME c <= k PROVE FALSE
    BY <1>1
  <2>2. k - c \in Nat
    BY <1>1, <2>1
  <2>3. s * (k - c) \in Nat /\ s * k = s * c + s * (k - c)
    BY <1>1, <2>2
  <2> QED
    BY <1>2, <2>3
<1>4. c - k - 1 \in Nat
  BY <1>1, <1>3
<1>5. s * (c - k - 1) \in Nat /\ s * c = s * k + s + s * (c - k - 1)
  BY <1>1, <1>4
<1> QED
  BY <1>2, <1>5

LEMMA InBlock ==
    ASSUME NEW s \in Nat, s >= 1, NEW base \in Nat, base % s = 0, NEW y \in Nat
    PROVE  y \div s = base \div s <=> base <= y /\ y < base + s
<1> DEFINE k == base \div s
<1>1. base = s * k + (base % s) /\ k \in Nat
  OBVIOUS
<1>2. base = s * k
  BY <1>1
<1> HIDE DEF k
<1>3. y \div s = k <=> s * k <= y /\ y < s * k + s
  BY <1>1, Quotient
<1> QED
  BY <1>2, <1>3 DEF k

Digits == 0..(Byte - 1)

LEMMA Total == Byte \in Nat /\ Byte >= 1 /\ Byte * Byte = Size[Bits]
  BY BitsAssumption

LEMMA HighByte ==
    ASSUME NEW a \in Digits
    PROVE  /\ a * Byte \in Nat /\ a * Byte + Byte <= Size[Bits]
           /\ a # Byte - 1 => a * Byte + Byte + Byte <= Size[Bits]
           /\ (Byte - 1) * Byte + Byte = Size[Bits]
           /\ (a + 1) * Byte = a * Byte + Byte
<1>1. Byte \in Nat /\ Byte >= 1 /\ Byte * Byte = Size[Bits] /\ a \in Nat
  BY Total DEF Digits
<1>2. a * Byte \in Nat /\ (a + 1) * Byte = a * Byte + Byte
  BY <1>1
<1>3. (Byte - 1) * Byte + Byte = Size[Bits]
  BY <1>1
<1>4. Byte - 1 - a \in Nat /\ (Byte - 1 - a) * Byte \in Nat
  BY <1>1 DEF Digits
<1>5. (Byte - 1) * Byte = a * Byte + (Byte - 1 - a) * Byte
  BY <1>1
<1>6. a * Byte + Byte <= Size[Bits]
  BY <1>1, <1>2, <1>3, <1>4, <1>5
<1>7. ASSUME a # Byte - 1 PROVE a * Byte + Byte + Byte <= Size[Bits]
  <2>1. Byte - 2 - a \in Nat /\ (Byte - 2 - a) * Byte \in Nat
    BY <1>1, <1>7 DEF Digits
  <2>2. (Byte - 1) * Byte = a * Byte + Byte + (Byte - 2 - a) * Byte
    BY <1>1
  <2> QED
    BY <1>1, <1>2, <1>3, <2>1, <2>2
<1> QED
  BY <1>2, <1>3, <1>6, <1>7

LEMMA ByteWise ==
    ASSUME NEW n \in 0..(Size[Bits] - 1)
    PROVE  Bytes(n) \in Digits \X Digits /\ Number(Bytes(n)) = n
<1>1. Byte \in Nat /\ Byte >= 1 /\ Byte * Byte = Size[Bits] /\ Size[Bits] \in Nat
  BY Total, SizeDef, BitsAssumption
<1> DEFINE q == n \div Byte
           r == n % Byte
<1>2. n \in Nat /\ n < Byte * Byte
  BY <1>1
<1>3. n = Byte * q + r /\ q \in Nat /\ r \in 0..(Byte - 1)
  BY <1>1, <1>2
<1>4. Bytes(n) = <<q, r>>
  BY DEF Bytes
<1> HIDE DEF q, r
<1>5. q < Byte
  <2>1. SUFFICES ASSUME Byte <= q PROVE FALSE
    BY <1>1, <1>3
  <2>2. q - Byte \in Nat /\ Byte * (q - Byte) \in Nat
    BY <1>1, <1>3, <2>1
  <2>3. Byte * q = Byte * Byte + Byte * (q - Byte)
    BY <1>1, <1>3
  <2> QED
    BY <1>1, <1>2, <1>3, <2>2, <2>3
<1>6. q \in Digits /\ r \in Digits
  BY <1>1, <1>3, <1>5 DEF Digits
<1>7. Number(<<q, r>>) = q * Byte + r
  BY DEF Number
<1>8. q * Byte = Byte * q
  BY <1>1, <1>3
<1> QED
  BY <1>3, <1>4, <1>6, <1>7, <1>8

(* incrementIP counts up by one, and after the last address comes the      *)
(* first.                                                                  *)
LEMMA Increments ==
    ASSUME NEW a \in Digits \X Digits
    PROVE  /\ Number(a) \in 0..(Size[Bits] - 1)
           /\ IncrementIP(a) \in Digits \X Digits
           /\ Number(IncrementIP(a)) = IF Number(a) + 1 < Size[Bits] THEN Number(a) + 1 ELSE 0
<1>1. Byte \in Nat /\ Byte >= 1 /\ Size[Bits] \in Nat
  BY Total, SizeDef, BitsAssumption
<1> PICK h \in Digits, l \in Digits : a = <<h, l>>
  OBVIOUS
<1>2. Number(a) = h * Byte + l
  BY DEF Number
<1>3. /\ h * Byte \in Nat /\ h * Byte + Byte <= Size[Bits]
      /\ h # Byte - 1 => h * Byte + Byte + Byte <= Size[Bits]
      /\ (Byte - 1) * Byte + Byte = Size[Bits]
      /\ (h + 1) * Byte = h * Byte + Byte
  BY HighByte
<1>4. h \in Nat /\ l \in Nat /\ l + 1 <= Byte /\ h + 1 <= Byte
  BY <1>1 DEF Digits
<1>5. Number(a) \in 0..(Size[Bits] - 1)
  BY <1>1, <1>2, <1>3, <1>4
<1>6. CASE l + 1 < Byte
  <2>1. IncrementIP(a) = <<h, l + 1>>
    BY <1>6 DEF IncrementIP
  <2>2. Number(<<h, l + 1>>) = h * Byte + (l + 1)
    BY DEF Number
  <2>3. l + 1 \in Digits
    BY <1>1, <1>4, <1>6 DEF Digits
  <2>4. h * Byte + (l + 1) = Number(a) + 1 /\ Number(a) + 1 < Size[Bits]
    BY <1>1, <1>2, <1>3, <1>4, <1>6
  <2> QED
    BY <1>5, <2>1, <2>2, <2>3, <2>4
<1>7. CASE l + 1 = Byte
  <2>1. IncrementIP(a) = <<(h + 1) % Byte, 0>>
    BY <1>1, <1>4, <1>7 DEF IncrementIP
  <2>2. Number(<<(h + 1) % Byte, 0>>) = ((h + 1) % Byte) * Byte + 0
    BY DEF Number
  <2>3. 0 \in Digits
    BY <1>1 DEF Digits
  <2>4. CASE h + 1 < Byte
    <3>1. (h + 1) % Byte = h + 1 /\ h + 1 \in Digits /\ h # Byte - 1
      BY <1>1, <1>4, <2>4 DEF Digits
    <3>2. Number(IncrementIP(a)) = (h + 1) * Byte
      <4>1. (h + 1) * Byte \in Nat
        BY <1>1, <1>3
      <4> QED
        BY <2>1, <2>2, <3>1, <4>1
    <3>3. (h + 1) * Byte = Number(a) + 1 /\ Number(a) + 1 < Size[Bits]
      BY <1>1, <1>2, <1>3, <1>4, <1>7, <3>1
    <3> QED
      BY <1>5, <2>1, <2>3, <3>1, <3>2, <3>3
  <2>5. CASE h + 1 = Byte
    <3>1. (h + 1) % Byte = 0
      BY <1>1, <2>5
    <3>2. Number(IncrementIP(a)) = 0
      <4>1. 0 * Byte = 0
        BY <1>1
      <4> QED
        BY <2>1, <2>2, <3>1, <4>1
    <3>3. ~(Number(a) + 1 < Size[Bits])
      <4>1. h = Byte - 1
        BY <1>1, <1>4, <2>5
      <4>2. h * Byte + Byte = Size[Bits]
        BY <1>3, <4>1
      <4> QED
        BY <1>1, <1>2, <1>3, <1>4, <1>7, <4>2
    <3> QED
      BY <1>5, <2>1, <2>3, <3>1, <3>2, <3>3
  <2> QED
    BY <1>1, <1>4, <2>4, <2>5
<1> QED
  BY <1>1, <1>4, <1>6, <1>7

(* The addresses so far are the first of the block, in order, and the      *)
(* loop's address is the next one: after the last of all the very first,   *)
(* which is outside of every block that passes the size check.             *)
Upwards == \A i \in 1..Len(ips) : ips[i] = subnet.base + i - 1

NextNumber ==
    IF subnet.base + Len(ips) = Size[Bits] THEN 0 ELSE subnet.base + Len(ips)

Counting ==
    /\ WalkTypeOK
    /\ walk = "size" => ips = <<>>
    /\ walk \in {"loop", "trim"} => ~Oversized /\ Upwards
    /\ walk = "loop" => Len(ips) <= Size[subnet.hostBits] /\ Number(ip) = NextNumber
    /\ walk = "trim" => Len(ips) = Size[subnet.hostBits]
    /\ EveryHostOnce

LEMMA CountingStarts == WalkInit => Counting
<1> SUFFICES ASSUME WalkInit PROVE Counting
  OBVIOUS
<1>1. subnet \in Blocks
  <2>1. Size[0] = 1 /\ Size[Bits] \in Nat /\ Size[Bits] >= 1 /\ Bits \in Nat
    BY SizeDef, SizePositive, BitsAssumption
  <2>2. 0 % 1 = 0 /\ 0 \in 0..(Size[Bits] - 1) /\ 0 \in 0..Bits
    BY <2>1
  <2> QED
    BY <2>1, <2>2 DEF WalkInit, NoSubnet, Blocks
<1>2. ip \in (0..(Byte - 1)) \X (0..(Byte - 1))
  <2>1. 0 \in 0..(Byte - 1)
    BY Total
  <2> QED
    BY <2>1 DEF WalkInit
<1>3. ips \in Seq(0..(Size[Bits] - 1)) /\ limit \in Nat \ {0} /\ walk = "idle"
  BY DEF WalkInit
<1> QED
  BY <1>1, <1>2, <1>3 DEF Counting, WalkTypeOK, EveryHostOnce

LEMMA CountingStartsAgain ==
    ASSUME Counting, NEW s \in Blocks, NEW max \in Nat \ {0}, StartWalk(s, max)
    PROVE  Counting'
<1>1. ip' \in (0..(Byte - 1)) \X (0..(Byte - 1))
  <2>1. 0 \in 0..(Byte - 1)
    BY Total
  <2> QED
    BY <2>1 DEF StartWalk
<1>2. walk' = "size" /\ ips' = <<>> /\ subnet' \in Blocks /\ limit' \in Nat \ {0}
  BY DEF StartWalk
<1> QED
  BY <1>1, <1>2 DEF Counting, WalkTypeOK, EveryHostOnce

(* What the size check and the mask of the block give.                     *)
LEMMA SmallBlock ==
    ASSUME WalkTypeOK, ~Oversized
    PROVE  /\ subnet.base \in Nat /\ Size[subnet.hostBits] \in Nat /\ Size[Bits] \in Nat
           /\ Size[subnet.hostBits] >= 1 /\ Size[subnet.hostBits] <= limit
           /\ subnet.base + Size[subnet.hostBits] <= Size[Bits]
           /\ 2 * Size[subnet.hostBits] <= Size[Bits]
           /\ \A y \in Nat : y \div Size[subnet.hostBits] = subnet.base \div Size[subnet.hostBits]
                               <=> subnet.base <= y /\ y < subnet.base + Size[subnet.hostBits]
<1> DEFINE s == Size[subnet.hostBits]
<1>1. /\ subnet.base \in Nat /\ subnet.base < Size[Bits] /\ subnet.base % s = 0
      /\ subnet.hostBits \in Nat /\ Size[Bits] \in Nat
  BY SizeDef, BitsAssumption DEF WalkTypeOK, Blocks
<1>2. s \in Nat /\ s >= 1
  BY <1>1, SizePositive
<1>3. s <= limit /\ subnet.hostBits < Bits
  BY <1>1, <1>2, BitsAssumption DEF Oversized, WalkTypeOK
<1>4. PICK c \in Nat : c >= 2 /\ Size[Bits] = s * c
  BY <1>1, <1>3, SizeDivides, BitsAssumption
<1> HIDE DEF s
<1>5. subnet.base + s <= Size[Bits]
  BY <1>1, <1>2, <1>4, BlockFits
<1>6. 2 * s <= Size[Bits]
  <2>1. c - 2 \in Nat /\ s * (c - 2) \in Nat
    BY <1>2, <1>4
  <2>2. s * c = 2 * s + s * (c - 2)
    BY <1>2, <1>4
  <2> QED
    BY <1>2, <1>4, <2>1, <2>2
<1>7. \A y \in Nat : y \div s = subnet.base \div s <=> subnet.base <= y /\ y < subnet.base + s
  BY <1>1, <1>2, InBlock
<1> QED
  BY <1>1, <1>2, <1>3, <1>5, <1>6, <1>7 DEF s

LEMMA CountingSize == Counting /\ CheckSize => Counting'
<1> SUFFICES ASSUME Counting, CheckSize PROVE Counting'
  OBVIOUS
<1>1. walk = "size" /\ ips = <<>> /\ UNCHANGED <<subnet, limit, ips>> /\ WalkTypeOK
  BY DEF Counting, CheckSize
<1>2. CASE Oversized
  <2>1. walk' = "refused" /\ ip' = ip
    BY <1>2 DEF CheckSize
  <2> QED
    BY <1>1, <2>1 DEF Counting, WalkTypeOK, EveryHostOnce
<1>3. CASE ~Oversized
  <2>1. walk' = "loop" /\ ip' = Bytes(subnet.base)
    BY <1>3 DEF CheckSize
  <2>2. subnet.base \in 0..(Size[Bits] - 1)
    BY <1>1 DEF WalkTypeOK, Blocks
  <2>3. ip' \in Digits \X Digits /\ Number(ip') = subnet.base
    BY <2>1, <2>2, ByteWise
  <2>4. ips' = <<>> /\ Len(ips') = 0 /\ Upwards'
    BY <1>1 DEF Upwards
  <2>5. ~Oversized'
    BY <1>1, <1>3 DEF Oversized
  <2>6. WalkTypeOK'
    BY <1>1, <2>1, <2>3 DEF WalkTypeOK, Digits
  <2>7. 0 <= Size[subnet.hostBits] /\ NextNumber' = subnet.base
    <3>1. subnet.base + 0 = subnet.base /\ subnet.base # Size[Bits]
      BY <2>2, SizeDef, BitsAssumption
    <3>2. Size[subnet.hostBits] \in Nat
      BY <1>1, <1>3, SmallBlock
    <3> QED
      BY <1>1, <2>4, <3>1, <3>2 DEF NextNumber
  <2>8. Number(ip)' = Number(ip')
    BY DEF Number
  <2> QED
    BY <1>1, <2>1, <2>3, <2>4, <2>5, <2>6, <2>7, <2>8 DEF Counting, EveryHostOnce
<1> QED
  BY <1>2, <1>3

LEMMA CountingCollect == Counting /\ Collect => Counting'
<1> SUFFICES ASSUME Counting, Collect PROVE Counting'
  OBVIOUS
<1> DEFINE s == Size[subnet.hostBits]
<1>1. /\ walk = "loop" /\ UNCHANGED <<subnet, limit>>
      /\ WalkTypeOK /\ ~Oversized /\ Upwards /\ Len(ips) <= s /\ Number(ip) = NextNumber
  BY DEF Counting, Collect
<1>2. /\ subnet.base \in Nat /\ s \in Nat /\ Size[Bits] \in Nat /\ s >= 1
      /\ subnet.base + s <= Size[Bits] /\ 2 * s <= Size[Bits]
      /\ \A y \in Nat : y \div s = subnet.base \div s <=> subnet.base <= y /\ y < subnet.base + s
  BY <1>1, SmallBlock
<1>3. /\ ip \in Digits \X Digits /\ ips \in Seq(0..(Size[Bits] - 1)) /\ Len(ips) \in Nat
  BY <1>1 DEF WalkTypeOK, Digits
<1>4. /\ Number(ip) \in 0..(Size[Bits] - 1) /\ IncrementIP(ip) \in Digits \X Digits
      /\ Number(IncrementIP(ip)) = IF Number(ip) + 1 < Size[Bits] THEN Number(ip) + 1 ELSE 0
  BY <1>3, Increments
<1>5. ~Oversized' /\ Number(ip)' = Number(ip')
  BY <1>1 DEF Oversized, Number
<1>6. SubnetContains(ip) <=> subnet.base <= Number(ip) /\ Number(ip) < subnet.base + s
  BY <1>2, <1>4 DEF SubnetContains
<1> HIDE DEF s
<1>7. CASE SubnetContains(ip)
  <2>1. ips' = Append(ips, Number(ip)) /\ ip' = IncrementIP(ip) /\ walk' = "loop"
    BY <1>1, <1>7 DEF Collect
  <2>2. Len(ips) < s /\ Number(ip) = subnet.base + Len(ips)
    BY <1>1, <1>2, <1>3, <1>6, <1>7 DEF NextNumber
  <2>3. /\ ips' \in Seq(0..(Size[Bits] - 1)) /\ Len(ips') = Len(ips) + 1
        /\ \A i \in 1..(Len(ips) + 1) :
              ips'[i] = IF i = Len(ips) + 1 THEN Number(ip) ELSE ips[i]
    BY <1>3, <1>4, <2>1, AppendProperties
  <2>4. Upwards'
    <3>1. ASSUME NEW i \in 1..(Len(ips) + 1) PROVE ips'[i] = subnet.base + i - 1
      <4>1. CASE i = Len(ips) + 1
        BY <1>2, <1>3, <2>2, <2>3, <4>1
      <4>2. CASE i # Len(ips) + 1
        <5>1. i \in 1..Len(ips)
          BY <1>3, <4>2
        <5> QED
          BY <1>1, <2>3, <4>2, <5>1 DEF Upwards
      <4> QED
        BY <4>1, <4>2
    <3> QED
      BY <1>1, <2>3, <3>1 DEF Upwards
  <2>5. WalkTypeOK'
    BY <1>1, <1>4, <2>1, <2>3 DEF WalkTypeOK, Digits
  <2>6. Number(ip') = NextNumber'
    <3>1. Number(ip') = IF Number(ip) + 1 < Size[Bits] THEN Number(ip) + 1 ELSE 0
      BY <1>4, <2>1
    <3>2. NextNumber' = IF subnet.base + (Len(ips) + 1) = Size[Bits] THEN 0
                        ELSE subnet.base + (Len(ips) + 1)
      BY <1>1, <2>3 DEF NextNumber
    <3>3. /\ Number(ip) + 1 = subnet.base + (Len(ips) + 1)
          /\ subnet.base + (Len(ips) + 1) <= Size[Bits]
      <4>1. /\ subnet.base \in Nat /\ s \in Nat /\ Size[Bits] \in Nat /\ Len(ips) \in Nat
            /\ subnet.base + s <= Size[Bits]
        BY <1>2, <1>3
      <4> QED
        BY <2>2, <4>1
    <3>4. Number(ip) + 1 \in Nat
      BY <1>4
    <3> QED
      BY <1>2, <3>1, <3>2, <3>3, <3>4
  <2>7. Len(ips') <= s'
    BY <1>1, <1>2, <1>3, <2>2, <2>3 DEF s
  <2> QED
    BY <1>5, <2>1, <2>4, <2>5, <2>6, <2>7 DEF Counting, EveryHostOnce, s
<1>8. CASE ~SubnetContains(ip)
  <2>1. ips' = ips /\ ip' = ip /\ walk' = "trim"
    BY <1>1, <1>8 DEF Collect
  <2>2. Len(ips) = s
    <3>1. Number(ip) = NextNumber /\ Len(ips) <= s /\ Len(ips) \in Nat /\ s \in Nat
      BY <1>1, <1>2, <1>3
    <3>2. CASE subnet.base + Len(ips) = Size[Bits]
      BY <1>2, <3>1, <3>2
    <3>3. CASE subnet.base + Len(ips) # Size[Bits]
      <4>1. Number(ip) = subnet.base + Len(ips)
        BY <3>1, <3>3 DEF NextNumber
      <4>2. ~(Number(ip) < subnet.base + s)
        <5>1. subnet.base <= Number(ip)
          BY <1>2, <3>1, <4>1
        <5> QED
          BY <1>6, <1>8, <5>1
      <4> QED
        BY <1>2, <3>1, <4>1, <4>2
    <3> QED
      BY <3>2, <3>3
  <2>3. Upwards' /\ Len(ips') = s'
    BY <1>1, <2>1, <2>2 DEF Upwards, s
  <2>4. WalkTypeOK'
    BY <1>1, <2>1 DEF WalkTypeOK
  <2> QED
    BY <1>5, <2>1, <2>3, <2>4 DEF Counting, EveryHostOnce, s
<1> QED
  BY <1>7, <1>8

(* A list of consecutive addresses has each of them once, in order.        *)
LEMMA Consecutive ==
    ASSUME NEW s, NEW n \in Nat, NEW lo \in Nat, Len(s) = n,
           \A i \in 1..n : s[i] = lo + i - 1
    PROVE  /\ \A i \in 1..Len(s), j \in 1..Len(s) : i < j => s[i] < s[j]
           /\ {s[i] : i \in 1..Len(s)} = lo..(lo + n - 1)
<1>1. ASSUME NEW i \in 1..n, NEW j \in 1..n, i < j PROVE s[i] < s[j]
  <2>1. s[i] = lo + i - 1 /\ s[j] = lo + j - 1
    OBVIOUS
  <2> QED
    BY <1>1, <2>1
<1>2. \A i \in 1..n : s[i] \in lo..(lo + n - 1)
  OBVIOUS
<1>3. ASSUME NEW x \in lo..(lo + n - 1) PROVE \E i \in 1..n : s[i] = x
  <2>1. x - lo + 1 \in 1..n /\ lo + (x - lo + 1) - 1 = x
    OBVIOUS
  <2>2. s[x - lo + 1] = x
    BY <2>1
  <2> QED
    BY <2>1, <2>2
<1> QED
  BY <1>1, <1>2, <1>3

LEMMA CountingTrim == Counting /\ Trim => Counting'
<1> SUFFICES ASSUME Counting, Trim PROVE Counting'
  OBVIOUS
<1> DEFINE s == Size[subnet.hostBits]
           b == subnet.base
<1>1. /\ walk = "trim" /\ UNCHANGED <<subnet, limit, ip>>
      /\ WalkTypeOK /\ ~Oversized /\ Upwards /\ Len(ips) = s
  BY DEF Counting, Trim
<1>2. b \in Nat /\ s \in Nat /\ s >= 1 /\ s <= limit /\ limit \in Nat
  BY <1>1, SmallBlock DEF WalkTypeOK
<1>3. ips \in Seq(0..(Size[Bits] - 1)) /\ subnet.hostBits \in Nat
  BY <1>1, BitsAssumption DEF WalkTypeOK, Blocks
<1>4. SkipEnds => s >= 4
  BY <1>3, SizeFour DEF SkipEnds
<1>5. ips' = IF SkipEnds THEN SubSeq(ips, 2, Len(ips) - 1) ELSE ips
  BY <1>1, <1>2, <1>4 DEF Trim
<1>6. Hosts(subnet) = IF SkipEnds THEN (b + 1)..(b + s - 2) ELSE b..(b + s - 1)
  BY DEF Hosts, SkipEnds
<1>7. \A i \in 1..Len(ips) : ips[i] = b + i - 1
  BY <1>1 DEF Upwards
<1> HIDE DEF s, b
<1>8. /\ ips' \in Seq(0..(Size[Bits] - 1)) /\ Len(ips') <= s /\ Len(ips') \in Nat
      /\ \A i \in 1..Len(ips'), j \in 1..Len(ips') : i < j => ips'[i] < ips'[j]
      /\ {ips'[i] : i \in 1..Len(ips')} = Hosts(subnet)
  <2>1. CASE SkipEnds
    <3>1. ips' = SubSeq(ips, 2, s - 1) /\ s >= 4
      BY <1>1, <1>4, <1>5, <2>1
    <3>2. PICK m \in Nat, lo \in Nat : m = s - 2 /\ lo = b + 1
      <4>1. s - 2 \in Nat /\ b + 1 \in Nat
        BY <1>2, <3>1
      <4> QED
        BY <4>1
    <3>3. \A i \in 2..(s - 1) : ips[i] \in 0..(Size[Bits] - 1)
      <4>1. \A i \in 1..s : ips[i] \in 0..(Size[Bits] - 1)
        <5>1. Len(ips) = s
          BY <1>1
        <5> DEFINE R == 0..(Size[Bits] - 1)
        <5>2. ips \in Seq(R)
          BY <1>3
        <5> HIDE DEF R
        <5>3. \A i \in 1..s : ips[i] \in R
          BY <5>1, <5>2
        <5> QED
          BY <5>3 DEF R
      <4>2. \A i \in 2..(s - 1) : i \in 1..s
        BY <1>2
      <4> QED
        BY <4>1, <4>2
    <3>4. /\ ips' \in Seq(0..(Size[Bits] - 1))
          /\ Len(ips') = IF 2 <= s - 1 THEN s - 1 - 2 + 1 ELSE 0
          /\ \A i \in 1..(s - 1 - 2 + 1) : ips'[i] = ips[2 + i - 1]
      <4>1. 2 \in Int /\ s - 1 \in Int
        BY <1>2
      <4> QED
        BY <3>1, <3>3, <4>1, SubSeqProperties
    <3>5. Len(ips') = m
      BY <1>2, <3>1, <3>2, <3>4
    <3>6. ASSUME NEW i \in 1..m PROVE ips'[i] = lo + i - 1
      <4>1. i \in 1..(s - 1 - 2 + 1) /\ i + 1 \in 1..s /\ 2 + i - 1 = i + 1
        BY <1>2, <3>2
      <4>2. ips'[i] = ips[i + 1]
        BY <3>4, <4>1
      <4>3. ips[i + 1] = b + (i + 1) - 1
        BY <1>1, <1>7, <4>1
      <4> QED
        BY <1>2, <3>2, <4>2, <4>3
    <3>7. /\ \A i \in 1..Len(ips'), j \in 1..Len(ips') : i < j => ips'[i] < ips'[j]
          /\ {ips'[i] : i \in 1..Len(ips')} = lo..(lo + m - 1)
      BY <3>5, <3>6, Consecutive
    <3>8. lo = b + 1 /\ lo + m - 1 = b + s - 2 /\ m <= s
      BY <1>2, <3>2
    <3> QED
      BY <1>6, <2>1, <3>4, <3>5, <3>7, <3>8
  <2>2. CASE ~SkipEnds
    <3>1. ips' = ips /\ Len(ips) = s
      BY <1>1, <1>5, <2>2
    <3>2. \A i \in 1..s : ips[i] = b + i - 1
      BY <1>7, <3>1
    <3>3. /\ \A i \in 1..Len(ips), j \in 1..Len(ips) : i < j => ips[i] < ips[j]
          /\ {ips[i] : i \in 1..Len(ips)} = b..(b + s - 1)
      BY <1>2, <3>1, <3>2, Consecutive
    <3> QED
      BY <1>2, <1>3, <1>6, <2>2, <3>1, <3>3
  <2> QED
    BY <2>1, <2>2
<1>9. walk' = "probe"
  <2>1. ~(Len(ips') > limit)
    BY <1>2, <1>8
  <2> QED
    BY <2>1 DEF Trim
<1>10. WalkTypeOK'
  BY <1>1, <1>8, <1>9 DEF WalkTypeOK
<1>11. EveryHostOnce'
  BY <1>1, <1>8 DEF EveryHostOnce, Hosts
<1> QED
  BY <1>9, <1>10, <1>11 DEF Counting

LEMMA CountingEnds == Counting /\ EndWalk => Counting'
  BY DEF Counting, EndWalk, WalkTypeOK, EveryHostOnce

LEMMA CountingKept == Counting /\ UNCHANGED walkVars => Counting'
<1> SUFFICES ASSUME Counting, UNCHANGED walkVars PROVE Counting'
  OBVIOUS
<1>1. UNCHANGED <<walk, subnet, limit, ip, ips>>
  BY DEF walkVars
<1>2. WalkTypeOK' /\ EveryHostOnce' /\ (Oversized' <=> Oversized)
  BY <1>1 DEF Counting, WalkTypeOK, EveryHostOnce, Oversized
<1>3. (Upwards' <=> Upwards) /\ NextNumber' = NextNumber /\ Number(ip)' = Number(ip)
  BY <1>1 DEF Upwards, NextNumber, Number
<1> QED
  BY <1>1, <1>2, <1>3 DEF Counting

LEMMA NextCounting == Counting /\ Resolving /\ [Next]_vars => Counting'
<1> SUFFICES ASSUME Counting, Resolving, [Next]_vars PROVE Counting'
  OBVIOUS
<1>1. CASE UNCHANGED walkVars
  BY <1>1, CountingKept
<1>2. CASE RunAgent
  <2>1. CASE BothForms \/ ResolveEntry \/ Built
    <3>1. UNCHANGED walkVars
      BY <2>1 DEF BothForms, ResolveEntry, Built, Refuse
    <3> QED
      BY <3>1, CountingKept
  <2>2. ASSUME NEW i \in 1..Len(options), Scan(i)
        PROVE  Counting'
    <3>1. CASE resolved[i].subnet \notin Parseable
      BY <2>2, <3>1, CountingKept DEF Scan
    <3>2. CASE resolved[i].subnet \in Parseable
      <4>1. PICK s \in Startups : cfg = s.section
        BY DEF Resolving
      <4>2. cfg.block \in [Parseable -> Blocks] /\ cfg.global \in GlobalSections
        BY <4>1, SectionsAssumption
      <4>3. cfg.block[resolved[i].subnet] \in Blocks /\ cfg.global.maxHosts \in Nat \ {0}
        BY <3>2, <4>2 DEF GlobalSections
      <4>4. StartWalk(cfg.block[resolved[i].subnet], cfg.global.maxHosts)
        BY <2>2, <3>2 DEF Scan
      <4> QED
        BY <4>3, <4>4, CountingStartsAgain
    <3> QED
      BY <3>1, <3>2
  <2>3. CASE Walk
    BY <2>3, CountingSize, CountingCollect, CountingTrim DEF Walk, WalkStep
  <2> QED
    BY <1>2, <2>1, <2>2, <2>3 DEF RunAgent, ProfilesNext
<1>3. CASE EndSweep
  <2>1. EndWalk
    BY <1>3 DEF EndSweep, Prune, Cut, NextSweep
  <2> QED
    BY <2>1, CountingEnds
<1>4. CASE LoadConfig \/ Sweep \/ UNCHANGED vars
  <2>1. UNCHANGED walkVars
    BY <1>4 DEF LoadConfig, Sweep, vars, profileVars
  <2> QED
    BY <2>1, CountingKept
<1> QED
  BY <1>2, <1>3, <1>4 DEF Next

(* For bytes of any size and subnets of any length that pass the size      *)
(* check, those that end at the last address there is included: the        *)
(* goroutines of a scan are started for each host of the subnet once and   *)
(* for nothing else.                                                       *)
THEOREM EveryHost == Spec => [](WalkTypeOK /\ EveryHostOnce)
<1>1. Init => Counting
  BY CountingStarts DEF Init, ProfilesInit
<1>2. Counting => WalkTypeOK /\ EveryHostOnce
  BY DEF Counting
<1> QED
  BY <1>1, <1>2, InitResolving, NextResolving, NextCounting, PTL DEF Spec

-----------------------------------------------------------------------------
TCPRow(p, d) ==
    /\ IsOpen(<<"tcp", p>>)
    /\ rows[<<"tcp", p>>].service = Fingerprint(p, Shape[d].tcp[p])

UDPRow(p, d) == IsOpen(<<"udp", p>>) <=> p \in UDPAnswers(d)

(* What deepScan and udpScan dial in the end, and what is there.           *)
Asked == DeepPorts(Opts) \cap Open(device)
AskedUDP == UDPPorts(Opts) \cap DOMAIN Shape[device].udp

(* The goroutine of the address knows, as long as nothing went wrong, what *)
(* the device is and answers, up to the stage it is in.                    *)
Sighted ==
    /\ stage \in {"idle", "upsert", "liveness", "deep", "udp", "classify", "prune"}
    /\ stage # "idle" => walk = "probe"
    /\ {"winner", "vendor", "osfp", "tcp", "udp", "dialled"} \subseteq DOMAIN sight
    /\ clean /\ stage \notin {"idle", "prune"} =>
          /\ sight.winner \in ProbePorts(Opts) \cap Open(device)
          /\ sight.osfp = Fingerprint(sight.winner, Shape[device].tcp[sight.winner])
          /\ sight.vendor = Vendor(device, Opts)
    /\ clean /\ stage \in {"upsert", "liveness"} => sight.tcp = {sight.winner} /\ sight.udp = {}
    /\ clean /\ stage = "deep" => /\ sight.tcp = sight.dialled /\ sight.udp = {}
                                  /\ sight.winner \in sight.dialled
                                  /\ sight.dialled \subseteq {sight.winner} \cup Asked
    /\ clean /\ stage \in {"udp", "classify"} => sight.tcp = {sight.winner} \cup Asked
    /\ clean /\ stage = "udp" => /\ sight.dialled \subseteq AskedUDP
                                 /\ sight.udp = sight.dialled \cap UDPAnswers(device)
    /\ clean /\ stage = "classify" => sight.udp = UDPPorts(Opts) \cap UDPAnswers(device)

(* The host row has a blank type from the first write to the second, and   *)
(* afterwards tells what the sweep that wrote it has met.                  *)
Recorded ==
    /\ {"whole", "clean"} \subseteq DOMAIN told
    /\ stage \in {"liveness", "deep", "udp", "classify"} => ~told.whole /\ row = Row("")
    /\ row # NoRow /\ ~told.whole => row.type = ""
    /\ told.whole => told.profile \in 1..Len(options) /\ options[told.profile].scan = "done"
    /\ told.whole /\ row # NoRow => row.type = told.type
    /\ told.whole /\ told.clean =>
          /\ told.type \in Expected(told.device, options[told.profile])
          /\ row # NoRow => row.vendor = Vendor(told.device, options[told.profile])

(* The rows of ports follow the dials, and stay as they are after a sweep. *)
Written ==
    /\ clean /\ stage = "deep" => \A p \in sight.dialled : TCPRow(p, device)
    /\ clean /\ stage \in {"udp", "classify"} => \A p \in Asked : TCPRow(p, device)
    /\ clean /\ stage = "udp" => \A p \in sight.dialled : UDPRow(p, device)
    /\ clean /\ stage = "classify" => \A p \in AskedUDP : UDPRow(p, device)
    /\ told.whole /\ told.clean =>
          /\ \A p \in DeepPorts(options[told.profile]) \cap Open(told.device) :
                TCPRow(p, told.device)
          /\ \A p \in UDPPorts(options[told.profile]) \cap DOMAIN Shape[told.device].udp :
                UDPRow(p, told.device)

(* A step of the agent finds no sweep under way.                           *)
LEMMA AgentIdle ==
    ASSUME Resolving, Probing, Sighted, RunAgent
    PROVE  stage = "idle" /\ UNCHANGED sweepVars
<1>1. UNCHANGED sweepVars
  BY DEF RunAgent
<1>2. walk # "probe"
  BY DEF RunAgent, ProfilesNext, BothForms, ResolveEntry, Refuse, Built, Scan, StartWalk, Walk,
         WalkStep, CheckSize, Collect, Trim, Walking, Resolving
<1> QED
  BY <1>1, <1>2 DEF Sighted

LEMMA InitSwept == Init => Sighted /\ Recorded /\ Written
<1> SUFFICES ASSUME Init PROVE Sighted /\ Recorded /\ Written
  OBVIOUS
<1>1. /\ stage = "idle" /\ sight = Blank /\ row = NoRow /\ rows = <<>> /\ told = NoSweep
      /\ answered = {}
  BY DEF Init
<1>2. Sighted
  BY <1>1 DEF Sighted, Blank
<1>3. Recorded
  BY <1>1 DEF Recorded, NoSweep
<1>4. Written
  BY <1>1 DEF Written, NoSweep
<1> QED
  BY <1>2, <1>3, <1>4

(* The steps of a sweep leave the options alone.                           *)
LEMMA SweepFrame ==
    ASSUME Sweep
    PROVE  walk' = walk /\ pc' = pc /\ UNCHANGED <<options, current>> /\ Opts' = Opts
  BY DEF Sweep, UnchangedOutside, walkVars, Opts

LEMMA DeviceFrame ==
    ASSUME UNCHANGED <<options, current, device>>
    PROVE  Opts' = Opts /\ Asked' = Asked /\ AskedUDP' = AskedUDP
  BY DEF Opts, Asked, AskedUDP

LEMMA SightedProbe == Sighted /\ Sweep /\ Probe => Sighted'
<1> SUFFICES ASSUME Sighted, Sweep, Probe PROVE Sighted'
  OBVIOUS
<1>1. walk' = "probe" /\ UNCHANGED <<device, options, current>> /\ Opts' = Opts
  BY SweepFrame DEF Probe
<1>2. CASE NotFound
  BY <1>1, <1>2 DEF NotFound, Sighted
<1>3. ASSUME NEW winner \in ProbePorts(Opts) \cap Open(device), Found(winner) PROVE Sighted'
  <2>1. PICK osfp \in {Fingerprint(winner, Shape[device].tcp[winner]), ""} :
           /\ Unless(osfp # Fingerprint(winner, Shape[device].tcp[winner]))
           /\ sight' = [Blank EXCEPT !.winner = winner, !.osfp = osfp, !.tcp = {winner},
                                     !.vendor = Vendor(device, Opts)]
    BY <1>3 DEF Found
  <2>2. clean' => osfp = Fingerprint(winner, Shape[device].tcp[winner])
    BY <2>1 DEF Unless
  <2>3. /\ sight'.winner = winner /\ sight'.osfp = osfp /\ sight'.tcp = {winner}
        /\ sight'.vendor = Vendor(device, Opts) /\ sight'.udp = {}
        /\ {"winner", "vendor", "osfp", "tcp", "udp", "dialled"} \subseteq DOMAIN sight'
    BY <2>1 DEF Blank
  <2>4. stage' = "upsert"
    BY <1>3 DEF Found
  <2> QED
    BY <1>1, <1>3, <2>2, <2>3, <2>4 DEF Sighted
<1> QED
  BY <1>2, <1>3 DEF Probe

LEMMA SightedFound ==
    Sighted /\ Sweep /\ (UpsertHost \/ SaveLiveness \/ NoScanRecord \/ ChangeDevice) => Sighted'
<1> SUFFICES ASSUME Sighted, Sweep, UpsertHost \/ SaveLiveness \/ NoScanRecord \/ ChangeDevice
             PROVE  Sighted'
  OBVIOUS
<1>1. walk' = walk /\ UNCHANGED <<options, current>> /\ Opts' = Opts
  BY SweepFrame
<1>2. CASE UpsertHost
  <2>1. /\ stage = "upsert" /\ UNCHANGED <<device, sight>>
        /\ (stage' = "liveness" /\ clean' = clean) \/ stage' = "prune"
    BY <1>2 DEF UpsertHost, Unless
  <2> QED
    BY <1>1, <2>1 DEF Sighted
<1>3. CASE SaveLiveness
  <2>1. /\ stage = "liveness" /\ stage' = "deep" /\ UNCHANGED device
        /\ sight' = [sight EXCEPT !.dialled = {sight.winner}]
        /\ clean' => clean
    BY <1>3 DEF SaveLiveness, SavePort, Unless
  <2>2. /\ sight'.dialled = {sight.winner} /\ sight'.winner = sight.winner
        /\ sight'.osfp = sight.osfp /\ sight'.vendor = sight.vendor /\ sight'.tcp = sight.tcp
        /\ sight'.udp = sight.udp /\ DOMAIN sight' = DOMAIN sight
    BY <2>1 DEF Sighted
  <2> QED
    BY <1>1, <2>1, <2>2 DEF Sighted
<1>4. CASE NoScanRecord
  BY <1>1, <1>4 DEF NoScanRecord, Sighted
<1>5. CASE ChangeDevice
  BY <1>1, <1>5 DEF ChangeDevice, Sighted
<1> QED
  BY <1>2, <1>3, <1>4, <1>5

(* A sweep in which a write failed or a banner was lost is not clean.      *)
LEMMA SavesClean ==
    ASSUME NEW protocol, NEW port, NEW state, NEW service,
           SavePort(protocol, port, state, service) \/ SaveUnheard(protocol, port)
    PROVE  clean' => clean
<1>1. ASSUME Unless(TRUE) PROVE ~clean'
  BY <1>1 DEF Unless
<1> QED
  BY <1>1 DEF SavePort, SaveUnheard

LEMMA SightedDeep ==
    Sighted /\ Sweep /\ (DeepEnds \/ \E port \in Open(device) : DeepDial(port)) => Sighted'
<1> SUFFICES ASSUME Sighted, Sweep, DeepEnds \/ \E port \in Open(device) : DeepDial(port)
             PROVE  Sighted'
  OBVIOUS
<1>1. stage = "deep" /\ UNCHANGED <<options, current, device, walk>>
  BY SweepFrame DEF DeepEnds, DeepDial
<1>2. Opts' = Opts /\ Asked' = Asked /\ AskedUDP' = AskedUDP
  BY <1>1, DeviceFrame
<1>3. CASE DeepEnds
  <2>1. /\ Asked \subseteq sight.dialled /\ stage' = "udp" /\ clean' = clean
        /\ sight' = [sight EXCEPT !.dialled = {}]
    BY <1>3 DEF DeepEnds, DeepRest, Asked
  <2>2. /\ sight'.dialled = {} /\ sight'.winner = sight.winner /\ sight'.osfp = sight.osfp
        /\ sight'.vendor = sight.vendor /\ sight'.tcp = sight.tcp /\ sight'.udp = sight.udp
        /\ DOMAIN sight' = DOMAIN sight
    BY <2>1 DEF Sighted
  <2>3. clean => /\ sight.winner \in ProbePorts(Opts) \cap Open(device)
                 /\ sight.osfp = Fingerprint(sight.winner, Shape[device].tcp[sight.winner])
                 /\ sight.vendor = Vendor(device, Opts)
                 /\ sight.tcp = {sight.winner} \cup Asked /\ sight.udp = {}
    BY <1>1, <2>1 DEF Sighted
  <2>4. stage' = "udp" /\ walk' = "probe"
        /\ {"winner", "vendor", "osfp", "tcp", "udp", "dialled"} \subseteq DOMAIN sight'
    BY <1>1, <2>1, <2>2 DEF Sighted
  <2>5. sight'.dialled \subseteq AskedUDP /\ sight'.dialled \cap UDPAnswers(device) = {}
    BY <2>2
  <2> QED
    BY <1>1, <1>2, <2>1, <2>2, <2>3, <2>4, <2>5 DEF Sighted
<1>4. ASSUME NEW port \in Open(device), DeepDial(port) PROVE Sighted'
  <2>1. port \in Asked /\ stage' = "deep"
    BY <1>4 DEF DeepDial, DeepRest, Asked
  <2>2. /\ sight' \in {SeenDeep(port), [sight EXCEPT !.dialled = @ \cup {port}]}
        /\ clean' => clean /\ sight' = SeenDeep(port)
    <3> DEFINE label == Fingerprint(port, Shape[device].tcp[port])
    <3>1. CASE /\ SavePort("tcp", port, "open", label) \/ SaveUnheard("tcp", port)
               /\ sight' = SeenDeep(port)
      BY <3>1, SavesClean
    <3>2. CASE sight' = [sight EXCEPT !.dialled = @ \cup {port}] /\ Unless(TRUE)
      BY <3>2 DEF Unless
    <3> QED
      BY <1>4, <3>1, <3>2, Zenon DEF DeepDial
  <2>3. /\ sight'.winner = sight.winner /\ sight'.osfp = sight.osfp /\ sight'.vendor = sight.vendor
        /\ sight'.udp = sight.udp /\ DOMAIN sight' = DOMAIN sight
        /\ sight'.dialled = sight.dialled \cup {port}
    BY <2>2 DEF Sighted, SeenDeep
  <2>4. clean' => sight'.tcp = sight.tcp \cup {port}
    BY <2>2 DEF Sighted, SeenDeep
  <2> QED
    BY <1>1, <1>2, <2>1, <2>2, <2>3, <2>4 DEF Sighted
<1> QED
  BY <1>3, <1>4

LEMMA SightedUDP ==
    Sighted /\ Sweep
    /\ (UDPEnds \/ Classify \/ \E port \in DOMAIN Shape[device].udp : UDPProbe(port))
    => Sighted'
<1> SUFFICES ASSUME Sighted, Sweep,
                    UDPEnds \/ Classify \/ \E port \in DOMAIN Shape[device].udp : UDPProbe(port)
             PROVE  Sighted'
  OBVIOUS
<1>1. UNCHANGED <<options, current, device, walk>>
  BY SweepFrame DEF UDPEnds, UDPProbe, Classify
<1>2. Opts' = Opts /\ Asked' = Asked /\ AskedUDP' = AskedUDP
  BY <1>1, DeviceFrame
<1>3. CASE UDPEnds
  <2>1. /\ stage = "udp" /\ stage' = "classify" /\ clean' = clean
        /\ AskedUDP \subseteq sight.dialled /\ sight' = [sight EXCEPT !.dialled = {}]
    BY <1>3 DEF UDPEnds, UDPRest, AskedUDP
  <2>2. /\ sight'.dialled = {} /\ sight'.winner = sight.winner /\ sight'.osfp = sight.osfp
        /\ sight'.vendor = sight.vendor /\ sight'.tcp = sight.tcp /\ sight'.udp = sight.udp
        /\ DOMAIN sight' = DOMAIN sight
    BY <2>1 DEF Sighted
  <2>3. UDPAnswers(device) \subseteq DOMAIN Shape[device].udp
    BY DEF UDPAnswers
  <2>4. clean => sight.udp = UDPPorts(Opts) \cap UDPAnswers(device)
    BY <2>1, <2>3 DEF Sighted, AskedUDP
  <2> QED
    BY <1>1, <1>2, <2>1, <2>2, <2>4 DEF Sighted
<1>4. ASSUME NEW port \in DOMAIN Shape[device].udp, UDPProbe(port) PROVE Sighted'
  <2> DEFINE answers == Shape[device].udp[port] # "refused"
  <2>1. port \in AskedUDP /\ stage = "udp" /\ stage' = "udp"
    BY <1>4 DEF UDPProbe, UDPRest, AskedUDP
  <2>2. answers <=> port \in UDPAnswers(device)
    BY DEF UDPAnswers
  <2>3. /\ \/ sight' = [sight EXCEPT !.dialled = @ \cup {port},
                                     !.udp = IF answers THEN @ \cup {port} ELSE @]
           \/ sight' = [sight EXCEPT !.dialled = @ \cup {port}] /\ ~clean'
        /\ clean' => clean
    BY <1>4 DEF UDPProbe, SaveUDP, SavePort, SaveUnheard, Unless
  <2>4. /\ sight'.winner = sight.winner /\ sight'.osfp = sight.osfp /\ sight'.vendor = sight.vendor
        /\ sight'.tcp = sight.tcp /\ DOMAIN sight' = DOMAIN sight
        /\ sight'.dialled = sight.dialled \cup {port}
    BY <2>3 DEF Sighted
  <2>5. clean' => sight'.udp = IF answers THEN sight.udp \cup {port} ELSE sight.udp
    BY <2>3 DEF Sighted
  <2>6. clean' => /\ clean /\ sight'.dialled \subseteq AskedUDP
                  /\ sight'.udp = sight'.dialled \cap UDPAnswers(device)
    BY <2>1, <2>2, <2>3, <2>4, <2>5 DEF Sighted
  <2> QED
    BY <1>1, <1>2, <2>1, <2>4, <2>6 DEF Sighted
<1>5. CASE Classify
  BY <1>1, <1>5 DEF Classify, Sighted
<1> QED
  BY <1>3, <1>4, <1>5

LEMMA NextSighted == Resolving /\ Probing /\ Sighted /\ [Next]_vars => Sighted'
<1> SUFFICES ASSUME Resolving, Probing, Sighted, [Next]_vars PROVE Sighted'
  OBVIOUS
<1>1. CASE RunAgent
  BY <1>1, AgentIdle DEF Sighted, sweepVars
<1>2. CASE LoadConfig \/ UNCHANGED vars
  BY <1>2, DeviceFrame DEF LoadConfig, vars, profileVars, walkVars, sweepVars, Sighted
<1>3. CASE EndSweep
  <2>1. stage' = "idle" /\ sight' = Blank
    BY <1>3 DEF EndSweep, Prune, Cut, NextSweep
  <2> QED
    BY <2>1 DEF Sighted, Blank
<1>4. CASE Sweep
  BY <1>4, SightedProbe, SightedFound, SightedDeep, SightedUDP DEF Sweep
<1> QED
  BY <1>1, <1>2, <1>3, <1>4 DEF Next

-----------------------------------------------------------------------------
(* A clean sweep that gets to its end calls the device what it should.     *)
LEMMA ClassifyExpected ==
    ASSUME Sighted, stage = "classify", clean
    PROVE  /\ DeviceType(sight.vendor, sight.osfp, sight.tcp, sight.udp) \in Expected(device, Opts)
           /\ sight.vendor = Vendor(device, Opts)
<1>1. /\ sight.winner \in ProbePorts(Opts) \cap Open(device)
      /\ sight.osfp = Fingerprint(sight.winner, Shape[device].tcp[sight.winner])
      /\ sight.vendor = Vendor(device, Opts)
  BY DEF Sighted
<1>2. /\ sight.tcp = {sight.winner} \cup (DeepPorts(Opts) \cap Open(device))
      /\ sight.udp = UDPPorts(Opts) \cap UDPAnswers(device)
  BY DEF Sighted, Asked
<1> QED
  BY <1>1, <1>2 DEF Expected

LEMMA RecordedClassify ==
    Resolving /\ Probing /\ Sighted /\ Recorded /\ Sweep /\ Classify => Recorded'
<1> SUFFICES ASSUME Resolving, Probing, Sighted, Recorded, Sweep, Classify PROVE Recorded'
  OBVIOUS
<1> DEFINE type == DeviceType(sight.vendor, sight.osfp, sight.tcp, sight.udp)
<1>1. stage = "classify" /\ stage' = "prune" /\ UNCHANGED <<options, current>>
  BY SweepFrame DEF Classify
<1>2. ~told.whole /\ row = Row("")
  BY <1>1 DEF Recorded
<1>3. current \in 1..Len(options) /\ options[current].scan = "done"
  BY <1>1 DEF Sighted, Probing, Walking
<1>4. CASE UNCHANGED <<row, told>>
  BY <1>1, <1>2, <1>4 DEF Recorded
<1>5. CASE /\ IF type = "" THEN UNCHANGED row ELSE WriteRow(type)
           /\ told' = [device |-> device, profile |-> current, clean |-> clean, type |-> type,
                       whole |-> TRUE]
  <2>1. row' = Row(type)
    BY <1>2, <1>5 DEF WriteRow
  <2>2. row'.type = type /\ row'.vendor = sight.vendor
    BY <2>1 DEF Row
  <2>3. /\ {"whole", "clean"} \subseteq DOMAIN told' /\ told'.whole
        /\ told'.device = device /\ told'.profile = current /\ told'.type = type
        /\ told'.clean = clean
    BY <1>5
  <2>4. told'.clean => type \in Expected(device, Opts) /\ sight.vendor = Vendor(device, Opts)
    BY <1>1, <2>3, ClassifyExpected
  <2> HIDE DEF type
  <2>5. told'.clean =>
           /\ told'.type \in Expected(told'.device, options'[told'.profile])
           /\ row'.vendor = Vendor(told'.device, options'[told'.profile])
    BY <1>1, <2>2, <2>3, <2>4 DEF Opts
  <2>6. told'.profile \in 1..Len(options') /\ options'[told'.profile].scan = "done"
    BY <1>1, <1>3, <2>3
  <2> QED
    BY <1>1, <2>2, <2>3, <2>5, <2>6 DEF Recorded
<1> QED
  BY <1>4, <1>5 DEF Classify

LEMMA NextRecorded ==
    Resolving /\ Probing /\ Sighted /\ Recorded /\ [Next]_vars => Recorded'
<1> SUFFICES ASSUME Resolving, Probing, Sighted, Recorded, [Next]_vars PROVE Recorded'
  OBVIOUS
<1>1. CASE RunAgent
  <2>1. stage = "idle" /\ UNCHANGED sweepVars
    BY <1>1, AgentIdle
  <2>2. told.whole => /\ told.profile \in 1..Len(options')
                      /\ options'[told.profile] = options[told.profile]
                      /\ options[told.profile].scan = "done"
    BY <1>1, OptionsStay DEF Recorded
  <2> QED
    BY <2>1, <2>2 DEF Recorded, sweepVars
<1>2. CASE LoadConfig \/ UNCHANGED vars
  <2>1. UNCHANGED <<options, sight, row, told, stage>>
    BY <1>2 DEF LoadConfig, vars, profileVars, sweepVars
  <2> QED
    BY <2>1 DEF Recorded, Row
<1>3. CASE EndSweep
  <2>1. stage' = "idle" /\ options' = options
    BY <1>3 DEF EndSweep, Prune, Cut, NextSweep, UnchangedOutside
  <2>2. CASE UNCHANGED <<row, told>>
    BY <2>1, <2>2 DEF Recorded
  <2>3. CASE row' = NoRow /\ told' = NoSweep
    BY <2>1, <2>3 DEF Recorded, NoSweep
  <2> QED
    BY <1>3, <2>2, <2>3 DEF EndSweep, Prune, Cut, DeleteRow
<1>4. ASSUME Sweep PROVE Recorded'
  <2>1. UNCHANGED <<options, current>>
    BY <1>4, SweepFrame
  <2>2. CASE UpsertHost
    <3>1. CASE /\ row' = Row("") /\ told' = [told EXCEPT !.whole = FALSE]
               /\ stage' = "liveness" /\ UNCHANGED sight
      <4>1. ~told'.whole /\ {"whole", "clean"} \subseteq DOMAIN told'
        BY <3>1 DEF Recorded
      <4>2. row'.type = "" /\ row' = Row("")'
        BY <3>1 DEF Row
      <4> QED
        BY <3>1, <4>1, <4>2 DEF Recorded
    <3>2. CASE UNCHANGED <<row, told>> /\ stage' = "prune"
      BY <2>1, <3>2 DEF Recorded
    <3> QED
      BY <2>2, <3>1, <3>2 DEF UpsertHost, WriteRow
  <2>3. CASE Classify
    BY <1>4, <2>3, RecordedClassify
  <2>4. CASE Probe \/ NoScanRecord
    <3>1. UNCHANGED <<row, told>> /\ stage' \in {"upsert", "prune"}
      BY <2>4 DEF Probe, NotFound, Found, NoScanRecord
    <3> QED
      BY <2>1, <3>1 DEF Recorded
  <2>5. CASE \/ SaveLiveness \/ DeepEnds \/ UDPEnds \/ ChangeDevice
             \/ (\E port \in Open(device) : DeepDial(port))
             \/ (\E port \in DOMAIN Shape[device].udp : UDPProbe(port))
    <3>1. UNCHANGED <<row, told>>
          /\ (stage' = stage \/ stage \in {"liveness", "deep", "udp", "classify"})
      BY <2>5 DEF SaveLiveness, DeepEnds, UDPEnds, ChangeDevice, DeepDial, UDPProbe
    <3>2. sight'.vendor = sight.vendor /\ sight'.osfp = sight.osfp
      <4>1. CASE SaveLiveness \/ DeepEnds \/ UDPEnds \/ ChangeDevice
        BY <4>1 DEF SaveLiveness, DeepEnds, UDPEnds, ChangeDevice, Sighted
      <4>2. ASSUME NEW port \in Open(device), DeepDial(port)
            PROVE  sight'.vendor = sight.vendor /\ sight'.osfp = sight.osfp
        BY <4>2 DEF DeepDial, SeenDeep, Sighted
      <4>3. ASSUME NEW port \in DOMAIN Shape[device].udp, UDPProbe(port)
            PROVE  sight'.vendor = sight.vendor /\ sight'.osfp = sight.osfp
        BY <4>3 DEF UDPProbe, Sighted
      <4> QED
        BY <2>5, <4>1, <4>2, <4>3
    <3> QED
      BY <2>1, <3>1, <3>2 DEF Recorded, Row
  <2> QED
    BY <1>4, <2>2, <2>3, <2>4, <2>5 DEF Sweep
<1> QED
  BY <1>1, <1>2, <1>3, <1>4 DEF Next

LEMMA TypeIfRecorded == Sighted /\ Recorded => TypeOfLastSweep
  BY DEF Recorded, TypeOfLastSweep, Stands

(* Whatever answers, is lost or fails, and whichever machine has the       *)
(* address when: the type in a row comes from the sweep that wrote it last.*)
THEOREM TypeIsOfLastSweep == Spec => []TypeOfLastSweep
<1>1. Init => Resolving /\ Probing /\ Sighted /\ Recorded
  BY InitResolving, InitSwept
<1> QED
  BY <1>1, NextResolving, NextSighted, NextRecorded, TypeIfRecorded, PTL DEF Spec

-----------------------------------------------------------------------------
(* An upsert of a port writes its row and leaves the others.               *)
LEMMA PortRowGives ==
    ASSUME NEW protocol, NEW port, NEW state, NEW service,
           PortRow(protocol, port, state, service)
    PROVE  /\ DOMAIN rows' = DOMAIN rows \cup {<<protocol, port>>}
           /\ rows'[<<protocol, port>>].state = state
           /\ rows'[<<protocol, port>>].service = service
           /\ \A key \in DOMAIN rows : key # <<protocol, port>> => rows'[key] = rows[key]
  BY DEF PortRow

LEMMA RowsKept ==
    ASSUME NEW protocol, NEW port, NEW state, NEW service,
           UNCHANGED rows \/ PortRow(protocol, port, state, service),
           NEW key, key # <<protocol, port>>
    PROVE  /\ key \in DOMAIN rows' <=> key \in DOMAIN rows
           /\ key \in DOMAIN rows => rows'[key] = rows[key]
<1>1. CASE UNCHANGED rows
  BY <1>1
<1>2. CASE PortRow(protocol, port, state, service)
  <2>1. /\ DOMAIN rows' = DOMAIN rows \cup {<<protocol, port>>}
        /\ \A k \in DOMAIN rows : k # <<protocol, port>> => rows'[k] = rows[k]
    BY <1>2, PortRowGives
  <2> QED
    BY <2>1
<1> QED
  BY <1>1, <1>2

LEMMA TCPKept ==
    ASSUME NEW protocol, NEW port, NEW state, NEW service,
           UNCHANGED rows \/ PortRow(protocol, port, state, service),
           NEW p, NEW d, protocol = "udp" \/ p # port, TCPRow(p, d)
    PROVE  TCPRow(p, d)'
<1>1. <<"tcp", p>> # <<protocol, port>>
  OBVIOUS
<1>2. <<"tcp", p>> \in DOMAIN rows /\ rows[<<"tcp", p>>].state = "open"
      /\ rows[<<"tcp", p>>].service = Fingerprint(p, Shape[d].tcp[p])
  BY DEF TCPRow, IsOpen
<1>3. <<"tcp", p>> \in DOMAIN rows' /\ rows'[<<"tcp", p>>] = rows[<<"tcp", p>>]
  BY <1>1, <1>2, RowsKept
<1> QED
  BY <1>2, <1>3 DEF TCPRow, IsOpen

LEMMA UDPKept ==
    ASSUME NEW protocol, NEW port, NEW state, NEW service,
           UNCHANGED rows \/ PortRow(protocol, port, state, service),
           NEW p, NEW d, p # port, UDPRow(p, d)
    PROVE  UDPRow(p, d)'
<1>1. <<"udp", p>> # <<protocol, port>>
  OBVIOUS
<1>2. /\ <<"udp", p>> \in DOMAIN rows' <=> <<"udp", p>> \in DOMAIN rows
      /\ <<"udp", p>> \in DOMAIN rows => rows'[<<"udp", p>>] = rows[<<"udp", p>>]
  BY <1>1, RowsKept
<1> QED
  BY <1>2 DEF UDPRow, IsOpen, UDPAnswers

LEMMA TCPGiven ==
    ASSUME NEW p, NEW d, PortRow("tcp", p, "open", Fingerprint(p, Shape[d].tcp[p]))
    PROVE  TCPRow(p, d)'
<1> DEFINE label == Fingerprint(p, Shape[d].tcp[p])
<1>1. /\ <<"tcp", p>> \in DOMAIN rows' /\ rows'[<<"tcp", p>>].state = "open"
      /\ rows'[<<"tcp", p>>].service = label
  <2>1. PortRow("tcp", p, "open", label)
    OBVIOUS
  <2> HIDE DEF label
  <2>2. DOMAIN rows' = DOMAIN rows \cup {<<"tcp", p>>}
    BY <2>1, PortRowGives
  <2> QED
    BY <2>1, <2>2, PortRowGives
<1> QED
  BY <1>1 DEF TCPRow, IsOpen

LEMMA UDPGiven ==
    ASSUME NEW p, NEW d, NEW service, p \in DOMAIN Shape[d].udp,
           PortRow("udp", p, IF Shape[d].udp[p] = "refused" THEN "closed" ELSE "open", service)
    PROVE  UDPRow(p, d)'
<1> DEFINE state == IF Shape[d].udp[p] = "refused" THEN "closed" ELSE "open"
<1>1. <<"udp", p>> \in DOMAIN rows' /\ rows'[<<"udp", p>>].state = state
  <2>1. PortRow("udp", p, state, service)
    OBVIOUS
  <2> HIDE DEF state
  <2>2. DOMAIN rows' = DOMAIN rows \cup {<<"udp", p>>}
    BY <2>1, PortRowGives
  <2> QED
    BY <2>1, <2>2, PortRowGives
<1> QED
  BY <1>1 DEF UDPRow, IsOpen, UDPAnswers

(* Every TCP row is of a port that has answered.                           *)
Answered == \A k \in DOMAIN rows : k[1] = "tcp" => k[2] \in answered

LEMMA NextAnswered == Answered /\ [Next]_vars => Answered'
<1> SUFFICES ASSUME Answered, [Next]_vars PROVE Answered'
  OBVIOUS
<1>1. ASSUME NEW port, answered' = answered \cup {port}, NEW service,
             UNCHANGED rows \/ PortRow("tcp", port, "open", service)
      PROVE  Answered'
  <2> SUFFICES ASSUME NEW k \in DOMAIN rows', k[1] = "tcp" PROVE k[2] \in answered'
    BY DEF Answered
  <2>1. CASE k = <<"tcp", port>>
    BY <1>1, <2>1
  <2>2. CASE k # <<"tcp", port>>
    <3>1. k \in DOMAIN rows
      BY <1>1, <2>2, RowsKept
    <3> QED
      BY <1>1, <3>1 DEF Answered
  <2> QED
    BY <2>1, <2>2
<1>2. ASSUME UNCHANGED answered, NEW port, NEW state, NEW service,
             UNCHANGED rows \/ PortRow("udp", port, state, service)
      PROVE  Answered'
  <2> SUFFICES ASSUME NEW k \in DOMAIN rows', k[1] = "tcp" PROVE k[2] \in answered'
    BY DEF Answered
  <2>1. k # <<"udp", port>>
    OBVIOUS
  <2>2. k \in DOMAIN rows
    BY <1>2, <2>1, RowsKept
  <2> QED
    BY <1>2, <2>2 DEF Answered
<1>3. CASE UNCHANGED <<rows, answered>>
  BY <1>3 DEF Answered
<1>4. CASE rows' = <<>>
  BY <1>4 DEF Answered
<1>5. CASE SaveLiveness
  BY <1>1, <1>5 DEF SaveLiveness, SavePort
<1>6. ASSUME NEW port \in Open(device), DeepDial(port) PROVE Answered'
  <2> DEFINE label == Fingerprint(port, Shape[device].tcp[port])
  <2>1. CASE /\ SavePort("tcp", port, "open", label) \/ SaveUnheard("tcp", port)
             /\ answered' = answered \cup {port}
    BY <1>1, <2>1 DEF SavePort, SaveUnheard
  <2>2. CASE UNCHANGED <<rows, answered>>
    BY <1>3, <2>2
  <2> QED
    BY <1>6, <2>1, <2>2 DEF DeepDial
<1>7. ASSUME NEW port \in DOMAIN Shape[device].udp, UDPProbe(port) PROVE Answered'
  BY <1>2, <1>7 DEF UDPProbe, SaveUDP, SavePort, SaveUnheard
<1>8. CASE LoadConfig \/ RunAgent \/ EndSweep \/ UNCHANGED vars
  BY <1>3, <1>4, <1>8 DEF LoadConfig, RunAgent, EndSweep, Prune, Cut, DeleteRow, vars, sweepVars
<1>9. CASE \/ Probe \/ UpsertHost \/ DeepEnds \/ UDPEnds \/ Classify \/ NoScanRecord
           \/ ChangeDevice
  BY <1>3, <1>9 DEF Probe, UpsertHost, DeepEnds, UDPEnds, Classify, NoScanRecord, ChangeDevice
<1> QED
  BY <1>5, <1>6, <1>7, <1>8, <1>9 DEF Next, Sweep

(* A step inside a sweep, between the two writes of the host row.          *)
LEMMA WrittenLiveness == Sighted /\ Written /\ Sweep /\ SaveLiveness /\ ~told'.whole => Written'
<1> SUFFICES ASSUME Sighted, Written, Sweep, SaveLiveness, ~told'.whole PROVE Written'
  OBVIOUS
<1>1. /\ stage = "liveness" /\ stage' = "deep" /\ UNCHANGED device
      /\ sight' = [sight EXCEPT !.dialled = {sight.winner}]
  BY DEF SaveLiveness
<1>2. sight'.dialled = {sight.winner}
  BY <1>1 DEF Sighted
<1>3. ASSUME clean' PROVE TCPRow(sight.winner, device)'
  <2>1. clean /\ PortRow("tcp", sight.winner, "open", sight.osfp)
    BY <1>3 DEF SaveLiveness, SavePort, Unless
  <2>2. sight.osfp = Fingerprint(sight.winner, Shape[device].tcp[sight.winner])
    BY <1>1, <2>1 DEF Sighted
  <2>3. PICK w, d : w = sight.winner /\ d = device
    OBVIOUS
  <2>4. PortRow("tcp", w, "open", Fingerprint(w, Shape[d].tcp[w]))
    BY <2>1, <2>2, <2>3
  <2>5. TCPRow(w, d)'
    BY <2>4, TCPGiven
  <2>6. sight'.winner = w /\ device' = d
    BY <1>1, <2>3 DEF Sighted
  <2> QED
    BY <2>5, <2>6 DEF TCPRow, IsOpen
<1>4. sight'.winner = sight.winner
  BY <1>1 DEF Sighted
<1> QED
  BY <1>1, <1>2, <1>3, <1>4 DEF Written

LEMMA WrittenDeep ==
    ASSUME Sighted, Written, Sweep, NEW port \in Open(device), DeepDial(port), ~told'.whole
    PROVE  Written'
<1> DEFINE label == Fingerprint(port, Shape[device].tcp[port])
<1>1. /\ stage = "deep" /\ stage' = "deep" /\ UNCHANGED device
      /\ sight'.dialled = sight.dialled \cup {port} /\ port \notin sight.dialled
  BY DEF DeepDial, DeepRest, SeenDeep, Sighted
<1>2. ASSUME clean' PROVE clean /\ PortRow("tcp", port, "open", label)
  <2>1. ~Unless(TRUE)
    BY <1>2 DEF Unless
  <2>2. SavePort("tcp", port, "open", label)
    BY <2>1 DEF DeepDial, SaveUnheard
  <2> QED
    BY <1>2, <2>1, <2>2 DEF SavePort
<1>3. ASSUME clean', NEW p \in sight'.dialled PROVE TCPRow(p, device)'
  <2>1. PICK d : d = device
    OBVIOUS
  <2>2. clean /\ PortRow("tcp", port, "open", Fingerprint(port, Shape[d].tcp[port]))
    BY <1>2, <1>3, <2>1
  <2>3. CASE p = port
    <3>1. TCPRow(p, d)'
      BY <2>2, <2>3, TCPGiven
    <3> QED
      BY <1>1, <2>1, <3>1 DEF TCPRow, IsOpen
  <2>4. CASE p # port
    <3>1. TCPRow(p, d)
      BY <1>1, <1>3, <2>1, <2>2, <2>4 DEF Written
    <3>2. TCPRow(p, d)'
      BY <2>2, <2>4, <3>1, TCPKept
    <3> QED
      BY <1>1, <2>1, <3>2 DEF TCPRow, IsOpen
  <2> QED
    BY <2>3, <2>4
<1> QED
  BY <1>1, <1>3 DEF Written

LEMMA WrittenUDP ==
    ASSUME Sighted, Written, Sweep, NEW port \in DOMAIN Shape[device].udp, UDPProbe(port),
           ~told'.whole
    PROVE  Written'
<1> DEFINE speaks == Shape[device].udp[port]
           state == IF speaks = "refused" THEN "closed" ELSE "open"
<1>1. /\ stage = "udp" /\ stage' = "udp" /\ UNCHANGED <<device, options, current>>
      /\ sight'.dialled = sight.dialled \cup {port} /\ port \notin sight.dialled
      /\ Asked' = Asked
  BY SweepFrame, DeviceFrame DEF UDPProbe, UDPRest, Sighted
<1>2. ASSUME clean' PROVE clean /\ \E service : PortRow("udp", port, state, service)
  <2>1. ~Unless(TRUE)
    BY <1>2 DEF Unless
  <2>2. SaveUDP(port, speaks)
    BY <2>1 DEF UDPProbe, SaveUnheard
  <2> QED
    BY <1>2, <2>1, <2>2 DEF SaveUDP, SavePort
<1>3. ASSUME clean', NEW p \in Asked PROVE TCPRow(p, device)'
  <2>1. PICK d : d = device
    OBVIOUS
  <2>2. clean /\ TCPRow(p, d)
    BY <1>1, <1>2, <1>3, <2>1 DEF Written
  <2>3. PICK service : PortRow("udp", port, state, service)
    BY <1>2, <1>3
  <2> HIDE DEF state
  <2>4. TCPRow(p, d)'
    BY <2>2, <2>3, TCPKept
  <2> QED
    BY <1>1, <2>1, <2>4 DEF TCPRow, IsOpen
<1>4. ASSUME clean', NEW p \in sight'.dialled PROVE UDPRow(p, device)'
  <2>1. PICK d : d = device
    OBVIOUS
  <2>2. PICK service : PortRow("udp", port, state, service)
    BY <1>2, <1>4
  <2>3. CASE p = port
    <3>1. UDPRow(p, d)'
      BY <2>1, <2>2, <2>3, UDPGiven
    <3> QED
      BY <1>1, <2>1, <3>1 DEF UDPRow, IsOpen, UDPAnswers
  <2>4. CASE p # port
    <3>1. UDPRow(p, d)
      BY <1>1, <1>2, <1>4, <2>1, <2>4 DEF Written
    <3> HIDE DEF state
    <3>2. UDPRow(p, d)'
      BY <2>2, <2>4, <3>1, UDPKept
    <3> QED
      BY <1>1, <2>1, <3>2 DEF UDPRow, IsOpen, UDPAnswers
  <2> QED
    BY <2>3, <2>4
<1> QED
  BY <1>1, <1>3, <1>4 DEF Written

LEMMA WrittenEnds ==
    Sighted /\ Written /\ Sweep /\ (DeepEnds \/ UDPEnds) /\ ~told'.whole => Written'
<1> SUFFICES ASSUME Sighted, Written, Sweep, DeepEnds \/ UDPEnds, ~told'.whole PROVE Written'
  OBVIOUS
<1>1. UNCHANGED <<device, rows, clean, options, current>>
  BY SweepFrame DEF DeepEnds, UDPEnds
<1>2. Asked' = Asked /\ AskedUDP' = AskedUDP
  BY <1>1, DeviceFrame
<1>3. sight'.dialled = {}
  BY DEF DeepEnds, UDPEnds, Sighted
<1>4. \A p : /\ TCPRow(p, device)' <=> TCPRow(p, device)
             /\ UDPRow(p, device)' <=> UDPRow(p, device)
  BY <1>1 DEF TCPRow, UDPRow, IsOpen, UDPAnswers
<1>5. CASE DeepEnds
  <2>1. stage = "deep" /\ stage' = "udp" /\ Asked \subseteq sight.dialled
    BY <1>5 DEF DeepEnds, DeepRest, Asked
  <2>2. clean => \A p \in Asked : TCPRow(p, device)
    BY <2>1 DEF Written
  <2> QED
    BY <1>1, <1>2, <1>3, <1>4, <2>1, <2>2 DEF Written
<1>6. CASE UDPEnds
  <2>1. stage = "udp" /\ stage' = "classify" /\ AskedUDP \subseteq sight.dialled
    BY <1>6 DEF UDPEnds, UDPRest, AskedUDP
  <2>2. clean => /\ \A p \in Asked : TCPRow(p, device)
                 /\ \A p \in AskedUDP : UDPRow(p, device)
    BY <2>1 DEF Written
  <2> QED
    BY <1>1, <1>2, <1>3, <1>4, <2>1, <2>2 DEF Written
<1> QED
  BY <1>5, <1>6

LEMMA WrittenClassify == Written /\ Recorded /\ Sweep /\ Classify => Written'
<1> SUFFICES ASSUME Written, Recorded, Sweep, Classify PROVE Written'
  OBVIOUS
<1>1. /\ stage = "classify" /\ stage' = "prune" /\ ~told.whole
      /\ UNCHANGED <<device, rows, options, current>>
  BY SweepFrame DEF Classify, Recorded
<1>2. CASE told' = told
  BY <1>1, <1>2 DEF Written
<1>3. CASE told' # told
  <2>1. PICK type : told' = [device |-> device, profile |-> current, clean |-> clean,
                             type |-> type, whole |-> TRUE]
    BY <1>3, Zenon DEF Classify
  <2>2. \A p, d : (TCPRow(p, d)' <=> TCPRow(p, d)) /\ (UDPRow(p, d)' <=> UDPRow(p, d))
    BY <1>1 DEF TCPRow, UDPRow, IsOpen, UDPAnswers
  <2>3. clean => /\ \A p \in DeepPorts(options[current]) \cap Open(device) : TCPRow(p, device)
                 /\ \A p \in UDPPorts(options[current]) \cap DOMAIN Shape[device].udp :
                       UDPRow(p, device)
    BY <1>1 DEF Written, Asked, AskedUDP, Opts
  <2> QED
    BY <1>1, <2>1, <2>2, <2>3 DEF Written, TCPRow, UDPRow, IsOpen, UDPAnswers
<1> QED
  BY <1>2, <1>3

(* Outside of those steps no row is written, and told and its options stay.*)
LEMMA WrittenKept ==
    ASSUME Written, UNCHANGED <<rows, told>>, stage' \in {"idle", "upsert", "liveness", "prune"},
           told.whole => options'[told.profile] = options[told.profile]
    PROVE  Written'
<1>1. \A p, d : (TCPRow(p, d)' <=> TCPRow(p, d)) /\ (UDPRow(p, d)' <=> UDPRow(p, d))
  BY DEF TCPRow, UDPRow, IsOpen, UDPAnswers
<1> QED
  BY <1>1 DEF Written, TCPRow, UDPRow, IsOpen, UDPAnswers

LEMMA NextWritten ==
    Resolving /\ Probing /\ Sighted /\ Recorded /\ Written /\ [Next]_vars => Written'
<1> SUFFICES ASSUME Resolving, Probing, Sighted, Recorded, Written, [Next]_vars PROVE Written'
  OBVIOUS
<1>0. Recorded'
  BY NextRecorded
<1>1. CASE RunAgent
  <2>1. stage = "idle" /\ UNCHANGED sweepVars
    BY <1>1, AgentIdle
  <2>2. told.whole => options'[told.profile] = options[told.profile]
    BY <1>1, OptionsStay DEF Recorded
  <2> QED
    BY <2>1, <2>2, WrittenKept DEF sweepVars
<1>2. CASE LoadConfig \/ UNCHANGED vars
  <2>1. UNCHANGED <<options, current, sight, device, rows, told, stage, clean>>
    BY <1>2 DEF LoadConfig, vars, profileVars, sweepVars
  <2>2. Asked' = Asked /\ AskedUDP' = AskedUDP
    BY <2>1, DeviceFrame
  <2> QED
    BY <2>1, <2>2 DEF Written, TCPRow, UDPRow, IsOpen, UDPAnswers
<1>3. CASE EndSweep
  <2>1. stage' = "idle" /\ options' = options
    BY <1>3 DEF EndSweep, Prune, Cut, NextSweep, UnchangedOutside
  <2>2. CASE UNCHANGED <<rows, told>>
    BY <2>1, <2>2, WrittenKept
  <2>3. CASE told' = NoSweep
    BY <2>1, <2>3 DEF Written, NoSweep
  <2> QED
    BY <1>3, <2>2, <2>3 DEF EndSweep, Prune, Cut
<1>4. ASSUME Sweep PROVE Written'
  <2>1. UNCHANGED <<options, current>>
    BY <1>4, SweepFrame
  <2>2. CASE Probe \/ NoScanRecord
    <3>1. UNCHANGED <<rows, told>> /\ stage' \in {"upsert", "prune"}
      BY <2>2 DEF Probe, NotFound, Found, NoScanRecord
    <3> QED
      BY <2>1, <3>1, WrittenKept
  <2>3. CASE UpsertHost
    <3>1. CASE UNCHANGED <<rows, told>> /\ stage' \in {"liveness", "prune"}
      BY <2>1, <3>1, WrittenKept
    <3>2. CASE stage' = "liveness"
      BY <1>0, <3>2 DEF Recorded, Written
    <3> QED
      BY <2>3, <3>1, <3>2 DEF UpsertHost
  <2>4. CASE ChangeDevice
    <3>1. UNCHANGED <<rows, told, stage>> /\ clean' = (stage = "idle")
      BY <2>4 DEF ChangeDevice
    <3>2. \A p, d : (TCPRow(p, d)' <=> TCPRow(p, d)) /\ (UDPRow(p, d)' <=> UDPRow(p, d))
      BY <3>1 DEF TCPRow, UDPRow, IsOpen, UDPAnswers
    <3> QED
      BY <2>1, <3>1, <3>2 DEF Written, TCPRow, UDPRow, IsOpen, UDPAnswers
  <2>5. CASE SaveLiveness
    <3>1. ~told'.whole
      BY <1>0, <2>5 DEF Recorded, SaveLiveness
    <3> QED
      BY <1>4, <2>5, <3>1, WrittenLiveness
  <2>6. ASSUME NEW port \in Open(device), DeepDial(port) PROVE Written'
    <3>1. ~told'.whole
      BY <1>0, <2>6 DEF Recorded, DeepDial
    <3> QED
      BY <1>4, <2>6, <3>1, WrittenDeep
  <2>7. ASSUME NEW port \in DOMAIN Shape[device].udp, UDPProbe(port) PROVE Written'
    <3>1. ~told'.whole
      BY <1>0, <2>7 DEF Recorded, UDPProbe
    <3> QED
      BY <1>4, <2>7, <3>1, WrittenUDP
  <2>8. CASE DeepEnds \/ UDPEnds
    <3>1. ~told'.whole
      BY <1>0, <2>8 DEF Recorded, DeepEnds, UDPEnds
    <3> QED
      BY <1>4, <2>8, <3>1, WrittenEnds
  <2>9. CASE Classify
    BY <1>4, <2>9, WrittenClassify
  <2> QED
    BY <1>4, <2>2, <2>3, <2>4, <2>5, <2>6, <2>7, <2>8, <2>9 DEF Sweep
<1> QED
  BY <1>1, <1>2, <1>3, <1>4 DEF Next

LEMMA RowsIfWritten == Written /\ Answered => RowsTellSweeps
  BY DEF Written, Answered, RowsTellSweeps, TCPRow, UDPRow

(* The rows of ports tell, between sweeps, what the last sweep was         *)
(* answered, closed UDP ports included.                                    *)
THEOREM RowsTell == Spec => []RowsTellSweeps
<1>1. Init => Resolving /\ Probing /\ Sighted /\ Recorded /\ Written
  BY InitResolving, InitSwept
<1>2. Init => Answered
  BY DEF Init, Answered
<1> QED
  BY <1>1, <1>2, NextResolving, NextSighted, NextRecorded, NextWritten, NextAnswered,
     RowsIfWritten, PTL DEF Spec

-----------------------------------------------------------------------------
(* Only OpenSSH has a say in a type, and only port 22 is it read on.       *)
LEMMA FingerprintOpenSSH ==
    ASSUME NEW port, NEW speaks, Fingerprint(port, speaks) \in OpenSSH
    PROVE  port = 22 /\ speaks \in OpenSSH
<1>1. LineLabel(port) \notin OpenSSH
  BY DEF LineLabel, OpenSSH
<1>2. StrictLabel(port) \notin OpenSSH
  BY DEF StrictLabel, OpenSSH
<1>3. "" \notin OpenSSH
  BY DEF OpenSSH
<1> QED
  BY <1>1, <1>2, <1>3 DEF Fingerprint

LEMMA RulesWithoutOpenSSH ==
    ASSUME NEW vendor, NEW tcp, NEW udp, NEW o1, NEW o2, o1 \notin OpenSSH, o2 \notin OpenSSH
    PROVE  DeviceType(vendor, o1, tcp, udp) = DeviceType(vendor, o2, tcp, udp)
<1>1. SSHRules(o1) = SSHRules(o2)
  <2>1. /\ o1 # "SSH-OpenSSH" /\ o2 # "SSH-OpenSSH"
        /\ o1 # "SSH-OpenSSH_for_Windows" /\ o2 # "SSH-OpenSSH_for_Windows"
    BY DEF OpenSSH
  <2> QED
    BY <2>1 DEF SSHRules
<1>2. Rules(vendor, o1, tcp, udp) = Rules(vendor, o2, tcp, udp)
  BY <1>1 DEF Rules
<1> QED
  BY <1>2, Zenon DEF DeviceType

LEMMA OneExpected ==
    ASSUME NEW d, NEW o, Steady(o, d), NEW t1 \in Expected(d, o), NEW t2 \in Expected(d, o)
    PROVE  t1 = t2
<1> DEFINE Label(w) == Fingerprint(w, Shape[d].tcp[w])
           tcp == DeepPorts(o) \cap Open(d)
           udp == UDPPorts(o) \cap UDPAnswers(d)
           TypeBy(w) == DeviceType(Vendor(d, o), Label(w), tcp, udp)
<1>1. ASSUME NEW w \in ProbePorts(o) \cap Open(d) PROVE {w} \cup tcp = tcp /\ Label(w) \notin OpenSSH
  <2>1. {w} \cup tcp = tcp
    BY <1>1 DEF Steady
  <2>2. Label(w) \notin OpenSSH
    BY <1>1, FingerprintOpenSSH DEF Steady
  <2> QED
    BY <2>1, <2>2
<1>2. PICK w1 \in ProbePorts(o) \cap Open(d) :
         t1 = DeviceType(Vendor(d, o), Label(w1), {w1} \cup tcp, udp)
  BY DEF Expected
<1>3. PICK w2 \in ProbePorts(o) \cap Open(d) :
         t2 = DeviceType(Vendor(d, o), Label(w2), {w2} \cup tcp, udp)
  BY DEF Expected
<1>4. t1 = TypeBy(w1) /\ t2 = TypeBy(w2)
  BY <1>1, <1>2, <1>3
<1> QED
  BY <1>1, <1>4, RulesWithoutOpenSSH

(* A clean sweep that was told stays in mind when another one has begun.   *)
Named ==
    /\ {"whole", "clean"} \subseteq DOMAIN told
    /\ told.clean => /\ {"device", "profile", "type"} \subseteq DOMAIN told
                     /\ told.profile \in 1..Len(options) /\ options[told.profile].scan = "done"
                     /\ told.type \in Expected(told.device, options[told.profile])

LEMMA NextNamed == Resolving /\ Probing /\ Sighted /\ Named /\ [Next]_vars => Named'
<1> SUFFICES ASSUME Resolving, Probing, Sighted, Named, [Next]_vars PROVE Named'
  OBVIOUS
<1>1. CASE RunAgent
  <2>1. UNCHANGED told
    BY <1>1 DEF RunAgent, sweepVars
  <2>2. told.clean => /\ told.profile \in 1..Len(options')
                      /\ options'[told.profile] = options[told.profile]
                      /\ options[told.profile].scan = "done"
    BY <1>1, OptionsStay DEF Named
  <2> QED
    BY <2>1, <2>2 DEF Named
<1>2. CASE UNCHANGED <<options, told>>
  BY <1>2 DEF Named
<1>3. CASE told' = NoSweep
  BY <1>3 DEF Named, NoSweep
<1>4. CASE UNCHANGED options /\ told' = [told EXCEPT !.whole = FALSE]
  <2>1. told'.clean = told.clean /\ DOMAIN told' = DOMAIN told
    BY <1>4 DEF Named
  <2>2. told.clean => /\ told'.device = told.device /\ told'.profile = told.profile
                      /\ told'.type = told.type
    BY <1>4 DEF Named
  <2> QED
    BY <1>4, <2>1, <2>2 DEF Named
<1>5. CASE Sweep /\ Classify
  <2> DEFINE type == DeviceType(sight.vendor, sight.osfp, sight.tcp, sight.udp)
  <2>1. stage = "classify" /\ UNCHANGED <<options, current>>
    BY <1>5, SweepFrame DEF Classify
  <2>2. current \in 1..Len(options) /\ options[current].scan = "done"
    BY <2>1 DEF Sighted, Probing, Walking
  <2>3. clean => type \in Expected(device, options[current])
    BY <2>1, ClassifyExpected DEF Opts
  <2>4. \/ told' = told
        \/ told' = [device |-> device, profile |-> current, clean |-> clean, type |-> type,
                    whole |-> TRUE]
    BY <1>5 DEF Classify
  <2> HIDE DEF type
  <2>5. CASE told' = told
    BY <1>2, <2>1, <2>5
  <2>6. CASE told' = [device |-> device, profile |-> current, clean |-> clean, type |-> type,
                      whole |-> TRUE]
    <3>1. /\ told'.device = device /\ told'.profile = current /\ told'.clean = clean
          /\ told'.type = type
          /\ {"whole", "clean", "device", "profile", "type"} \subseteq DOMAIN told'
      BY <2>6
    <3> QED
      BY <2>1, <2>2, <2>3, <3>1 DEF Named
  <2> QED
    BY <2>4, <2>5, <2>6
<1>6. CASE Sweep /\ ~Classify
  <2>1. UNCHANGED options
    BY <1>6, SweepFrame
  <2>2. told' = told \/ told' = [told EXCEPT !.whole = FALSE]
    BY <1>6 DEF Sweep, Probe, UpsertHost, SaveLiveness, DeepDial, DeepEnds, UDPProbe, UDPEnds,
                NoScanRecord, ChangeDevice
  <2> QED
    BY <1>2, <1>4, <2>1, <2>2
<1>7. CASE LoadConfig \/ EndSweep \/ UNCHANGED vars
  BY <1>2, <1>3, <1>7 DEF LoadConfig, EndSweep, Prune, Cut, UnchangedOutside, vars, profileVars,
                          sweepVars
<1> QED
  BY <1>1, <1>5, <1>6, <1>7 DEF Next

(* A step that tells of another sweep is its last, with the same options.  *)
LEMMA ToldByClassify ==
    ASSUME [Next]_vars, told' # told, told'.whole, Named
    PROVE  UNCHANGED options
<1>1. CASE Sweep
  BY <1>1, SweepFrame
<1>2. CASE EndSweep
  BY <1>2 DEF EndSweep, UnchangedOutside
<1> QED
  BY <1>1, <1>2 DEF Next, LoadConfig, RunAgent, vars, sweepVars

(* Two clean sweeps of one device by one profile give it one type,         *)
(* whichever of its ports answers first.                                   *)
THEOREM SameType == Spec => SameHostSameType
<1> DEFINE Same == told'.whole /\ told'.clean /\ told.clean
                   /\ told.device = told'.device /\ told.profile = told'.profile
                   /\ Steady(options[told.profile], told.device)
                   => told'.type = told.type
<1>1. Init => Resolving /\ Probing /\ Sighted /\ Named
  <2>1. Init => Named
    BY DEF Init, Named, NoSweep
  <2> QED
    BY <2>1, InitResolving, InitSwept
<1>2. Named /\ Named' /\ [Next]_vars => [Same]_told
  <2> SUFFICES ASSUME Named, Named', [Next]_vars, told' # told, told'.whole, told'.clean,
                      told.clean, told.device = told'.device, told.profile = told'.profile,
                      Steady(options[told.profile], told.device)
               PROVE  told'.type = told.type
    OBVIOUS
  <2>1. UNCHANGED options
    BY ToldByClassify
  <2>2. /\ told.type \in Expected(told.device, options[told.profile])
        /\ told'.type \in Expected(told.device, options[told.profile])
    BY <2>1 DEF Named
  <2> QED
    BY <2>2, OneExpected
<1> QED
  BY <1>1, <1>2, NextResolving, NextSighted, NextNamed, PTL DEF Spec, SameHostSameType

-----------------------------------------------------------------------------
(* What Resolve has let through: the subnets met are those of the profiles *)
(* it has resolved, each named and named once. Their switches are settled; *)
(* a list may still be missing, which is left to the scanner's defaults.   *)
SubnetsDistinct ==
    \A i, j \in 1..Len(resolved) : resolved[i].subnet = resolved[j].subnet => i = j

Whole(r) ==
    /\ {r.deepOn, r.arpOn} \subseteq {On, Off}
    /\ {r.interval, r.timeout} \subseteq Nat
    /\ {r.probe, r.deep, r.udp} \subseteq GivenLists

Resolved ==
    /\ pc \in {"resolve", "built", "refused"}
    /\ current \in 0..Len(options)
    /\ seen \subseteq Names \ {""}
    /\ \A i \in 1..Len(resolved) : resolved[i].subnet \in seen /\ Whole(resolved[i])
    /\ SubnetsDistinct

(* An entry is a profile of the file, or a bare one made of a flat subnet. *)
LEMMA EntryTypes ==
    ASSUME cfg \in {s.section : s \in Startups}, NEW i \in 1..Len(Entries)
    PROVE  Entries[i] \in ProfileSections
<1>1. PICK s \in Startups : cfg = s.section
  OBVIOUS
<1>2. cfg.flat \in Seq(Names) /\ cfg.profiles \in Seq(ProfileSections)
  BY <1>1, SectionsAssumption
<1>3. CASE cfg.profiles # <<>>
  BY <1>2, <1>3 DEF Entries
<1>4. CASE cfg.profiles = <<>>
  <2>1. Entries = [n \in 1..Len(cfg.flat) |-> Bare(cfg.flat[n])] /\ Len(cfg.flat) \in Nat
    BY <1>2, <1>4 DEF Entries
  <2>2. i \in 1..Len(cfg.flat)
    BY <2>1
  <2>3. Entries[i] = Bare(cfg.flat[i]) /\ cfg.flat[i] \in Names
    BY <1>2, <2>1, <2>2
  <2> QED BY <2>3 DEF Bare, ProfileSections, GivenLists
<1> QED BY <1>3, <1>4

(* A field of a resolved profile is what it or the global section says.    *)
LEMMA ResolutionTypes ==
    ASSUME NEW p \in ProfileSections, NEW g \in GlobalSections
    PROVE  ResolveProfile(p, g).subnet = p.subnet /\ Whole(ResolveProfile(p, g))
<1>1. /\ {p.deepOn, p.arpOn} \subseteq {Unset, On, Off} /\ {g.deepOn, g.arpOn} \subseteq {On, Off}
      /\ {p.interval, p.timeout, g.interval, g.timeout} \subseteq Nat
      /\ {p.probe, p.deep, p.udp, g.probe, g.deep, g.udp} \subseteq GivenLists
  BY DEF ProfileSections, GlobalSections
<1> DEFINE r == ResolveProfile(p, g)
<1>2. /\ r.subnet = p.subnet /\ {r.deepOn, r.arpOn} \subseteq {On, Off}
      /\ {r.interval, r.timeout} \subseteq Nat
  BY <1>1 DEF ResolveProfile
<1>3. {r.probe, r.deep, r.udp} \subseteq GivenLists
  BY <1>1 DEF ResolveProfile, Inherit
<1> HIDE DEF r
<1>4. Whole(r)
  BY <1>2, <1>3 DEF Whole
<1> QED BY <1>2, <1>4 DEF r

(* Scans and sweeps read the profiles only.                                *)
LEMMA ResolvedStays ==
    ASSUME Resolved, UNCHANGED <<pc, seen, resolved, options, current>> PROVE Resolved'
BY DEF Resolved, SubnetsDistinct

(* The sequence and its places after an Append.                            *)
LEMMA Appended ==
    ASSUME NEW R, NEW s \in Seq(R), NEW r \in R
    PROVE  /\ Len(s) \in Nat /\ Len(Append(s, r)) = Len(s) + 1
           /\ 1..Len(Append(s, r)) = 1..Len(s) \cup {Len(s) + 1}
           /\ \A i \in 1..Len(s) : Append(s, r)[i] = s[i]
           /\ Append(s, r)[Len(s) + 1] = r
<1>1. Len(s) \in Nat
  BY LenProperties
<1>2. \A k \in Nat : 1..(k + 1) = 1..k \cup {k + 1}
  OBVIOUS
<1>3. Len(Append(s, r)) = Len(s) + 1
  BY AppendProperties
<1>4. \A i \in 1..Len(s) : Append(s, r)[i] = s[i]
  BY AppendProperties
<1>5. Append(s, r)[Len(s) + 1] = r
  BY AppendProperties
<1> QED BY <1>1, <1>2, <1>3, <1>4, <1>5

(* The entry that is let through has a subnet not met before.              *)
LEMMA ResolvedGrows ==
    ASSUME NEW R, resolved \in Seq(R), Resolved, NEW r \in R, Whole(r),
           r.subnet \in Names \ {""}, r.subnet \notin seen, seen' = seen \cup {r.subnet},
           resolved' = Append(resolved, r), UNCHANGED <<pc, options, current>>
    PROVE  Resolved'
<1> DEFINE n == Len(resolved)
<1>1. n \in Nat
  BY LenProperties
<1>2. /\ \A i \in 1..n : resolved'[i] = resolved[i]
      /\ resolved'[n + 1] = r
  <2>1. \A i \in 1..n : Append(resolved, r)[i] = resolved[i]
    BY ONLY Appended, resolved \in Seq(R), r \in R
  <2>2. Append(resolved, r)[n + 1] = r
    BY Appended
  <2>3. resolved' = Append(resolved, r)
    OBVIOUS
  <2> QED BY ONLY <2>1, <2>2, <2>3
<1>3. 1..Len(resolved') = 1..n \cup {n + 1}
  BY Appended
<1> HIDE DEF n
<1>4. \A i \in 1..n : resolved[i].subnet \in seen /\ Whole(resolved[i])
  BY DEF Resolved, n
<1>5. \A i \in 1..n : resolved'[i].subnet \in seen /\ resolved'[i].subnet # r.subnet
  BY <1>2, <1>4
<1>6. \A i \in 1..Len(resolved') : resolved'[i].subnet \in seen' /\ Whole(resolved'[i])
  <2> SUFFICES ASSUME NEW i \in 1..n \cup {n + 1}
               PROVE  resolved'[i].subnet \in seen' /\ Whole(resolved'[i])
    BY <1>3
  <2>1. CASE i \in 1..n
    BY <1>2, <1>4, <2>1
  <2>2. CASE i = n + 1
    BY <1>2, <2>2
  <2> QED BY <2>1, <2>2
<1>7. SubnetsDistinct'
  <2> SUFFICES ASSUME NEW i \in 1..n \cup {n + 1}, NEW j \in 1..n \cup {n + 1},
                      resolved'[i].subnet = resolved'[j].subnet
               PROVE  i = j
    BY <1>3 DEF SubnetsDistinct
  <2>1. CASE i \in 1..n /\ j \in 1..n
    <3>1. resolved[i].subnet = resolved[j].subnet
      BY <1>2, <2>1
    <3> QED BY <2>1, <3>1 DEF Resolved, SubnetsDistinct, n
  <2>2. CASE i = n + 1 /\ j \in 1..n
    BY <1>2, <1>5, <2>2
  <2>3. CASE i \in 1..n /\ j = n + 1
    BY <1>2, <1>5, <2>3
  <2> QED BY <2>1, <2>2, <2>3
<1>8. seen' \subseteq Names \ {""}
  BY DEF Resolved
<1>9. pc' \in {"resolve", "built", "refused"} /\ current' \in 0..Len(options')
  BY DEF Resolved
<1> QED BY <1>6, <1>7, <1>8, <1>9 DEF Resolved, Whole

(* Resolve either lets an entry through or refuses the whole file.         *)
LEMMA ResolvedStep == ASSUME Resolving, Resolved, [Next]_vars PROVE Resolved'
<1>0. Len(resolved) \in Nat /\ Len(options) \in Nat
  BY DEF Resolving
<1>1. CASE BothForms
  BY <1>1 DEF BothForms, Refuse, Resolved, SubnetsDistinct
<1>2. CASE ResolveEntry
  <2>1. at \in 1..Len(Entries)
    <3>1. Len(Entries) \in Nat /\ at = Len(resolved) + 1
      BY SectionTypes DEF Resolving
    <3>2. at <= Len(Entries)
      BY <1>2 DEF ResolveEntry
    <3> QED BY <1>0, <3>1, <3>2
  <2>2. Entries[at] \in ProfileSections /\ cfg.global \in GlobalSections
    BY <2>1, EntryTypes, SectionTypes DEF Resolving
  <2>3. /\ Resolution(at).subnet = Entries[at].subnet /\ Whole(Resolution(at))
        /\ Entries[at].subnet \in Names /\ Resolution(at) \in Resolutions
    <3>1. Resolution(at).subnet = Entries[at].subnet /\ Whole(Resolution(at))
      BY <2>2, ResolutionTypes DEF Resolution
    <3>2. Entries[at].subnet \in Names
      BY <2>2 DEF ProfileSections
    <3>3. at \in Nat
      BY <2>1
    <3> QED BY <3>1, <3>2, <3>3 DEF Resolutions
  <2>4. CASE pc' = "refused" /\ UNCHANGED <<seen, resolved, options, current>>
    BY <2>4 DEF Resolved, SubnetsDistinct
  <2>5. CASE /\ Entries[at].subnet # "" /\ Entries[at].subnet \notin seen
             /\ seen' = seen \cup {Entries[at].subnet}
             /\ resolved' = Append(resolved, Resolution(at))
             /\ UNCHANGED <<pc, options, current>>
    <3>1. resolved \in Seq(Resolutions)
      BY DEF Resolving
    <3> HIDE DEF Resolution
    <3> QED BY <2>3, <2>5, <3>1, ResolvedGrows
  <2> QED BY <1>2, <2>4, <2>5 DEF ResolveEntry, Refuse, ListedTwice, Resolution
<1>3. CASE Built
  <2>1. /\ pc' = "built" /\ UNCHANGED <<seen, resolved, current>> /\ pc # "built"
        /\ options' = [i \in 1..Len(resolved) |-> None]
    BY <1>3 DEF Built
  <2>2. options = <<>> /\ current \in 0..Len(options)
    BY <2>1 DEF Resolving, Resolved
  <2>3. current = 0
    BY <2>2
  <2>4. Len(options') \in Nat
    BY <1>0, <2>1
  <2>5. current' \in 0..Len(options')
    BY <2>1, <2>3, <2>4
  <2> QED BY <2>1, <2>5 DEF Resolved, SubnetsDistinct
<1>4. ASSUME NEW i \in 1..Len(options), Scan(i) PROVE Resolved'
  <2>1. Len(options') = Len(options) /\ current' = i /\ UNCHANGED <<pc, seen, resolved>>
    BY <1>4, ScanGives
  <2>2. current' \in 0..Len(options')
    BY <1>0, <2>1
  <2> QED BY <2>1, <2>2 DEF Resolved, SubnetsDistinct
<1>5. CASE Walk \/ LoadConfig \/ Sweep \/ EndSweep \/ UNCHANGED vars
  <2>1. UNCHANGED <<pc, seen, resolved, options, current>>
    BY <1>5 DEF Walk, LoadConfig, Sweep, EndSweep, UnchangedOutside, profileVars, vars
  <2> QED BY <2>1, ResolvedStays
<1> QED BY <1>1, <1>2, <1>3, <1>4, <1>5 DEF Next, RunAgent, ProfilesNext

(* Whatever the file says: no two profiles that are scanned have the same  *)
(* subnet, which is named in the file, their switches are on or off and    *)
(* their durations set, by themselves or by the global section, no list is *)
(* one that nobody wrote, and the scans go by profiles there are.          *)
THEOREM ProfilesTypeCorrect == Spec => [](ProfilesTypeOK /\ SubnetsDistinct)
<1>1. Init => Resolved
  <2> SUFFICES ASSUME Init PROVE Resolved
    OBVIOUS
  <2>1. pc = "resolve" /\ seen = {} /\ resolved = <<>> /\ options = <<>> /\ current = 0
    BY DEF Init, ProfilesInit
  <2>2. Len(resolved) = 0 /\ Len(options) = 0
    BY <2>1, EmptySeq
  <2> QED BY <2>1, <2>2 DEF Resolved, SubnetsDistinct
<1>2. Resolving /\ Resolved /\ WalkTypeOK => ProfilesTypeOK /\ SubnetsDistinct
  <2> SUFFICES ASSUME Resolving, Resolved, WalkTypeOK PROVE ProfilesTypeOK /\ SubnetsDistinct
    OBVIOUS
  <2>1. Len(Entries) \in Nat /\ Len(resolved) \in Nat
    BY SectionTypes DEF Resolving
  <2>2. at \in 1..(Len(Entries) + 1)
    BY <2>1 DEF Resolving
  <2>3. Len(options) \in {0, Len(resolved)}
    BY EmptySeq DEF Resolving
  <2> QED BY <2>2, <2>3 DEF Resolved, Whole, ProfilesTypeOK
<1>3. Spec => [](Resolving /\ Probing)
  BY InitResolving, NextResolving, PTL DEF Spec
<1>4. Resolving /\ Resolved /\ [Next]_vars => Resolved'
  BY ResolvedStep
<1> QED BY <1>1, <1>2, <1>3, <1>4, EveryHost, PTL DEF Spec
=============================================================================
