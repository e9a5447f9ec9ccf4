--------------------------- MODULE ServiceRegistry ---------------------------
(***************************************************************************)
(* The registry of launchd services (john_lomein_service_registry.py) and  *)
(* the scripts that install and remove them under its lifecycle lock       *)
(* (install-runtime-supervisor.sh, install-guide-gateway.sh,               *)
(* uninstall-runtime-supervisor.sh).                                       *)
(*                                                                         *)
(* A label is a kind of service and the slug of an instance; what launchd  *)
(* knows of it is the identity in its plist and the identity of the loaded *)
(* service: the runtime home and the command it runs.                      *)
(***************************************************************************)
EXTENDS Integers, FiniteSets

CONSTANTS
  Instances,     \* manifests, the keys of the registry, numbered from 1
  Kinds,         \* of services, "scheduler" and "guide" among them
  Nothing,
  MaxScripts,    \* runs of the scripts
  MaxFaults,     \* kills, restarts and failing launchctl calls
  MaxTouches     \* changes by hand: a manifest edited, a service removed or restored

RegistryConstants ==
  /\ Instances \subseteq Nat \ {0} /\ IsFiniteSet(Instances)
  /\ "scheduler" \in Kinds /\ Nothing \notin Instances
  /\ {MaxScripts, MaxFaults, MaxTouches} \subseteq Nat

\* Every instance begins with a slug and a runtime home of its own.
Slugs == Instances
Homes == Instances

Labels == Kinds \X Slugs
KindOf(l) == l[1]

VARIABLES
  conf,       \* the slug and the home each manifest asks for
  registry,   \* each instance's entry: its home and its labels
  plist,      \* the identity each plist names, Nothing if there is none
  loaded,     \* the identity of each loaded service
  lock,       \* the instance whose script holds the lifecycle lock, 0 if none
  job,        \* each instance's script
  restored,   \* labels a user put back by hand
  count       \* scripts, faults and touches so far

registryVars == <<conf, registry, plist, loaded, lock, job, restored, count>>

NoEntry == [home |-> Nothing, labels |-> {}]
Idle == [pc |-> "idle", kinds |-> {}, after |-> "none", home |-> Nothing, slug |-> Nothing,
         todo |-> {}, stopped |-> {}]
\* A plist that was cut short while it was written.
Torn == [home |-> Nothing, command |-> "unreadable"]

RegistryInit ==
  /\ conf = [i \in Instances |-> [slug |-> i, home |-> i]]
  /\ registry = [i \in Instances |-> NoEntry]
  /\ plist = [l \in Labels |-> Nothing] /\ loaded = [l \in Labels |-> Nothing]
  /\ lock = 0
  /\ job = [i \in Instances |-> Idle]
  /\ restored = {}
  /\ count = [scripts |-> 0, faults |-> 0, touches |-> 0]

Tally(what, max) == count[what] < max /\ count' = [count EXCEPT ![what] = @ + 1]
Failing == Tally("faults", MaxFaults)
ToStep(i, pc) == job' = [job EXCEPT ![i].pc = pc]

-----------------------------------------------------------------------------
(* What is observed *)

Seen(l) == {x \in {plist[l], loaded[l]} : x # Nothing}
Exists(l) == Seen(l) # {}

\* _consistent_observed_runtime: plist and loaded service agree on home and
\* command.
HomeOf(l) ==
  IF Cardinality(Seen(l)) = 1 THEN (CHOOSE x \in Seen(l) : TRUE).home ELSE Nothing

\* label_owners
Owners(l) == {i \in Instances : l \in registry[i].labels}

\* discover_runtime_labels
Discovered(h) == {l \in Labels : Exists(l) /\ HomeOf(l) = h}

\* _observation_uses_model_isolation, _observation_uses_scheduler_controller
Isolated(l) == \A x \in Seen(l) : x.command = "isolated"

\* _preflight_stop_label, and what _assert_unregistered_label_belongs_to_runtime
\* asks of a label nobody owns.
Stoppable(l, h) == Cardinality(Seen(l)) <= 1 /\ \A x \in Seen(l) : x.home = h

\* Mutant: nobody is waited for.
AcquireAtOnce(i) == lock' = i

\* lifecycle_lock; a script that waited too long gives up, and nothing happened.
Acquire(i) == lock = 0 /\ lock' = i

\* A script ends, and its descriptor of the lock is closed.
End(i) ==
  /\ job' = [job EXCEPT ![i] = Idle]
  /\ lock' = IF lock = i THEN 0 ELSE lock

-----------------------------------------------------------------------------
(* The scripts *)

\* run-locked and assert-locked; an install is of one kind, an uninstall of all.
Begin(i, after, kinds) ==
  /\ job[i] = Idle /\ Acquire(i)
  /\ Tally("scripts", MaxScripts)
  /\ job' = [job EXCEPT ![i] = [Idle EXCEPT !.pc = "stop", !.kinds = kinds, !.after = after,
                                            !.home = conf[i].home, !.slug = conf[i].slug]]
  /\ UNCHANGED <<conf, registry, plist, loaded, restored>>

Candidates(i) ==
  {l \in Labels : /\ KindOf(l) \in job[i].kinds
                  /\ l \in registry[i].labels \/ l[2] = job[i].slug \/ l \in Discovered(job[i].home)}

\* expected_runtime
Expected(i, l) == IF l \in registry[i].labels THEN registry[i].home ELSE job[i].home

\* The first half of _stop_services_unlocked: nothing is touched unless every
\* candidate may be.
StopPlan(i) ==
  /\ job[i].pc = "stop"
  /\ \A l \in Candidates(i) : Owners(l) \subseteq {i} /\ Stoppable(l, Expected(i, l))
  /\ job' = [job EXCEPT ![i].pc = "bootout", ![i].todo = Candidates(i), ![i].stopped = {}]
  /\ UNCHANGED <<conf, registry, plist, loaded, lock, restored, count>>

StopRefused(i) ==
  /\ job[i].pc = "stop"
  /\ \E l \in Candidates(i) : ~ (Owners(l) \subseteq {i} /\ Stoppable(l, Expected(i, l)))
  /\ End(i)
  /\ UNCHANGED <<conf, registry, plist, loaded, restored, count>>

\* _stop_label: the service is gone before its plist is.
Bootout(i, l) ==
  /\ job[i].pc = "bootout" /\ l \in job[i].todo
  /\ Stoppable(l, Expected(i, l)) /\ loaded[l] # Nothing
  /\ loaded' = [loaded EXCEPT ![l] = Nothing]
  /\ UNCHANGED <<conf, registry, plist, lock, job, restored, count>>

Unlink(i, l) ==
  /\ job[i].pc = "bootout" /\ l \in job[i].todo
  /\ Stoppable(l, Expected(i, l)) /\ loaded[l] = Nothing
  /\ plist' = [plist EXCEPT ![l] = Nothing]
  /\ job' = [job EXCEPT ![i].todo = @ \ {l}, ![i].stopped = @ \cup {l}]
  /\ UNCHANGED <<conf, registry, loaded, lock, restored, count>>

\* _write_or_remove_registry
Entry(i, labels) == IF labels = {} THEN NoEntry ELSE [home |-> registry[i].home, labels |-> labels]

\* A service stays loaded or is no longer the one that was planned: what was
\* stopped so far is struck from the registry, and the script fails.
StopFails(i) ==
  /\ job[i].pc = "bootout" /\ job[i].todo # {}
  /\ \/ Failing
     \/ (\E l \in job[i].todo : ~ Stoppable(l, Expected(i, l))) /\ UNCHANGED count
  /\ registry' = [registry EXCEPT ![i] = Entry(i, @.labels \ job[i].stopped)]
  /\ End(i)
  /\ UNCHANGED <<conf, plist, loaded, restored>>

\* Mutant: a service is struck from the registry before it is stopped.
StopEndsEarly(i) ==
  /\ job[i].pc = "bootout"
  /\ registry' = [registry EXCEPT ![i] = Entry(i, {l \in @.labels : KindOf(l) \notin job[i].kinds})]
  /\ ToStep(i, IF job[i].after = "install" THEN "write" ELSE "done")
  /\ UNCHANGED <<conf, plist, loaded, lock, restored, count>>

StopEnds(i) ==
  /\ job[i].pc = "bootout" /\ job[i].todo = {}
  /\ registry' = [registry EXCEPT ![i] = Entry(i, {l \in @.labels : KindOf(l) \notin job[i].kinds})]
  /\ ToStep(i, IF job[i].after = "install" THEN "write" ELSE "done")
  /\ UNCHANGED <<conf, plist, loaded, lock, restored, count>>

Target(i) == <<CHOOSE k \in job[i].kinds : TRUE, job[i].slug>>

\* write_plist writes the scheduler's plist in place; the guide's replaces it.
WritePlist(i) ==
  /\ job[i].pc \in {"write", "writing"}
  /\ IF KindOf(Target(i)) = "scheduler" /\ job[i].pc = "write"
     THEN /\ plist' = [plist EXCEPT ![Target(i)] = Torn]
          /\ ToStep(i, "writing")
     ELSE /\ plist' = [plist EXCEPT ![Target(i)] = [home |-> job[i].home, command |-> "isolated"]]
          /\ ToStep(i, "bootstrap")
  /\ UNCHANGED <<conf, registry, loaded, lock, restored, count>>

\* bootstrap_label; a failure is rolled back by another stop.
Bootstrap(i) ==
  /\ job[i].pc = "bootstrap"
  /\ \/ /\ plist[Target(i)] # Nothing
        /\ loaded' = [loaded EXCEPT ![Target(i)] = plist[Target(i)]]
        /\ ToStep(i, "record")
        /\ UNCHANGED count
     \/ /\ plist[Target(i)] # Nothing => Failing
        /\ plist[Target(i)] = Nothing => UNCHANGED count
        /\ job' = [job EXCEPT ![i].pc = "stop", ![i].after = "rollback"]
        /\ UNCHANGED loaded
  /\ UNCHANGED <<conf, registry, plist, lock, restored>>

\* The checks of _record_services_unlocked.
Recordable(i, l) ==
  /\ Owners(l) \subseteq {i}
  /\ \A p \in registry[i].labels : KindOf(p) = KindOf(l) /\ p # l => ~ Exists(p)
  /\ \A u \in Labels : Exists(u) /\ Owners(u) = {} => u = l
  /\ Exists(l) /\ HomeOf(l) = job[i].home /\ Isolated(l)
  /\ registry[i] # NoEntry /\ registry[i].home # job[i].home =>
       \A p \in registry[i].labels : KindOf(p) = KindOf(l)

Record(i) ==
  /\ job[i].pc = "record"
  /\ LET l == Target(i) IN
     IF Recordable(i, l)
     THEN /\ registry' = [registry EXCEPT ![i] =
               [home |-> job[i].home,
                labels |-> {p \in @.labels : KindOf(p) # KindOf(l)} \cup {l}]]
          /\ ToStep(i, "done")
     ELSE /\ job' = [job EXCEPT ![i].pc = "stop", ![i].after = "rollback"]
          /\ UNCHANGED registry
  /\ UNCHANGED <<conf, plist, loaded, lock, restored, count>>

Done(i) ==
  /\ job[i].pc = "done"
  /\ End(i)
  /\ UNCHANGED <<conf, registry, plist, loaded, restored, count>>

\* adopt_services: everything that points at the home must be its own.
Pointing(h) == {l \in Labels : \E x \in Seen(l) : x.home = h}

Adopt(i) ==
  LET h == conf[i].home  C == Pointing(h) IN
  /\ job[i] = Idle /\ lock = 0
  /\ registry[i] # NoEntry =>
       registry[i].home = h /\ \A l \in registry[i].labels : Exists(l) /\ HomeOf(l) = h
  /\ C # {}
  /\ \A l \in C : HomeOf(l) = h /\ Owners(l) \subseteq {i}
  /\ \A l, m \in C : KindOf(l) = KindOf(m) => l = m
  /\ registry' = [registry EXCEPT ![i] =
       [home |-> h,
        labels |-> {p \in @.labels : \A l \in C : KindOf(l) # KindOf(p)} \cup C]]
  /\ UNCHANGED <<conf, plist, loaded, lock, job, restored, count>>

-----------------------------------------------------------------------------
(* The rest of the world *)

\* External: a script is killed, or the machine restarts, which ends every
\* script and loads the plists that can be read.
Kill(i) ==
  /\ job[i] # Idle /\ Failing
  /\ End(i)
  /\ UNCHANGED <<conf, registry, plist, loaded, restored>>

Restart ==
  /\ Failing
  /\ job' = [i \in Instances |-> Idle] /\ lock' = 0
  /\ loaded' = [l \in Labels |-> IF plist[l] = Torn THEN Nothing ELSE plist[l]]
  /\ UNCHANGED <<conf, registry, plist, restored>>

\* External: the owner edits a manifest, unloads a service, deletes a plist
\* or puts an old one back, at any time.
Touch ==
  /\ Tally("touches", MaxTouches)
  /\ \/ /\ \E i \in Instances, s \in Slugs, h \in Homes : conf' = [conf EXCEPT ![i] = [slug |-> s, home |-> h]]
        /\ UNCHANGED <<plist, loaded, restored>>
     \/ /\ \E l \in Labels : loaded[l] # Nothing /\ loaded' = [loaded EXCEPT ![l] = Nothing]
        /\ UNCHANGED <<conf, plist, restored>>
     \/ /\ \E l \in Labels : plist[l] # Nothing /\ plist' = [plist EXCEPT ![l] = Nothing]
        /\ UNCHANGED <<conf, loaded, restored>>
     \/ /\ \E l \in Labels, h \in Homes, c \in {"isolated", "plain"} :
             /\ plist' = [plist EXCEPT ![l] = [home |-> h, command |-> c]]
             /\ restored' = restored \cup {l}
        /\ UNCHANGED <<conf, loaded>>
  /\ UNCHANGED <<registry, lock, job>>

RegistryNext ==
  \/ \E i \in Instances :
       \/ \E k \in Kinds : Begin(i, "install", {k})
       \/ Begin(i, "uninstall", Kinds)
       \/ StopPlan(i) \/ StopRefused(i) \/ StopFails(i) \/ StopEnds(i)
       \/ \E l \in Labels : Bootout(i, l) \/ Unlink(i, l)
       \/ WritePlist(i) \/ Bootstrap(i) \/ Record(i) \/ Done(i) \/ Adopt(i) \/ Kill(i)
  \/ Restart \/ Touch

RegistrySpec == RegistryInit /\ [][RegistryNext]_registryVars

-----------------------------------------------------------------------------
(* Properties *)

\* The entries, identities and locks have their kinds.
RegistryTypeOK ==
  /\ \A i \in Instances :
       /\ registry[i].labels \subseteq Labels /\ registry[i].home \in Homes \cup {Nothing}
       /\ \A l, m \in registry[i].labels : KindOf(l) = KindOf(m) => l = m
       /\ job[i] # Idle => lock = i
  /\ restored \subseteq Labels

\* "A label may be owned by only one registered instance", although manifests
\* change their slugs and scripts of two instances run at any time.
OneOwner == \A l \in Labels : Cardinality(Owners(l)) <= 1

\* A script never has in hand a service that another instance has registered
\* (the check is made once, before the first service is stopped).
NeverForeign ==
  \A i \in Instances : job[i].pc = "bootout" => \A l \in job[i].todo : Owners(l) \subseteq {i}

\* Whatever was interrupted, a registered service that was not put back by
\* hand runs the home it is registered for.
RegisteredTrue ==
  \A i \in Instances : \A l \in registry[i].labels \ restored : \A x \in Seen(l) :
    x = Torn \/ x.home = registry[i].home

\* A successful uninstall leaves nothing of the home, registered or not, but
\* what a user put back.
UninstalledGone ==
  \A i \in Instances :
    job[i].pc = "done" /\ job[i].after = "uninstall" =>
      registry[i] = NoEntry /\ Discovered(job[i].home) \subseteq restored

\* What the registry promises, all together.
RegistrySafe == RegistryTypeOK /\ OneOwner /\ NeverForeign /\ RegisteredTrue /\ UninstalledGone

\* A label is struck from the registry only once its service is unloaded and
\* its plist is gone, unless a user put it back (_stop_services_unlocked, also
\* when it fails half way).
StruckGoneStep ==
  \A i \in Instances : \A l \in registry[i].labels \ registry'[i].labels :
    l \in restored \/ ~ Exists(l)

=============================================================================
