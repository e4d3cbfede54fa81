--------------------------- MODULE SfePostRouting ---------------------------
(***************************************************************************)
(* The device references of sfe_cm_post_routing, which is SfeCm's actions  *)
(* PostRouting and CreateRule seen from inside: calls on several           *)
(* processors find the devices of a flow, replace bridge ports by their    *)
(* bridge, create the rule, and put what they hold, or jump to done1,      *)
(* done2 or done3 when something is missing.  Meanwhile ports join and     *)
(* leave bridges.                                                          *)
(***************************************************************************)
EXTENDS Integers, FiniteSets, Functions

CONSTANTS
  Calls,     \* calls of sfe_cm_post_routing under way at a time
  Ports,     \* devices that can be ports of a bridge
  Bridges,   \* bridges; a bridge is never a port
  Plain,     \* devices that are neither
  MaxRules,  \* bound: rules of the engine
  MaxDrift,  \* bound: no call starts once a count is further from zero, since
             \* the counts of ports and bridges drift
  NoDevice

Devices == Ports \cup Bridges \cup Plain

ASSUME PostRoutingAssumption ==
  /\ IsFiniteSet(Devices) /\ IsFiniteSet(Calls)
  /\ Ports \cap Bridges = {} /\ Plain \cap (Ports \cup Bridges) = {}
  /\ NoDevice \notin Devices
  /\ MaxRules \in Nat /\ MaxDrift \in Nat

VARIABLES
  refs,      \* reference counts, of this module and the engine together
  master,    \* the bridge of each port, NoDevice while it has none
  rules,     \* how many rules the engine has from each source and destination
  call       \* the locals of each call, and where it is

postVars == <<refs, master, rules, call>>

Idle == [at |-> "idle", src |-> NoDevice, dev |-> NoDevice, dest |-> NoDevice,
         srcBr |-> NoDevice, destBr |-> NoDevice]

Hold(counts, d) == [counts EXCEPT ![d] = @ + 1]
Put(counts, d) == [counts EXCEPT ![d] = @ - 1]

-----------------------------------------------------------------------------
(* sfe_cm_find_dev_and_mac_addr, for the four addresses of a flow *)

\* It finds the device that leads to an address, holds it, and keeps it.
Find(t, at, var, d, next) ==
  /\ call[t].at = at
  /\ refs' = Hold(refs, d)
  /\ call' = [call EXCEPT ![t][var] = d, ![t].at = next]
  /\ UNCHANGED <<master, rules>>

FindSource(t, d) ==
  /\ \A x \in Devices : refs[x] \in -MaxDrift .. MaxDrift
  /\ Find(t, "idle", "src", d, "srcXlate")

\* It finds no route, no neighbour, or one that is not valid.
FindFails(t, at, next) ==
  /\ call[t].at = at
  /\ call' = [call EXCEPT ![t].at = next]
  /\ UNCHANGED <<refs, master, rules>>

\* Devices of the second and third address are put at once.
PutDev(t, at, next) ==
  /\ call[t].at = at
  /\ refs' = Put(refs, call[t].dev)
  /\ call' = [call EXCEPT ![t].dev = NoDevice, ![t].at = next]
  /\ UNCHANGED <<master, rules>>

FindDevices(t) ==
  \/ \E d \in Devices :
       \/ FindSource(t, d)
       \/ Find(t, "srcXlate", "dev", d, "putSrcXlate")
       \/ Find(t, "findDest", "dev", d, "putDest")
       \/ Find(t, "destXlate", "dest", d, "srcPort")
  \/ PutDev(t, "putSrcXlate", "findDest")
  \/ PutDev(t, "putDest", "destXlate")
  \/ FindFails(t, "srcXlate", "done1")
  \/ FindFails(t, "findDest", "done1")
  \/ FindFails(t, "destXlate", "done1")

-----------------------------------------------------------------------------
(* Bridge ports.  IFF_BRIDGE_PORT is read first, the master later. *)

IsPort(d) == d \in Ports /\ master[d] # NoDevice

PortCheck(t, at, var, getMaster, next) ==
  /\ call[t].at = at
  /\ call' = [call EXCEPT ![t].at = IF IsPort(call[t][var]) THEN getMaster ELSE next]
  /\ UNCHANGED <<refs, master, rules>>

\* sfe_dev_get_master holds the bridge, which then takes the place of the port
GetMaster(t, at, var, br, next, fail) ==
  /\ call[t].at = at
  /\ LET above == master[call[t][var]] IN
       IF above = NoDevice
       THEN call' = [call EXCEPT ![t].at = fail] /\ UNCHANGED refs
       ELSE /\ refs' = Hold(refs, above)
            /\ call' = [call EXCEPT ![t][var] = above, ![t][br] = above, ![t].at = next]
  /\ UNCHANGED <<master, rules>>

\* When the destination has no bridge, that of the source is not put.
FindBridges_SkipsDone3(t) ==
  \/ PortCheck(t, "srcPort", "src", "srcMaster", "destPort")
  \/ GetMaster(t, "srcMaster", "src", "srcBr", "destPort", "done2")
  \/ PortCheck(t, "destPort", "dest", "destMaster", "create")
  \/ GetMaster(t, "destMaster", "dest", "destBr", "create", "done2")

FindBridges(t) ==
  \/ PortCheck(t, "srcPort", "src", "srcMaster", "destPort")
  \/ GetMaster(t, "srcMaster", "src", "srcBr", "destPort", "done2")
  \/ PortCheck(t, "destPort", "dest", "destMaster", "create")
  \/ GetMaster(t, "destMaster", "dest", "destBr", "create", "done3")

-----------------------------------------------------------------------------
(* The rule, and the way out *)

\* the engine holds the two devices of a rule that it inserts
CallCreates(t) ==
  /\ call[t].at = "create"
  /\ SumFunction(rules) < MaxRules
  /\ rules' = [rules EXCEPT ![<<call[t].src, call[t].dest>>] = @ + 1]
  /\ refs' = Hold(Hold(refs, call[t].src), call[t].dest)
  /\ call' = [call EXCEPT ![t].at = "release"]
  /\ UNCHANGED master

CallCreateFails(t) ==
  /\ call[t].at = "create"
  /\ call' = [call EXCEPT ![t].at = "release"]
  /\ UNCHANGED <<refs, master, rules>>

\* the engine flushes a connection
RuleEnds(s, d) ==
  /\ rules[<<s, d>>] > 0
  /\ rules' = [rules EXCEPT ![<<s, d>>] = @ - 1]
  /\ refs' = Put(Put(refs, s), d)
  /\ UNCHANGED <<master, call>>

PutBridge(t, at, br, next) ==
  /\ call[t].at = at
  /\ refs' = IF call[t][br] = NoDevice THEN refs ELSE Put(refs, call[t][br])
  /\ call' = [call EXCEPT ![t].at = next]
  /\ UNCHANGED <<master, rules>>

PutDestination(t) ==
  /\ call[t].at = "done2"
  /\ refs' = Put(refs, call[t].dest)
  /\ call' = [call EXCEPT ![t].at = "done1"]
  /\ UNCHANGED <<master, rules>>

PutSource(t) ==
  /\ call[t].at = "done1"
  /\ refs' = Put(refs, call[t].src)
  /\ call' = [call EXCEPT ![t] = Idle]
  /\ UNCHANGED <<master, rules>>

Finish(t) ==
  \/ PutBridge(t, "release", "destBr", "done3")
  \/ PutBridge(t, "done3", "srcBr", "done2")
  \/ PutDestination(t)
  \/ PutSource(t)

-----------------------------------------------------------------------------
\* a port joins a bridge, or leaves it (the kernel's, under RTNL)
Enslave(p, b) ==
  /\ master[p] # b
  /\ b = NoDevice \/ master[p] = NoDevice
  /\ master' = [master EXCEPT ![p] = b]
  /\ UNCHANGED <<refs, rules, call>>

PostInit ==
  /\ refs = [d \in Devices |-> 0]
  /\ master \in [Ports -> Bridges \cup {NoDevice}]
  /\ rules = [sd \in Devices \X Devices |-> 0]
  /\ call = [t \in Calls |-> Idle]

PostNext ==
  \/ \E t \in Calls :
       FindDevices(t) \/ FindBridges(t) \/ CallCreates(t) \/ CallCreateFails(t) \/ Finish(t)
  \/ \E s, d \in Devices : RuleEnds(s, d)
  \/ \E p \in Ports, b \in Bridges \cup {NoDevice} : Enslave(p, b)

PostSpec == PostInit /\ [][PostNext]_postVars

-----------------------------------------------------------------------------
Quiet == \A t \in Calls : call[t].at = "idle"

\* The rules that use a device, as source and as destination.
Uses(d) == SumFunctionOnSet(rules, {sd \in Devices \X Devices : sd[1] = d})
           + SumFunctionOnSet(rules, {sd \in Devices \X Devices : sd[2] = d})

\* what is left of all references is two for each rule
PutsBalance ==
  Quiet => SumFunction(refs) = 2 * SumFunction(rules)

\* a device that has nothing to do with bridges has the references of its rules
PlainDevicesExact ==
  Quiet => \A d \in Plain : refs[d] = Uses(d)

\* ReferencesBalance: whichever way the calls went, also through done1, done2 and
\* done3, they put as many references as they took, and no device that is not a
\* bridge or its port is freed under a rule or kept for ever (sfe_cm_post_routing).
ReferencesBalance == PutsBalance /\ PlainDevicesExact

\* The same for all devices: bridge ports that were found are released too.
PortsReleasedToo ==
  Quiet => \A d \in Devices : refs[d] = Uses(d)
=============================================================================
