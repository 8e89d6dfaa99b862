--------------------------- MODULE NodeAgentProofs ---------------------------
(***************************************************************************)
(* Proofs about the device plugin of a node, for every number of pods,     *)
(* boards, orins and handlers, however many calls and writes fail, are     *)
(* given up or are cut off by a crash.                                     *)
(*                                                                         *)
(* PreStartContainer is told devices and has to find out for whom.  That   *)
(* it finds the right pod hangs on four things, each a hypothesis of the   *)
(* theorems that need it: a request has one device (Count = 1), a handler  *)
(* that the kubelet has given up is not overtaken (Prompt), no two pods    *)
(* have one name, and the report of a board names only orins of it.        *)
(***************************************************************************)
EXTENDS NodeAgent, FiniteSetTheorems, TLAPS

(***************************************************************************)
(* What every implementation of Placement has.                             *)
(***************************************************************************)
PlacementTypeOK ==
  /\ placed \in [Pod -> (Node \X Board) \cup {NoPlace}]
  /\ ended \subseteq Pod

Apart ==
  \A n \in Node, b \in Board : \A p, q \in Holders(n, b) : p # q => Req[p] \cap Req[q] = {}

(***************************************************************************)
(* A placement leaves the holders of every other board alone.              *)
(***************************************************************************)
LEMMA PlaceKeepsApart ==
  ASSUME PlacementTypeOK, Apart,
         NEW p \in Pod, NEW n \in Node, NEW b \in Board, Place(p, n, b)
  PROVE  PlacementTypeOK' /\ Apart'
<1> USE DEF PlacementTypeOK, Place
<1>1. PlacementTypeOK'
  OBVIOUS
<1>2. Apart'
  <2> SUFFICES ASSUME NEW m \in Node, NEW c \in Board,
                      NEW q \in Holders(m, c)', NEW r \in Holders(m, c)', q # r
               PROVE  Req[q] \cap Req[r] = {}
    BY DEF Apart
  <2>1. \A s \in Pod : s # p => (s \in Holders(m, c)' <=> s \in Holders(m, c))
    BY DEF Holders
  <2>2. CASE q # p /\ r # p
    BY <2>1, <2>2 DEF Apart, Holders
  <2>3. CASE q = p
    <3>1. m = n /\ c = b
      BY <2>3 DEF Holders
    <3> QED
      BY <2>1, <2>3, <3>1 DEF Holders
  <2>4. CASE r = p
    <3>1. m = n /\ c = b
      BY <2>4 DEF Holders
    <3> QED
      BY <2>1, <2>4, <3>1 DEF Holders
  <2> QED
    BY <2>2, <2>3, <2>4
<1> QED
  BY <1>1, <1>2

(***************************************************************************)
(* An ended pod is no holder any more; nobody becomes one.                 *)
(***************************************************************************)
LEMMA EndKeepsApart ==
  ASSUME PlacementTypeOK, Apart, NEW p \in Pod, End(p)
  PROVE  PlacementTypeOK' /\ Apart'
<1>1. \A n, b : Holders(n, b)' \subseteq Holders(n, b)
  BY DEF End, Holders
<1>2. Apart'
  BY <1>1 DEF Apart
<1> QED
  BY <1>2 DEF PlacementTypeOK, End

(***************************************************************************)
(* Live pods of one board have no orin in common: what the guard of Place  *)
(* comes to, used for the agent below.  That Bind places like this         *)
(* (manager.go:156-178) is BindPlacementProofs' part.                      *)
(***************************************************************************)
LEMMA PlacementKeepsApart == PlacementSpec => [](PlacementTypeOK /\ Apart)
<1>1. PlacementInit => PlacementTypeOK /\ Apart
  <2> SUFFICES ASSUME PlacementInit PROVE PlacementTypeOK /\ Apart
    OBVIOUS
  <2>1. \A n \in Node, b \in Board : Holders(n, b) = {}
    BY NoPlaceAssumption DEF PlacementInit, Holders
  <2> QED
    BY <2>1 DEF PlacementInit, PlacementTypeOK, Apart
<1>2. PlacementTypeOK /\ Apart /\ [PlacementNext]_placementVars => PlacementTypeOK' /\ Apart'
  <2> SUFFICES ASSUME PlacementTypeOK, Apart, [PlacementNext]_placementVars
               PROVE  PlacementTypeOK' /\ Apart'
    OBVIOUS
  <2>1. CASE PlacementNext
    BY <2>1, PlaceKeepsApart, EndKeepsApart DEF PlacementNext
  <2>2. CASE UNCHANGED placementVars
    BY <2>2 DEF placementVars, PlacementTypeOK, Apart, Holders
  <2> QED
    BY <2>1, <2>2
<1> QED
  BY <1>1, <1>2, PTL DEF PlacementSpec

-----------------------------------------------------------------------------

NamesUnique == \A p, q \in Pod : NameOf[p] = NameOf[q] => p = q

\* What MCAlgorithms checks of the report (ReportNeverInvents).
ReportInventsNothing ==
  \A beyond \in Beyond :
    LET total == TotalOf(patchNodeExtraResource(Config, beyond)) IN
    \A b \in DOMAIN total : total[b] \subseteq GetBoardOrins(Config, b)

\* Every orin of the file has attributes, and no two orins the same.
AttrsAreThere ==
  \A b \in Board : \A o \in GetBoardOrins(Config, b) : GetOrinAttrs(Config, b, o) # NoAttr
AttrsDiffer ==
  \A b, c \in Board : \A o \in GetBoardOrins(Config, b), r \in GetBoardOrins(Config, c) :
    GetOrinAttrs(Config, b, o) = GetOrinAttrs(Config, c, r) => b = c /\ o = r

-----------------------------------------------------------------------------
Assignments(S) == UNION {[D -> S] : D \in SUBSET Class}

KubeletPods ==
  [st : {"none", "starting", "running", "stopped"}, devices : Assignments(SUBSET Board),
   mount : Assignments(Board), todo : SUBSET Class]

AttrsOrNone == {Attrs[b][o] : b \in Board, o \in Class} \cup {NoAttr}

Calls ==
  [pc : {"idle", "locate", "getpod", "populate"}, pod : Pod \cup {NoPod},
   class : Class \cup {0}, devices : SUBSET Board, first : Board \cup {NoBoard},
   located : Pod \cup {NoPod}, attrs : AttrsOrNone]

TypeInv ==
  /\ PlacementTypeOK
  /\ removed \subseteq ended /\ bare \subseteq {p \in Pod : placed[p] = NoPlace}
  /\ capacity = [b \in {} |-> 0] \/ \E beyond \in Beyond : capacity = patchNodeExtraResource(Config, beyond)
  /\ up \in BOOLEAN
  /\ lister \in [Name -> Pod \cup {NoPod}]
  /\ \A n \in Name : lister[n] # NoPod => NameOf[lister[n]] = n
  /\ err \subseteq Class
  /\ call \in [Call -> Calls]
  /\ kubelet \in [Pod -> KubeletPods]
  /\ DOMAIN file \subseteq Class \X Board

\* The scheduler places a pod only where its orins are.
PlacedInv ==
  \A p \in Pod :
    /\ OnNode(p) => Req[p] \subseteq Class
    /\ placed[p] # NoPlace /\ ReportInventsNothing
         => Req[p] \subseteq GetBoardOrins(Config, placed[p][2])

Active(p) == kubelet[p].st \in {"starting", "running"}
Busy(t) == call[t].pc # "idle"

\* What the kubelet has given a pod.
PodOK(p, k) ==
  /\ \A o \in DOMAIN k.devices :
       /\ o \in Req[p] /\ o \in DOMAIN k.mount
       /\ k.devices[o] \subseteq Offered[o] /\ k.mount[o] \in k.devices[o]
  /\ k.todo \subseteq Req[p]
  /\ DOMAIN k.devices # {} \/ k.st \in {"starting", "running"} => OnNode(p)
  /\ k.st \in {"starting", "running"} => DOMAIN k.devices = Req[p]
  /\ k.st = "running" => k.todo = {}

PodInv == \A p \in Pod : PodOK(p, kubelet[p])

\* What a handler knows: the pod it was called for, unless it has been given
\* up, and later the pod it has located and its board.
CallOK(c) ==
  /\ c.pc # "idle" => c.class \in Class /\ c.first \in c.devices
  /\ c.pod # NoPod =>
       /\ c.pc # "idle" /\ Is(c.pod, "starting") /\ c.class \in Req[c.pod]
       /\ kubelet[c.pod].devices[c.class] = c.devices
  /\ c.pc \in {"getpod", "populate"} =>
       c.located \in Pod /\ c.class \in Req[c.located] /\ OnNode(c.located)
  /\ c.pc = "populate" /\ NamesUnique =>
       BoardOf(c.located) \in Board /\ c.attrs = Attrs[BoardOf(c.located)][c.class]

CallInv ==
  /\ \A t \in Call : CallOK(call[t])
  /\ \A t, u \in Call : call[t].pod = call[u].pod /\ call[t].pod # NoPod => t = u

AInv == TypeInv /\ PlacedInv /\ PodInv /\ CallInv

-----------------------------------------------------------------------------
\* With one device to a request, the device identifies the pod.
DeviceInv ==
  /\ \A p \in Pod : \A o \in DOMAIN kubelet[p].devices :
       kubelet[p].devices[o] = {kubelet[p].mount[o]}
  /\ \A p, q \in Pod : \A o \in DOMAIN kubelet[p].devices \cap DOMAIN kubelet[q].devices :
       kubelet[p].mount[o] = kubelet[q].mount[o] => p = q

\* A handler has found the one pod that has, or had, its device, and there is
\* no second handler for the device.
HandlerInv ==
  /\ \A t \in Call : Busy(t) => call[t].devices = {call[t].first}
  /\ \A t, u \in Call :
       /\ Busy(t) /\ Busy(u) /\ call[t].class = call[u].class
       /\ call[t].first = call[u].first
       => t = u
  /\ \A t \in Call : call[t].pc \in {"getpod", "populate"} =>
       \A q \in Pod :
         /\ call[t].class \in DOMAIN kubelet[q].devices
         /\ kubelet[q].mount[call[t].class] = call[t].first
         => q = call[t].located

\* The file under the class o of pod p is written, and no handler is left that
\* would write it again.
Settled(p, o) ==
  LET path == VPath(o, kubelet[p].mount[o]) IN
  /\ path \in DOMAIN file
  /\ BoardOf(p) \in Board /\ file[path] = Attrs[BoardOf(p)][o]
  /\ \A t \in Call : ~(Busy(t) /\ call[t].class = o /\ call[t].first = kubelet[p].mount[o])

SettledInv ==
  \A p \in Pod : Active(p) => \A o \in Req[p] \ kubelet[p].todo : Settled(p, o)

Prudent == Prompt /\ Count = 1 /\ NamesUnique

SInv == DeviceInv /\ HandlerInv /\ SettledInv

-----------------------------------------------------------------------------
(* Constants *)

\* The classes and boards of the configuration.
LEMMA ConfigFacts ==
  /\ \A o \in Class : Offered[o] \subseteq Board
  /\ \A b \in Board : GetBoardOrins(Config, b) \subseteq Class
<1> DEFINE ids == UNION {GetBoardOrins(Config, b) : b \in GetBoards(Config)}
           classes == GetOrinClasses(Config)
<1>1. classes = [o \in ids |-> {b \in GetBoards(Config) : o \in GetBoardOrins(Config, b)}]
  BY DEF GetOrinClasses
<1>2. Class = ids /\ \A o \in ids : classes[o] \subseteq GetBoards(Config)
  <2> HIDE DEF ids, classes
  <2>1. DOMAIN classes = ids
    BY <1>1
  <2>2. Class = DOMAIN classes
    BY DEF Class, classes
  <2> QED
    BY <2>1, <2>2, <1>1
<1>3. ASSUME NEW o \in Class PROVE Offered[o] \subseteq Board
  <2>1. Offered[o] = Devices(Config, o)
    BY DEF Offered
  <2>2. Devices(Config, o) = classes[o]
    BY <1>3 DEF Devices, Class
  <2> HIDE DEF ids, classes
  <2> QED
    BY <2>1, <2>2, <1>2, ConfigAssumption
<1>4. ASSUME NEW b \in Board PROVE GetBoardOrins(Config, b) \subseteq Class
  <2>1. CASE b \in GetBoards(Config)
    BY <2>1, <1>2
  <2>2. CASE b \notin GetBoards(Config)
    BY <2>2 DEF GetBoards, GetBoardOrins, SocsOf
  <2> QED
    BY <2>1, <2>2
<1> QED
  BY <1>3, <1>4

\* The boards the report has are those of the file.
LEMMA ReportedBoards ==
  ASSUME capacity = [b \in {} |-> 0]
           \/ \E beyond \in Beyond : capacity = patchNodeExtraResource(Config, beyond)
  PROVE  LET total == TotalOf(capacity) IN
         \A b \in DOMAIN total :
           /\ b \in Board
           /\ ReportInventsNothing => total[b] \subseteq GetBoardOrins(Config, b)
<1> DEFINE total == TotalOf(capacity)
<1>1. DOMAIN total \subseteq DOMAIN capacity
  BY DEF TotalOf
<1>2. DOMAIN capacity \subseteq GetBoards(Config)
  BY DEF patchNodeExtraResource
<1>3. ASSUME ReportInventsNothing, NEW b \in DOMAIN total
      PROVE  total[b] \subseteq GetBoardOrins(Config, b)
  <2>1. PICK beyond \in Beyond : capacity = patchNodeExtraResource(Config, beyond)
    BY <1>1, <1>3
  <2> QED
    BY <2>1, <1>3 DEF ReportInventsNothing
<1> HIDE DEF total
<1>4. \A b \in DOMAIN total : b \in Board
  BY <1>1, <1>2, ConfigAssumption
<1> QED
  BY <1>3, <1>4 DEF total

\* A handler that is done, and a pod before its admission.
LEMMA Defaults ==
  /\ Idle \in Calls /\ Idle.pc = "idle" /\ Idle.pod = NoPod
  /\ NotThere \in KubeletPods /\ NotThere.st = "none" /\ NotThere.todo = {}
  /\ DOMAIN NotThere.devices = {}
<1>1. [o \in {} |-> {}] \in Assignments(SUBSET Board) /\ [o \in {} |-> NoBoard] \in Assignments(Board)
  <2>1. {} \in SUBSET Class
    OBVIOUS
  <2>2. [o \in {} |-> {}] \in [{} -> SUBSET Board] /\ [o \in {} |-> NoBoard] \in [{} -> Board]
    OBVIOUS
  <2> QED
    BY <2>1, <2>2 DEF Assignments
<1>2. NotThere \in KubeletPods
  <2> DEFINE d == [o \in {} |-> {}]
             m == [o \in {} |-> NoBoard]
  <2>1. d \in Assignments(SUBSET Board) /\ m \in Assignments(Board)
    BY <1>1
  <2>2. NotThere = [st |-> "none", devices |-> d, mount |-> m, todo |-> {}]
    BY DEF NotThere
  <2> HIDE DEF d, m
  <2> QED
    BY <2>1, <2>2 DEF KubeletPods
<1>3. Idle \in Calls /\ Idle.pc = "idle" /\ Idle.pod = NoPod
  BY DEF Idle, Calls, AttrsOrNone
<1>4. NotThere.st = "none" /\ NotThere.todo = {} /\ DOMAIN NotThere.devices = {}
  BY DEF NotThere
<1> QED
  BY <1>2, <1>3, <1>4

-----------------------------------------------------------------------------
(* What a step may leave alone *)

Stay == \A p \in Pod : OnNode(p) => OnNode(p)' /\ BoardOf(p)' = BoardOf(p)

\* What is on the node stays there, on its board.
LEMMA StayWhenSame ==
  ASSUME UNCHANGED <<placed, bare>>
  PROVE  Stay
BY DEF Stay, OnNode, BoardOf

\* A pod that is placed was not on the node before.
LEMMA StayWhenPlaced ==
  ASSUME TypeInv, NEW p \in Pod, ~OnNode(p), UNCHANGED bare,
         NEW x, placed' = [placed EXCEPT ![p] = x]
  PROVE  Stay
BY DEF Stay, OnNode, BoardOf, TypeInv, PlacementTypeOK

SamePod(p) ==
  /\ kubelet'[p].st = kubelet[p].st
  /\ kubelet'[p].devices = kubelet[p].devices
  /\ kubelet'[p].mount = kubelet[p].mount

\* Only todo may change, and not that of a running pod.
LEMMA PodFrame ==
  ASSUME PodInv, Stay, NEW p \in Pod, SamePod(p),
         kubelet'[p].todo \subseteq Req[p],
         kubelet[p].st = "running" => kubelet'[p].todo \subseteq kubelet[p].todo
  PROVE  PodOK(p, kubelet[p])'
<1>1. PodOK(p, kubelet[p])
  BY DEF PodInv
<1> QED
  BY <1>1 DEF PodOK, SamePod, Stay

\* A handler that does not move, whose pod keeps its devices.
LEMMA CallFrame ==
  ASSUME CallInv, Stay, call \in [Call -> Calls], NEW t \in Call, call'[t] = call[t],
         call[t].pod # NoPod => /\ kubelet'[call[t].pod].st = kubelet[call[t].pod].st
                                /\ kubelet'[call[t].pod].devices = kubelet[call[t].pod].devices
  PROVE  CallOK(call[t])'
<1>1. CallOK(call[t]) /\ call[t] \in Calls
  BY DEF CallInv
<1>2. ASSUME NEW c, c = call[t] PROVE CallOK(c)'
  BY <1>1, <1>2 DEF CallOK, Stay, Is
<1> QED
  BY <1>2 DEF CallOK, Is, OnNode, BoardOf

\* A handler that is done.
LEMMA IdleOK ==
  ASSUME NEW t \in Call, call'[t] = Idle
  PROVE  CallOK(call[t])'
BY Defaults DEF CallOK

\* Placed and reported.
LEMMA PlacedFrame ==
  ASSUME PlacedInv, UNCHANGED <<placed, bare>>
  PROVE  PlacedInv'
BY DEF PlacedInv, OnNode

\* Neither the kubelet nor a handler moves.
LEMMA CallsSame ==
  ASSUME AInv, Stay, UNCHANGED <<call, kubelet>>
  PROVE  PodInv' /\ CallInv'
<1>1. ASSUME NEW p \in Pod PROVE PodOK(p, kubelet[p])'
  BY <1>1, PodFrame DEF AInv, PodInv, PodOK, SamePod
<1>2. ASSUME NEW t \in Call PROVE CallOK(call[t])'
  BY <1>2, CallFrame DEF AInv, TypeInv
<1>3. \A t, u \in Call : (call[t].pod = call[u].pod)' /\ (call[t].pod # NoPod)' => t = u
  BY DEF AInv, CallInv
<1> QED
  BY <1>1, <1>2, <1>3 DEF PodInv, CallInv

-----------------------------------------------------------------------------
(* The cluster *)

\* The pods of this node are placed where the scheduler believes their orins.
LEMMA PodPlacedKeeps ==
  ASSUME AInv, NEW p \in Pod, PodPlaced(p)
  PROVE  AInv' /\ Stay
<1> DEFINE total == TotalOf(capacity)
<1>1. PICK n \in Node, b \in DOMAIN total : Req[p] \subseteq total[b] /\ Place(p, n, b)
  BY DEF PodPlaced
<1>2. b \in Board /\ (ReportInventsNothing => total[b] \subseteq GetBoardOrins(Config, b))
  BY ReportedBoards DEF AInv, TypeInv
<1> HIDE DEF total
<1>3. /\ UNCHANGED <<removed, bare, capacity, up, lister, err, call, file, kubelet, ended>>
      /\ ~OnNode(p) /\ HasRoom(p) /\ p \notin bare
  BY <1>1 DEF PodPlaced, agentVars, Place, OnNode
<1>4. placed' = [placed EXCEPT ![p] = <<n, b>>] /\ placed \in [Pod -> (Node \X Board) \cup {NoPlace}]
  BY <1>1 DEF Place, AInv, TypeInv, PlacementTypeOK
<1>5. Stay
  BY <1>3, <1>4, StayWhenPlaced DEF AInv
<1>6. placed' \in [Pod -> (Node \X Board) \cup {NoPlace}]
  BY <1>1, <1>2, <1>4
<1>7. TypeInv'
  <2>1. bare \subseteq {q \in Pod : placed[q] = NoPlace} /\ PlacementTypeOK
    BY DEF AInv, TypeInv
  <2>2. PlacementTypeOK'
    BY <2>1, <1>3, <1>6 DEF PlacementTypeOK
  <2>3. bare' \subseteq {q \in Pod : placed'[q] = NoPlace}
    BY <2>1, <1>3, <1>4
  <2> QED
    BY <2>2, <2>3, <1>3 DEF AInv, TypeInv
<1>8. PlacedInv'
  <2>1. Req[p] \subseteq Class
    BY <1>3 DEF HasRoom
  <2>2. placed'[p] = <<n, b>> /\ placed'[p][2] = b
    BY <1>4
  <2>3. ReportInventsNothing => Req[p] \subseteq GetBoardOrins(Config, b)
    BY <1>1, <1>2
  <2>4. \A q \in Pod \ {p} : placed'[q] = placed[q]
    BY <1>4
  <2> QED
    BY <2>1, <2>2, <2>3, <2>4, <1>3 DEF AInv, PlacedInv, OnNode
<1> QED
  BY <1>3, <1>5, <1>7, <1>8, CallsSame DEF AInv

\* A pod that did not ask for the extender.
LEMMA PodBoundElsewiseKeeps ==
  ASSUME AInv, NEW p \in Pod, PodBoundElsewise(p)
  PROVE  AInv' /\ Stay
<1>1. /\ UNCHANGED <<placed, ended, removed, capacity, up, lister, err, call, file, kubelet>>
      /\ ~OnNode(p) /\ HasRoom(p) /\ bare' = bare \cup {p} /\ placed[p] = NoPlace
  BY DEF PodBoundElsewise, agentVars, placementVars, OnNode
<1>2. Stay
  BY <1>1 DEF Stay, OnNode, BoardOf
<1>3. TypeInv'
  <2>1. bare' \subseteq {q \in Pod : placed'[q] = NoPlace}
    BY <1>1 DEF AInv, TypeInv
  <2> QED
    BY <2>1, <1>1 DEF AInv, TypeInv, PlacementTypeOK
<1>4. PlacedInv'
  BY <1>1 DEF AInv, PlacedInv, OnNode, HasRoom
<1> QED
  BY <1>1, <1>2, <1>3, <1>4, CallsSame DEF AInv

\* The end of a pod.
LEMMA PodDeletedKeeps ==
  ASSUME AInv, NEW p \in Pod, PodDeleted(p) \/ PodRemoved(p)
  PROVE  AInv' /\ Stay
<1>1. /\ UNCHANGED <<placed, bare, capacity, up, lister, err, call, file, kubelet>>
      /\ ended' \subseteq Pod /\ removed' \subseteq ended' /\ ended \subseteq ended'
  BY DEF PodDeleted, PodRemoved, End, agentVars, placementVars, AInv, TypeInv, PlacementTypeOK
<1>2. Stay
  BY <1>1, StayWhenSame
<1>3. TypeInv'
  BY <1>1 DEF AInv, TypeInv, PlacementTypeOK
<1>4. PlacedInv'
  BY <1>1, PlacedFrame DEF AInv
<1> QED
  BY <1>1, <1>2, <1>3, <1>4, CallsSame DEF AInv

-----------------------------------------------------------------------------
(* The process *)

\* A lister shows a pod under its name.
LEMMA CurrentNames ==
  /\ Current \in [Name -> Pod \cup {NoPod}]
  /\ \A n \in Name : Current[n] # NoPod => NameOf[Current[n]] = n
<1>1. ASSUME NEW n \in Name PROVE Current[n] = NoPod \/ (Current[n] \in Pod /\ NameOf[Current[n]] = n)
  <2> DEFINE pods == {p \in Pod \ removed : OnNode(p) /\ NameOf[p] = n}
  <2>1. Current[n] = IF pods = {} THEN NoPod ELSE CHOOSE p \in pods : TRUE
    BY DEF Current
  <2>2. pods # {} => (CHOOSE p \in pods : TRUE) \in pods
    OBVIOUS
  <2> QED
    BY <2>1, <2>2
<1>2. DOMAIN Current = Name /\ Current = [n \in Name |-> Current[n]]
  BY DEF Current
<1> QED
  BY <1>1, <1>2

\* The informer, and the start of the process.
LEMMA ProcessKeeps ==
  ASSUME AInv, Sync \/ StartAgent
  PROVE  AInv' /\ Stay
<1>1. /\ UNCHANGED <<placed, ended, removed, bare, call, file, kubelet>>
      /\ lister' = Current /\ up' \in BOOLEAN /\ err' \in {err, {}}
      /\ capacity' = capacity \/ \E beyond \in Beyond : capacity' = patchNodeExtraResource(Config, beyond)
  BY DEF Sync, StartAgent, apiVars, placementVars, AInv, TypeInv
<1>2. Stay
  BY <1>1, StayWhenSame
<1>3. TypeInv'
  <2>1. /\ lister' \in [Name -> Pod \cup {NoPod}]
        /\ \A n \in Name : lister'[n] # NoPod => NameOf[lister'[n]] = n
    BY <1>1, CurrentNames
  <2> QED
    BY <2>1, <1>1 DEF AInv, TypeInv, PlacementTypeOK
<1>4. PlacedInv'
  BY <1>1, PlacedFrame DEF AInv
<1> QED
  BY <1>1, <1>2, <1>3, <1>4, CallsSame DEF AInv

-----------------------------------------------------------------------------
(* The kubelet *)

\* The devices of a class that a request can get are some of the class.
LEMMA FreeOffered ==
  ASSUME NEW o, NEW D \in FreeDevices(o)
  PROVE  D \subseteq Offered[o] /\ D \cap Taken(o) = {} /\ Cardinality(D) = Count
         /\ (Prompt => D \cap Late(o) = {})
BY DEF FreeDevices

\* What Admit does to each pod.
LEMMA AdmitEffect ==
  ASSUME AInv, NEW p \in Pod, Admit(p)
  PROVE  /\ OnNode(p) /\ kubelet[p].st = "none"
         /\ UNCHANGED <<apiVars, agentVars>>
         /\ kubelet' \in [Pod -> KubeletPods]
         /\ kubelet'[p].st = "starting" /\ kubelet'[p].todo = Req[p]
         /\ DOMAIN kubelet'[p].devices = Req[p] /\ DOMAIN kubelet'[p].mount = Req[p]
         /\ \A o \in Req[p] : /\ kubelet'[p].devices[o] \in FreeDevices(o)
                              /\ kubelet'[p].mount[o] \in kubelet'[p].devices[o]
         /\ \A q \in Pod \ {p} :
              /\ kubelet'[q].st = kubelet[q].st /\ kubelet'[q].mount = kubelet[q].mount
              /\ kubelet'[q].todo = kubelet[q].todo
              /\ kubelet'[q].devices
                   = IF kubelet[q].st = "stopped" THEN NotThere.devices ELSE kubelet[q].devices
<1>1. OnNode(p) /\ kubelet[p].st = "none" /\ UNCHANGED <<apiVars, agentVars>>
  BY DEF Admit, Is
<1>2. PICK devices \in [Req[p] -> UNION {FreeDevices(o) : o \in Req[p]}] :
        /\ \A o \in Req[p] : devices[o] \in FreeDevices(o)
        /\ \E mount \in [Req[p] -> Board] :
             /\ \A o \in Req[p] : mount[o] \in devices[o]
             /\ kubelet' = [q \in Pod |->
                  IF q = p THEN [st |-> "starting", devices |-> devices, mount |-> mount, todo |-> Req[p]]
                  ELSE IF Is(q, "stopped") THEN [kubelet[q] EXCEPT !.devices = NotThere.devices]
                  ELSE kubelet[q]]
  BY DEF Admit
<1>3. PICK mount \in [Req[p] -> Board] :
        /\ \A o \in Req[p] : mount[o] \in devices[o]
        /\ kubelet' = [q \in Pod |->
             IF q = p THEN [st |-> "starting", devices |-> devices, mount |-> mount, todo |-> Req[p]]
             ELSE IF Is(q, "stopped") THEN [kubelet[q] EXCEPT !.devices = NotThere.devices]
             ELSE kubelet[q]]
  BY <1>2
<1>4. Req[p] \subseteq Class /\ kubelet \in [Pod -> KubeletPods]
  BY <1>1 DEF AInv, PlacedInv, TypeInv
<1>5. devices \in Assignments(SUBSET Board) /\ mount \in Assignments(Board)
  <2>1. \A o \in Req[p] : devices[o] \in SUBSET Board
    BY <1>2, <1>4, FreeOffered, ConfigFacts
  <2>2. devices \in [Req[p] -> SUBSET Board]
    BY <2>1, <1>2
  <2> QED
    BY <2>2, <1>3, <1>4 DEF Assignments
<1>6. ASSUME NEW k, k = [st |-> "starting", devices |-> devices, mount |-> mount, todo |-> Req[p]]
      PROVE  k \in KubeletPods /\ k.st = "starting" /\ k.devices = devices /\ k.mount = mount
             /\ k.todo = Req[p]
  BY <1>4, <1>5, <1>6 DEF KubeletPods
<1>7. ASSUME NEW l \in KubeletPods, NEW d \in Assignments(SUBSET Board),
             NEW k, k = [l EXCEPT !.devices = d]
      PROVE  k \in KubeletPods /\ k.st = l.st /\ k.devices = d /\ k.mount = l.mount
             /\ k.todo = l.todo
  BY <1>7 DEF KubeletPods
<1>8. NotThere.devices \in Assignments(SUBSET Board)
  BY Defaults DEF KubeletPods
<1>9. /\ kubelet'[p] \in KubeletPods /\ kubelet'[p].st = "starting" /\ kubelet'[p].todo = Req[p]
      /\ kubelet'[p].devices = devices /\ kubelet'[p].mount = mount
  BY <1>3, <1>6
<1>10. ASSUME NEW q \in Pod \ {p}
       PROVE  /\ kubelet'[q] \in KubeletPods
              /\ kubelet'[q].st = kubelet[q].st /\ kubelet'[q].mount = kubelet[q].mount
              /\ kubelet'[q].todo = kubelet[q].todo
              /\ kubelet'[q].devices
                   = IF kubelet[q].st = "stopped" THEN NotThere.devices ELSE kubelet[q].devices
  <2>1. CASE kubelet[q].st = "stopped"
    <3>1. kubelet'[q] = [kubelet[q] EXCEPT !.devices = NotThere.devices]
      BY <2>1, <1>3 DEF Is
    <3> QED
      BY <3>1, <2>1, <1>4, <1>7, <1>8
  <2>2. CASE kubelet[q].st # "stopped"
    BY <2>2, <1>3, <1>4 DEF Is
  <2> QED
    BY <2>1, <2>2
<1>11. kubelet' \in [Pod -> KubeletPods]
  <2>1. DOMAIN kubelet' = Pod /\ kubelet' = [q \in Pod |-> kubelet'[q]]
    BY <1>3
  <2> QED
    BY <2>1, <1>9, <1>10
<1> QED
  BY <1>1, <1>2, <1>3, <1>9, <1>10, <1>11

\* The admission of a pod.
LEMMA AdmitKeeps ==
  ASSUME AInv, NEW p \in Pod, Admit(p)
  PROVE  AInv' /\ Stay
<1> DEFINE Effect ==
      /\ kubelet'[p].st = "starting" /\ kubelet'[p].todo = Req[p]
      /\ DOMAIN kubelet'[p].devices = Req[p] /\ DOMAIN kubelet'[p].mount = Req[p]
      /\ \A o \in Req[p] : /\ kubelet'[p].devices[o] \in FreeDevices(o)
                           /\ kubelet'[p].mount[o] \in kubelet'[p].devices[o]
      /\ \A q \in Pod \ {p} :
           /\ kubelet'[q].st = kubelet[q].st /\ kubelet'[q].mount = kubelet[q].mount
           /\ kubelet'[q].todo = kubelet[q].todo
           /\ kubelet'[q].devices
                = IF kubelet[q].st = "stopped" THEN NotThere.devices ELSE kubelet[q].devices
<1>1. /\ OnNode(p) /\ kubelet[p].st = "none" /\ kubelet' \in [Pod -> KubeletPods] /\ Effect
      /\ UNCHANGED <<placed, ended, removed, bare, capacity, up, lister, err, call, file>>
  BY AdmitEffect DEF apiVars, agentVars, placementVars
<1>2. Stay
  BY <1>1, StayWhenSame
<1>3. TypeInv'
  BY <1>1 DEF AInv, TypeInv, PlacementTypeOK
<1>4. PlacedInv'
  BY <1>1, PlacedFrame DEF AInv
<1>5. PodInv'
  <2>1. PodOK(p, kubelet[p])'
    BY <1>1, <1>2, FreeOffered DEF PodOK, Stay
  <2>2. ASSUME NEW q \in Pod \ {p} PROVE PodOK(q, kubelet[q])'
    <3>1. PodOK(q, kubelet[q])
      BY DEF AInv, PodInv
    <3>2. CASE kubelet[q].st = "stopped"
      BY <3>1, <3>2, <1>1, <1>2, Defaults DEF PodOK, Stay
    <3>3. CASE kubelet[q].st # "stopped"
      BY <3>1, <3>3, <1>1, <1>2 DEF PodOK, Stay
    <3> QED
      BY <3>2, <3>3
  <2> QED
    BY <2>1, <2>2 DEF PodInv
<1>6. CallInv'
  <2>1. ASSUME NEW t \in Call, call[t].pod # NoPod
        PROVE  /\ kubelet'[call[t].pod].st = kubelet[call[t].pod].st
               /\ kubelet'[call[t].pod].devices = kubelet[call[t].pod].devices
    <3>1. call[t].pod \in Pod /\ kubelet[call[t].pod].st = "starting"
      BY <2>1 DEF AInv, TypeInv, Calls, CallInv, CallOK, Is
    <3> QED
      BY <3>1, <1>1
  <2>2. ASSUME NEW t \in Call PROVE CallOK(call[t])'
    BY <2>1, <1>1, <1>2, CallFrame DEF AInv, TypeInv
  <2>3. \A t, u \in Call : (call[t].pod = call[u].pod)' /\ (call[t].pod # NoPod)' => t = u
    BY <1>1 DEF AInv, CallInv
  <2> QED
    BY <2>2, <2>3 DEF CallInv
<1> QED
  BY <1>2, <1>3, <1>4, <1>5, <1>6 DEF AInv

\* The record of one pod changes, for which no call is out.
LEMMA SetKeeps ==
  ASSUME AInv, Stay, UNCHANGED call, NEW p \in Pod, ~Calling(p),
         NEW k \in KubeletPods, PodOK(p, k), Set(p, k)
  PROVE  kubelet' \in [Pod -> KubeletPods] /\ PodInv' /\ CallInv'
<1>1. kubelet \in [Pod -> KubeletPods] /\ call \in [Call -> Calls]
  BY DEF AInv, TypeInv
<1>2. kubelet' \in [Pod -> KubeletPods] /\ kubelet'[p] = k /\ \A q \in Pod \ {p} : kubelet'[q] = kubelet[q]
  BY <1>1 DEF Set
<1>3. ASSUME NEW q \in Pod PROVE PodOK(q, kubelet[q])'
  <2>1. CASE q = p
    BY <2>1, <1>2 DEF PodOK, Stay
  <2>2. CASE q # p
    <3>1. PodOK(q, kubelet[q]) /\ kubelet'[q] = kubelet[q]
      BY <2>2, <1>2 DEF AInv, PodInv
    <3> QED
      BY <3>1 DEF PodOK, Stay
  <2> QED
    BY <2>1, <2>2
<1>4. ASSUME NEW t \in Call, call[t].pod # NoPod
      PROVE  kubelet'[call[t].pod] = kubelet[call[t].pod]
  <2>1. call[t].pod \in Pod \ {p}
    BY <1>1, <1>4 DEF Calls, Calling
  <2> QED
    BY <2>1, <1>2
<1>5. ASSUME NEW t \in Call PROVE CallOK(call[t])'
  BY <1>1, <1>4, CallFrame DEF AInv
<1>6. \A t, u \in Call : (call[t].pod = call[u].pod)' /\ (call[t].pod # NoPod)' => t = u
  BY DEF AInv, CallInv
<1> QED
  BY <1>2, <1>3, <1>5, <1>6 DEF PodInv, CallInv

\* A call is out only for a pod whose container is being started.
LEMMA NotCalling ==
  ASSUME AInv, NEW p \in Pod, kubelet[p].st # "starting"
  PROVE  ~Calling(p)
<1>1. SUFFICES ASSUME NEW t \in Call, call[t].pod = p PROVE FALSE
  BY DEF Calling
<1>2. CallOK(call[t]) /\ call[t].pod # NoPod
  BY <1>1, NodePodAssumption DEF AInv, CallInv
<1> QED
  BY <1>1, <1>2 DEF CallOK, Is

\* The pod is rejected, its container starts or is started again, or it stops.
LEMMA ContainerKeeps ==
  ASSUME AInv, NEW p \in Pod,
         Reject(p) \/ StartContainer(p) \/ ContainerRestarts(p) \/ Stop(p)
  PROVE  AInv' /\ Stay
<1>1. /\ UNCHANGED <<placed, removed, bare, capacity, up, lister, err, call, file>>
      /\ ended' \subseteq Pod /\ removed' \subseteq ended'
  BY DEF Reject, StartContainer, ContainerRestarts, Stop, End, apiVars, agentVars, placementVars,
         AInv, TypeInv, PlacementTypeOK
<1>2. Stay
  BY <1>1, StayWhenSame
<1>3. kubelet[p] \in KubeletPods /\ PodOK(p, kubelet[p])
  BY DEF AInv, TypeInv, PodInv
<1>4. ASSUME NEW l \in KubeletPods, NEW s \in {"none", "starting", "running", "stopped"},
             NEW k, k = [l EXCEPT !.st = s]
      PROVE  k \in KubeletPods /\ k.st = s /\ k.devices = l.devices /\ k.mount = l.mount
             /\ k.todo = l.todo
  BY <1>4 DEF KubeletPods
<1>5. PICK k \in KubeletPods : PodOK(p, k) /\ Set(p, k) /\ ~Calling(p)
  <2>1. CASE Reject(p)
    <3>1. ASSUME NEW k, k = [NotThere EXCEPT !.st = "stopped"]
          PROVE  k \in KubeletPods /\ PodOK(p, k)
      <4>1. k \in KubeletPods /\ k.st = "stopped" /\ k.devices = NotThere.devices /\ k.todo = {}
        BY <3>1, <1>4, Defaults
      <4> QED
        BY <4>1, Defaults DEF PodOK
    <3>2. ~Calling(p) /\ Set(p, [NotThere EXCEPT !.st = "stopped"])
      BY <2>1, NotCalling DEF Reject, Is
    <3> QED
      BY <3>1, <3>2
  <2>2. CASE StartContainer(p)
    <3>1. kubelet[p].st = "starting" /\ kubelet[p].todo = {}
      BY <2>2 DEF StartContainer, Is
    <3>2. ASSUME NEW k, k = [kubelet[p] EXCEPT !.st = "running"]
          PROVE  k \in KubeletPods /\ PodOK(p, k)
      <4>1. /\ k \in KubeletPods /\ k.st = "running" /\ k.devices = kubelet[p].devices
            /\ k.mount = kubelet[p].mount /\ k.todo = {}
        BY <3>1, <3>2, <1>3, <1>4
      <4> QED
        BY <4>1, <3>1, <1>3 DEF PodOK
    <3>3. ~Calling(p) /\ Set(p, [kubelet[p] EXCEPT !.st = "running"])
      BY <2>2 DEF StartContainer
    <3> QED
      BY <3>2, <3>3
  <2>3. CASE ContainerRestarts(p)
    <3>1. kubelet[p].st = "running"
      BY <2>3 DEF ContainerRestarts, Is
    <3>2. Req[p] \in SUBSET Class
      BY <3>1, <1>3 DEF AInv, PlacedInv, PodOK
    <3>3. ASSUME NEW l \in KubeletPods, l = kubelet[p],
                 NEW k, k = [l EXCEPT !.st = "starting", !.todo = Req[p]]
          PROVE  k \in KubeletPods /\ PodOK(p, k)
      <4>1. /\ k \in KubeletPods /\ k.st = "starting" /\ k.devices = l.devices
            /\ k.mount = l.mount /\ k.todo = Req[p]
        BY <3>2, <3>3 DEF KubeletPods
      <4> QED
        BY <4>1, <3>1, <3>3, <1>3 DEF PodOK
    <3>4. ~Calling(p) /\ Set(p, [kubelet[p] EXCEPT !.st = "starting", !.todo = Req[p]])
      BY <2>3, <3>1, NotCalling DEF ContainerRestarts
    <3> QED
      BY <3>3, <3>4, <1>3
  <2>4. CASE Stop(p)
    <3>1. ASSUME NEW l \in KubeletPods, l = kubelet[p],
                 NEW k, k = [l EXCEPT !.st = "stopped", !.todo = {}]
          PROVE  k \in KubeletPods /\ PodOK(p, k)
      <4>1. /\ k \in KubeletPods /\ k.st = "stopped" /\ k.devices = l.devices
            /\ k.mount = l.mount /\ k.todo = {}
        BY <3>1 DEF KubeletPods
      <4> QED
        BY <4>1, <3>1, <1>3 DEF PodOK
    <3>2. ~Calling(p) /\ Set(p, [kubelet[p] EXCEPT !.st = "stopped", !.todo = {}])
      BY <2>4 DEF Stop
    <3> QED
      BY <3>1, <3>2, <1>3
  <2> QED
    BY <2>1, <2>2, <2>3, <2>4
<1>6. kubelet' \in [Pod -> KubeletPods] /\ PodInv' /\ CallInv'
  BY <1>1, <1>2, <1>5, SetKeeps
<1>7. TypeInv'
  BY <1>1, <1>6 DEF AInv, TypeInv, PlacementTypeOK
<1>8. PlacedInv'
  BY <1>1, PlacedFrame DEF AInv
<1> QED
  BY <1>2, <1>6, <1>7, <1>8 DEF AInv

-----------------------------------------------------------------------------
(* The handlers *)

\* All that changes of the pods is what the kubelet has still to call for.
Todos ==
  /\ kubelet' \in [Pod -> KubeletPods]
  /\ \A q \in Pod :
       /\ SamePod(q) /\ kubelet'[q].todo \subseteq Req[q]
       /\ kubelet[q].st = "running" => kubelet'[q].todo \subseteq kubelet[q].todo

\* A new set of classes to call for.
LEMMA TodoEffect ==
  ASSUME AInv, NEW p \in Pod, kubelet[p].st = "starting",
         NEW T, T \subseteq Req[p], Set(p, [kubelet[p] EXCEPT !.todo = T])
  PROVE  Todos /\ kubelet'[p].todo = T /\ \A q \in Pod \ {p} : kubelet'[q] = kubelet[q]
<1>1. kubelet \in [Pod -> KubeletPods] /\ PodOK(p, kubelet[p]) /\ T \subseteq Class
  BY DEF AInv, TypeInv, PodInv, PodOK, PlacedInv
<1>2. \A q \in Pod : kubelet[q] \in KubeletPods /\ kubelet[q].todo \subseteq Req[q]
  BY <1>1 DEF AInv, PodInv, PodOK
<1>3. ASSUME NEW l \in KubeletPods, l = kubelet[p], NEW k, k = [l EXCEPT !.todo = T]
      PROVE  /\ k \in KubeletPods /\ k.st = kubelet[p].st /\ k.devices = kubelet[p].devices
             /\ k.mount = kubelet[p].mount /\ k.todo = T
  <2>1. k \in KubeletPods /\ k.st = l.st /\ k.devices = l.devices /\ k.mount = l.mount /\ k.todo = T
    BY <1>1, <1>3 DEF KubeletPods
  <2> QED
    BY <2>1, <1>3
<1>4. PICK k : k = [kubelet[p] EXCEPT !.todo = T] /\ kubelet' = [kubelet EXCEPT ![p] = k]
  BY DEF Set
<1>5. /\ k \in KubeletPods /\ k.st = kubelet[p].st /\ k.devices = kubelet[p].devices
      /\ k.mount = kubelet[p].mount /\ k.todo = T
  BY <1>3, <1>4, <1>1
<1>6. /\ kubelet' \in [Pod -> KubeletPods] /\ kubelet'[p] = k
      /\ \A q \in Pod \ {p} : kubelet'[q] = kubelet[q]
  BY <1>1, <1>4, <1>5
<1>7. ASSUME NEW q \in Pod
      PROVE  /\ SamePod(q) /\ kubelet'[q].todo \subseteq Req[q]
             /\ kubelet[q].st = "running" => kubelet'[q].todo \subseteq kubelet[q].todo
  <2>1. CASE q = p
    BY <2>1, <1>5, <1>6 DEF SamePod
  <2>2. CASE q # p
    BY <2>2, <1>2, <1>6 DEF SamePod
  <2> QED
    BY <2>1, <2>2
<1> QED
  BY <1>5, <1>6, <1>7 DEF Todos

\* No pod is touched.
LEMMA TodoSame ==
  ASSUME AInv, UNCHANGED kubelet
  PROVE  Todos
BY DEF AInv, TypeInv, PodInv, PodOK, Todos, SamePod

\* A call is for a pod whose container is being started.
LEMMA CalledPod ==
  ASSUME AInv, NEW t \in Call, call[t].pod # NoPod
  PROVE  /\ call[t].pod \in Pod /\ kubelet[call[t].pod].st = "starting"
         /\ call[t].class \in Req[call[t].pod]
         /\ kubelet[call[t].pod].devices[call[t].class] = call[t].devices
BY DEF AInv, TypeInv, Calls, CallInv, CallOK, Is

\* The container is started over.
LEMMA StartOverEffect ==
  ASSUME AInv, NEW t \in Call, StartOver(call[t].pod)
  PROVE  /\ Todos
         /\ \A q \in Pod : kubelet'[q].todo = IF q = call[t].pod THEN Req[q] ELSE kubelet[q].todo
<1>1. CASE call[t].pod = NoPod
  <2>1. UNCHANGED kubelet
    BY <1>1 DEF StartOver
  <2> QED
    BY <2>1, <1>1, TodoSame, NodePodAssumption
<1>2. CASE call[t].pod # NoPod
  <2> DEFINE p == call[t].pod
  <2>1. p \in Pod /\ kubelet[p].st = "starting" /\ Set(p, [kubelet[p] EXCEPT !.todo = Req[p]])
    BY <1>2, CalledPod DEF StartOver
  <2> HIDE DEF p
  <2>2. Todos /\ kubelet'[p].todo = Req[p] /\ \A q \in Pod \ {p} : kubelet'[q] = kubelet[q]
    BY <2>1, TodoEffect
  <2> QED
    BY <2>2 DEF p
<1> QED
  BY <1>1, <1>2

\* A handler returns.
LEMMA ReturnsEffect ==
  ASSUME AInv, NEW t \in Call, NEW ok \in BOOLEAN, Returns(t, ok)
  PROVE  /\ Todos /\ call' = [call EXCEPT ![t] = Idle]
         /\ \A q \in Pod :
              kubelet'[q].todo
                = IF q # call[t].pod THEN kubelet[q].todo
                  ELSE IF ok THEN kubelet[q].todo \ {call[t].class} ELSE Req[q]
<1>1. call' = [call EXCEPT ![t] = Idle]
  BY DEF Returns, Continue
<1>2. CASE call[t].pod # NoPod /\ ok
  <2> DEFINE p == call[t].pod
             T == kubelet[p].todo \ {call[t].class}
  <2>1. p \in Pod /\ kubelet[p].st = "starting"
    BY <1>2, CalledPod
  <2>2. Set(p, [kubelet[p] EXCEPT !.todo = T])
    BY <1>2 DEF Returns
  <2>3. T \subseteq Req[p]
    BY <2>1 DEF AInv, PodInv, PodOK
  <2> HIDE DEF p, T
  <2>4. Todos /\ kubelet'[p].todo = T /\ \A q \in Pod \ {p} : kubelet'[q] = kubelet[q]
    BY <2>1, <2>2, <2>3, TodoEffect
  <2> QED
    BY <2>4, <1>1, <1>2 DEF p, T
<1>3. CASE ~(call[t].pod # NoPod /\ ok)
  <2>1. StartOver(call[t].pod)
    BY <1>3 DEF Returns
  <2>2. ok => \A q \in Pod : q # call[t].pod
    BY <1>3, NodePodAssumption
  <2> QED
    BY <2>1, <2>2, <1>1, StartOverEffect
<1> QED
  BY <1>2, <1>3

\* A step of one handler.
LEMMA HandlerFrame ==
  ASSUME AInv, Stay, Todos, NEW t \in Call, NEW c \in Calls, call' = [call EXCEPT ![t] = c],
         CallOK(c), c.pod # NoPod => \A u \in Call \ {t} : call[u].pod # c.pod
  PROVE  call' \in [Call -> Calls] /\ PodInv' /\ CallInv'
<1>1. call \in [Call -> Calls]
  BY DEF AInv, TypeInv
<1>2. call' \in [Call -> Calls] /\ call'[t] = c /\ \A u \in Call \ {t} : call'[u] = call[u]
  BY <1>1
<1>3. ASSUME NEW p \in Pod PROVE PodOK(p, kubelet[p])'
  BY <1>3, PodFrame DEF AInv, Todos
<1>4. ASSUME NEW q \in Pod
      PROVE  kubelet'[q].st = kubelet[q].st /\ kubelet'[q].devices = kubelet[q].devices
  BY DEF Todos, SamePod
<1>5. CallOK(c)'
  <2>1. c.pod # NoPod => c.pod \in Pod
    BY DEF Calls
  <2> QED
    BY <2>1, <1>4 DEF CallOK, Is, Stay
<1>6. ASSUME NEW u \in Call PROVE CallOK(call[u])'
  <2>1. CASE u = t
    BY <2>1, <1>2, <1>5 DEF CallOK, Is, OnNode, BoardOf
  <2>2. CASE u # t
    <3>1. call[u].pod # NoPod => call[u].pod \in Pod
      BY <1>1 DEF Calls
    <3> QED
      BY <2>2, <3>1, <1>1, <1>2, <1>4, CallFrame DEF AInv
  <2> QED
    BY <2>1, <2>2
<1>7. ASSUME NEW u \in Call, NEW v \in Call, call'[u].pod = call'[v].pod, call'[u].pod # NoPod
      PROVE  u = v
  BY <1>2, <1>7 DEF AInv, CallInv
<1> QED
  BY <1>2, <1>3, <1>6, <1>7 DEF PodInv, CallInv

\* A handler that is done knows nothing.
LEMMA ReturnsKeeps ==
  ASSUME AInv, Stay, NEW t \in Call, NEW ok \in BOOLEAN, Returns(t, ok)
  PROVE  kubelet' \in [Pod -> KubeletPods] /\ call' \in [Call -> Calls] /\ PodInv' /\ CallInv'
<1>1. Todos /\ call' = [call EXCEPT ![t] = Idle]
  BY ReturnsEffect
<1>2. CallOK(Idle) /\ Idle \in Calls /\ Idle.pod = NoPod
  BY Defaults DEF CallOK
<1> QED
  BY <1>1, <1>2, HandlerFrame DEF Todos

\* The kubelet makes a call, or gives one up.
LEMMA CallMadeKeeps ==
  ASSUME AInv, NEW t \in Call, GiveUp(t) \/ \E p \in Pod : \E o \in Req[p] : CallPreStart(p, o, t)
  PROVE  AInv' /\ Stay
<1>1. UNCHANGED <<placed, ended, removed, bare, capacity, up, lister, err, file>>
  BY DEF GiveUp, CallPreStart, apiVars, placementVars
<1>2. Stay
  BY <1>1, StayWhenSame
<1>3. call' \in [Call -> Calls] /\ kubelet' \in [Pod -> KubeletPods] /\ PodInv' /\ CallInv'
  <2>1. CASE GiveUp(t)
    <3>1. call[t] \in Calls /\ CallOK(call[t])
      BY DEF AInv, TypeInv, CallInv
    <3>2. ASSUME NEW d \in Calls, NEW c, c = [d EXCEPT !.pod = NoPod]
          PROVE  /\ c \in Calls /\ c.pod = NoPod /\ c.pc = d.pc /\ c.class = d.class
                 /\ c.devices = d.devices /\ c.first = d.first /\ c.located = d.located
                 /\ c.attrs = d.attrs
      BY <3>2 DEF Calls
    <3>3. PICK c : c = [call[t] EXCEPT !.pod = NoPod] /\ call' = [call EXCEPT ![t] = c]
      BY <2>1 DEF GiveUp, Continue
    <3>4. c \in Calls /\ c.pod = NoPod /\ CallOK(c)
      BY <3>1, <3>2, <3>3 DEF CallOK
    <3>5. Todos
      BY <2>1, StartOverEffect DEF GiveUp
    <3> QED
      BY <3>3, <3>4, <3>5, <1>2, HandlerFrame DEF Todos
  <2>2. CASE \E p \in Pod : \E o \in Req[p] : CallPreStart(p, o, t)
    <3>0. PICK p \in Pod : \E o \in Req[p] : CallPreStart(p, o, t)
      BY <2>2
    <3>1. PICK o \in Req[p] : CallPreStart(p, o, t)
      BY <3>0
    <3>2. /\ kubelet[p].st = "starting" /\ ~Calling(p) /\ UNCHANGED kubelet
          /\ PodOK(p, kubelet[p]) /\ kubelet[p] \in KubeletPods
      BY <3>1 DEF CallPreStart, Is, AInv, PodInv, TypeInv
    <3>3. /\ o \in Class /\ kubelet[p].devices[o] \subseteq Board
      <4>1. o \in DOMAIN kubelet[p].devices /\ OnNode(p) /\ kubelet[p].devices[o] \subseteq Offered[o]
        BY <3>2 DEF PodOK
      <4> QED
        BY <4>1, ConfigFacts DEF AInv, PlacedInv
    <3>4. PICK first \in kubelet[p].devices[o] :
            Continue(t, [Idle EXCEPT !.pc = "locate", !.pod = p, !.class = o,
                                     !.devices = kubelet[p].devices[o], !.first = first])
      BY <3>1 DEF CallPreStart
    <3>5. PICK D \in SUBSET Board : D = kubelet[p].devices[o]
      BY <3>3
    <3>6. first \in D /\ first \in Board
      BY <3>5
    <3>7. PICK c : /\ c = [Idle EXCEPT !.pc = "locate", !.pod = p, !.class = o, !.devices = D,
                                       !.first = first]
                   /\ call' = [call EXCEPT ![t] = c]
      BY <3>4, <3>5 DEF Continue
    <3>8. ASSUME NEW l \in Calls,
                 c = [l EXCEPT !.pc = "locate", !.pod = p, !.class = o, !.devices = D,
                               !.first = first]
          PROVE  /\ c \in Calls /\ c.pc = "locate" /\ c.pod = p /\ c.class = o /\ c.devices = D
                 /\ c.first = first
      BY <3>3, <3>6, <3>8 DEF Calls
    <3>9. /\ c \in Calls /\ c.pc = "locate" /\ c.pod = p /\ c.class = o /\ c.devices = D
          /\ c.first = first
      BY <3>7, <3>8, Defaults
    <3>10. CallOK(c)
      BY <3>9, <3>6, <3>5, <3>3, <3>2 DEF CallOK, Is
    <3>11. \A u \in Call \ {t} : call[u].pod # c.pod
      BY <3>2, <3>9 DEF Calling
    <3> QED
      BY <3>2, <3>7, <3>9, <3>10, <3>11, <1>2, TodoSame, HandlerFrame DEF Todos
  <2> QED
    BY <2>1, <2>2
<1>4. TypeInv'
  BY <1>1, <1>3 DEF AInv, TypeInv, PlacementTypeOK
<1>5. PlacedInv'
  BY <1>1, PlacedFrame DEF AInv
<1> QED
  BY <1>2, <1>3, <1>4, <1>5 DEF AInv

\* What is on the node with a board has one of the configuration's universe.
LEMMA BoardsOfPods ==
  ASSUME TypeInv, NEW p \in Pod, BoardOf(p) # NoBoard
  PROVE  BoardOf(p) \in Board /\ placed[p] # NoPlace /\ BoardOf(p) = placed[p][2]
BY DEF TypeInv, PlacementTypeOK, BoardOf

\* The handler's steps that do not return: Locate finds a pod, GetPod a board.
LEMMA HandlerGoesOn ==
  ASSUME AInv, NEW t \in Call, Locate(t) \/ GetPod(t), ~Returns(t, FALSE), ~Returns(t, TRUE)
  PROVE  UNCHANGED kubelet /\ \E c \in Calls :
           /\ call' = [call EXCEPT ![t] = c] /\ CallOK(c)
           /\ c.pod = call[t].pod /\ c.class = call[t].class
           /\ c.devices = call[t].devices /\ c.first = call[t].first
           /\ \/ /\ At(t, "locate") /\ c.pc = "getpod"
                 /\ c.located \in Matching(call[t].class, call[t].devices)
              \/ /\ At(t, "getpod") /\ c.pc = "populate" /\ c.located = call[t].located
<1>1. call[t] \in Calls /\ CallOK(call[t]) /\ TypeInv
  BY DEF AInv, TypeInv, CallInv
<1>2. CASE Locate(t)
  <2>1. /\ At(t, "locate") /\ UNCHANGED kubelet
        /\ \E q \in Matching(call[t].class, call[t].devices) :
             Continue(t, [call[t] EXCEPT !.pc = "getpod", !.located = q])
    BY <1>2 DEF Locate
  <2>2. PICK q \in Matching(call[t].class, call[t].devices) :
          Continue(t, [call[t] EXCEPT !.pc = "getpod", !.located = q])
    BY <2>1
  <2>3. q \in Pod /\ call[t].class \in Req[q] /\ OnNode(q)
    <3>1. q \in Pod /\ call[t].class \in DOMAIN kubelet[q].devices
      BY DEF Matching
    <3>2. PodOK(q, kubelet[q])
      BY <3>1 DEF AInv, PodInv
    <3> QED
      BY <3>1, <3>2 DEF PodOK
  <2>4. PICK c : /\ c = [call[t] EXCEPT !.pc = "getpod", !.located = q]
                 /\ call' = [call EXCEPT ![t] = c]
    BY <2>2 DEF Continue
  <2>5. ASSUME NEW l \in Calls, l = call[t], c = [l EXCEPT !.pc = "getpod", !.located = q]
        PROVE  /\ c \in Calls /\ c.pc = "getpod" /\ c.pod = l.pod /\ c.class = l.class
               /\ c.devices = l.devices /\ c.first = l.first /\ c.located = q
    BY <2>3, <2>5 DEF Calls
  <2>6. /\ c \in Calls /\ c.pc = "getpod" /\ c.pod = call[t].pod /\ c.class = call[t].class
        /\ c.devices = call[t].devices /\ c.first = call[t].first /\ c.located = q
    BY <2>4, <2>5, <1>1
  <2>7. CallOK(c)
    BY <2>1, <2>3, <2>6, <1>1 DEF CallOK, At
  <2> QED
    BY <2>1, <2>4, <2>6, <2>7
<1>3. CASE GetPod(t)
  <2> DEFINE pod == lister[NameOf[call[t].located]]
  <2>1. At(t, "getpod") /\ UNCHANGED kubelet /\ pod # NoPod /\ BoardOf(pod) # NoBoard
        /\ Continue(t, [call[t] EXCEPT !.pc = "populate", !.attrs = Attrs[BoardOf(pod)][call[t].class]])
    BY <1>3 DEF GetPod
  <2>2. call[t].located \in Pod /\ call[t].class \in Class
    BY <2>1, <1>1 DEF CallOK, At
  <2>3. pod \in Pod /\ NameOf[pod] = NameOf[call[t].located]
    <3>1. NameOf[call[t].located] \in Name
      BY <2>2, NameAssumption
    <3> QED
      BY <3>1, <2>1, <1>1 DEF TypeInv
  <2> HIDE DEF pod
  <2>4. BoardOf(pod) \in Board
    BY <2>1, <2>3, <1>1, BoardsOfPods
  <2>5. PICK a : a = Attrs[BoardOf(pod)][call[t].class]
    OBVIOUS
  <2>6. a \in AttrsOrNone
    BY <2>2, <2>4, <2>5 DEF AttrsOrNone
  <2>7. PICK c : c = [call[t] EXCEPT !.pc = "populate", !.attrs = a] /\ call' = [call EXCEPT ![t] = c]
    BY <2>1, <2>5 DEF Continue
  <2>8. ASSUME NEW l \in Calls, l = call[t], c = [l EXCEPT !.pc = "populate", !.attrs = a]
        PROVE  /\ c \in Calls /\ c.pc = "populate" /\ c.pod = l.pod /\ c.class = l.class
               /\ c.devices = l.devices /\ c.first = l.first /\ c.located = l.located
               /\ c.attrs = a
    BY <2>6, <2>8 DEF Calls
  <2>9. /\ c \in Calls /\ c.pc = "populate" /\ c.pod = call[t].pod /\ c.class = call[t].class
        /\ c.devices = call[t].devices /\ c.first = call[t].first
        /\ c.located = call[t].located /\ c.attrs = a
    BY <2>7, <2>8, <1>1
  <2>10. NamesUnique => pod = call[t].located
    BY <2>2, <2>3 DEF NamesUnique
  <2>11. CallOK(c)
    BY <2>1, <2>4, <2>5, <2>9, <2>10, <1>1 DEF CallOK, At
  <2> QED
    BY <2>1, <2>7, <2>9, <2>11
<1> QED
  BY <1>2, <1>3

\* The steps of a handler.
LEMMA HandlerKeeps ==
  ASSUME AInv, NEW t \in Call, PreStartContainer(t)
  PROVE  AInv' /\ Stay
<1>1. UNCHANGED <<placed, ended, removed, bare, capacity, up, lister>>
  BY DEF PreStartContainer, Locate, GetPod, PopulateOrinAttr, apiVars, placementVars
<1>2. Stay
  BY <1>1, StayWhenSame
<1>3. call[t] \in Calls /\ CallOK(call[t])
  BY DEF AInv, TypeInv, CallInv
<1>4. kubelet' \in [Pod -> KubeletPods] /\ call' \in [Call -> Calls] /\ PodInv' /\ CallInv'
  <2>1. CASE Returns(t, FALSE) \/ Returns(t, TRUE)
    BY <2>1, <1>2, ReturnsKeeps
  <2>2. CASE ~(Returns(t, FALSE) \/ Returns(t, TRUE))
    <3>1. Locate(t) \/ GetPod(t)
      BY <2>2 DEF PreStartContainer, PopulateOrinAttr
    <3>2. UNCHANGED kubelet
      BY <2>2, <3>1, HandlerGoesOn
    <3>3. PICK c \in Calls : call' = [call EXCEPT ![t] = c] /\ CallOK(c) /\ c.pod = call[t].pod
      BY <2>2, <3>1, HandlerGoesOn
    <3>4. c.pod # NoPod => \A u \in Call \ {t} : call[u].pod # c.pod
      BY <3>3 DEF AInv, CallInv
    <3> QED
      BY <3>2, <3>3, <3>4, <1>2, TodoSame, HandlerFrame DEF Todos
  <2> QED
    BY <2>1, <2>2
<1>5. err' \subseteq Class
  <2>1. ~At(t, "idle") => call[t].class \in Class
    BY <1>3 DEF CallOK, At
  <2>2. err' \in {err, err \ {call[t].class}, err \cup {call[t].class}} /\ ~At(t, "idle")
    BY DEF PreStartContainer, Locate, GetPod, PopulateOrinAttr, At
  <2> QED
    BY <2>1, <2>2 DEF AInv, TypeInv
<1>6. DOMAIN file' \subseteq Class \X Board
  <2>1. CASE PopulateOrinAttr(t)
    <3>1. VPath(call[t].class, call[t].first) \in Class \X Board
      BY <2>1, <1>3 DEF PopulateOrinAttr, At, CallOK, Calls, VPath
    <3>2. DOMAIN file' = DOMAIN file \cup {VPath(call[t].class, call[t].first)}
      BY <2>1 DEF PopulateOrinAttr, Write
    <3> QED
      BY <3>1, <3>2 DEF AInv, TypeInv
  <2>2. CASE ~PopulateOrinAttr(t)
    BY <2>2 DEF PreStartContainer, Locate, GetPod, AInv, TypeInv
  <2> QED
    BY <2>1, <2>2
<1>7. TypeInv'
  BY <1>1, <1>4, <1>5, <1>6 DEF AInv, TypeInv, PlacementTypeOK
<1>8. PlacedInv'
  BY <1>1, PlacedFrame DEF AInv
<1> QED
  BY <1>2, <1>4, <1>7, <1>8 DEF AInv

\* What a crash does to the pods.
LEMMA CrashEffect ==
  ASSUME AInv, Crash
  PROVE  Todos /\ call' = [t \in Call |-> Idle]
         /\ \A q \in Pod : kubelet'[q].todo = IF Calling(q) THEN Req[q] ELSE kubelet[q].todo
<1>1. call' = [t \in Call |-> Idle]
      /\ kubelet' = [q \in Pod |-> IF Calling(q) THEN [kubelet[q] EXCEPT !.todo = Req[q]] ELSE kubelet[q]]
  BY DEF Crash
<1>2. kubelet \in [Pod -> KubeletPods] /\ \A q \in Pod : PodOK(q, kubelet[q])
  BY DEF AInv, TypeInv, PodInv
<1>3. ASSUME NEW q \in Pod
      PROVE  /\ kubelet'[q] \in KubeletPods /\ SamePod(q) /\ kubelet'[q].todo \subseteq Req[q]
             /\ kubelet[q].st = "running" => kubelet'[q].todo \subseteq kubelet[q].todo
             /\ kubelet'[q].todo = IF Calling(q) THEN Req[q] ELSE kubelet[q].todo
  <2>1. CASE Calling(q)
    <3>1. kubelet[q].st = "starting"
      BY <2>1, NotCalling
    <3>2. Req[q] \subseteq Class
      BY <3>1, <1>2 DEF PodOK, AInv, PlacedInv
    <3>3. ASSUME NEW l \in KubeletPods, l = kubelet[q], NEW k, k = [l EXCEPT !.todo = Req[q]]
          PROVE  k \in KubeletPods /\ k.st = l.st /\ k.devices = l.devices /\ k.mount = l.mount
                 /\ k.todo = Req[q]
      BY <3>2, <3>3 DEF KubeletPods
    <3>4. kubelet'[q] = [kubelet[q] EXCEPT !.todo = Req[q]] /\ kubelet[q] \in KubeletPods
      BY <2>1, <1>1, <1>2
    <3>5. /\ kubelet'[q] \in KubeletPods /\ kubelet'[q].st = kubelet[q].st
          /\ kubelet'[q].devices = kubelet[q].devices /\ kubelet'[q].mount = kubelet[q].mount
          /\ kubelet'[q].todo = Req[q]
      BY <3>3, <3>4
    <3> QED
      BY <2>1, <3>1, <3>5 DEF SamePod
  <2>2. CASE ~Calling(q)
    BY <2>2, <1>1, <1>2 DEF SamePod, PodOK
  <2> QED
    BY <2>1, <2>2
<1>4. kubelet' \in [Pod -> KubeletPods]
  <2>1. DOMAIN kubelet' = Pod /\ kubelet' = [q \in Pod |-> kubelet'[q]]
    BY <1>1
  <2> QED
    BY <2>1, <1>3
<1> QED
  BY <1>1, <1>3, <1>4 DEF Todos

\* The device plugin goes down with its handlers.
LEMMA CrashKeeps ==
  ASSUME AInv, Crash
  PROVE  AInv' /\ Stay
<1>1. UNCHANGED <<placed, ended, removed, bare, capacity, lister, err>> /\ up' \in BOOLEAN
  BY DEF Crash, apiVars, placementVars
<1>2. Stay
  BY <1>1, StayWhenSame
<1>3. Todos /\ call' = [t \in Call |-> Idle]
  BY CrashEffect
<1>4. PodInv'
  BY <1>2, <1>3, PodFrame DEF AInv, Todos, PodInv
<1>5. CallInv'
  BY <1>3, IdleOK, Defaults DEF CallInv
<1>6. DOMAIN file' \subseteq Class \X Board
  <2> DEFINE written == {VPath(call[t].class, call[t].first) : t \in {u \in Call : At(u, "populate")}}
  <2>1. PICK torn \in SUBSET written :
          file' = [d \in DOMAIN file \cup torn |-> IF d \in torn THEN Torn ELSE file[d]]
    BY DEF Crash
  <2>2. written \subseteq Class \X Board
    BY DEF AInv, TypeInv, CallInv, CallOK, Calls, At, VPath
  <2> QED
    BY <2>1, <2>2 DEF AInv, TypeInv
<1>7. TypeInv'
  <2>1. call' \in [Call -> Calls] /\ kubelet' \in [Pod -> KubeletPods]
    BY <1>3, Defaults DEF Todos
  <2> QED
    BY <2>1, <1>1, <1>6 DEF AInv, TypeInv, PlacementTypeOK
<1>8. PlacedInv'
  BY <1>1, PlacedFrame DEF AInv
<1> QED
  BY <1>2, <1>4, <1>5, <1>7, <1>8 DEF AInv

-----------------------------------------------------------------------------
\* At the start nothing is on the node.
LEMMA AInvInit == Init => AInv
<1> SUFFICES ASSUME Init PROVE AInv
  OBVIOUS
<1>1. TypeInv
  <2>1. call \in [Call -> Calls] /\ kubelet \in [Pod -> KubeletPods]
    BY Defaults DEF Init
  <2> QED
    BY <2>1 DEF Init, TypeInv, PlacementInit, PlacementTypeOK
<1>2. PlacedInv
  BY DEF Init, PlacementInit, PlacedInv, OnNode
<1>3. PodInv
  BY Defaults DEF Init, PodInv, PodOK
<1>4. CallInv
  BY Defaults DEF Init, CallInv, CallOK
<1> QED
  BY <1>1, <1>2, <1>3, <1>4 DEF AInv

\* The disjuncts of Next, one lemma each.
LEMMA AInvNext ==
  ASSUME AInv, Next
  PROVE  AInv' /\ Stay
<1>1. ASSUME NEW p \in Pod, PodPlaced(p) \/ PodBoundElsewise(p) PROVE AInv' /\ Stay
  BY <1>1, PodPlacedKeeps, PodBoundElsewiseKeeps
<1>2. ASSUME NEW p \in Pod, PodDeleted(p) \/ PodRemoved(p) PROVE AInv' /\ Stay
  BY <1>2, PodDeletedKeeps
<1>3. ASSUME NEW p \in Pod, KubeletStep(p) PROVE AInv' /\ Stay
  <2>1. CASE Admit(p)
    BY <2>1, AdmitKeeps
  <2>2. CASE Reject(p) \/ StartContainer(p)
    BY <2>2, ContainerKeeps
  <2>3. CASE \E o \in Req[p], t \in Free : CallPreStart(p, o, t)
    <3>1. Free \subseteq Call
      BY DEF Free
    <3> QED
      BY <2>3, <3>1, CallMadeKeeps
  <2> QED
    BY <1>3, <2>1, <2>2, <2>3 DEF KubeletStep
<1>4. ASSUME NEW p \in Pod, ContainerRestarts(p) \/ Stop(p) PROVE AInv' /\ Stay
  BY <1>4, ContainerKeeps
<1>5. ASSUME NEW t \in Call, PreStartContainer(t) \/ GiveUp(t) PROVE AInv' /\ Stay
  BY <1>5, HandlerKeeps, CallMadeKeeps
<1>6. CASE Sync \/ StartAgent \/ Crash
  BY <1>6, ProcessKeeps, CrashKeeps
<1> QED
  BY <1>1, <1>2, <1>3, <1>4, <1>5, <1>6 DEF Next

\* Steps that change nothing.
LEMMA AInvStutter ==
  ASSUME AInv, UNCHANGED vars
  PROVE  AInv' /\ Stay
<1>1. /\ UNCHANGED <<placed, ended, removed, bare, capacity, up, lister, err, call, file, kubelet>>
  BY DEF vars, apiVars, agentVars, placementVars
<1>2. Stay
  BY <1>1, StayWhenSame
<1>3. TypeInv'
  BY <1>1 DEF AInv, TypeInv, PlacementTypeOK
<1>4. PlacedInv'
  BY <1>1, PlacedFrame DEF AInv
<1> QED
  BY <1>1, <1>2, <1>3, <1>4, CallsSame DEF AInv

(***************************************************************************)
(* What the kubelet and the handlers know of a pod is true of it: its      *)
(* devices are of the classes it asks for, a call is for a container that  *)
(* is being started, and a handler that has got as far as the attributes   *)
(* has those of the board of the pod it has located (orin.go:148-190).     *)
(***************************************************************************)
THEOREM AInvHolds == Spec => []AInv
<1>1. AInv /\ [Next]_vars => AInv'
  BY AInvNext, AInvStutter
<1> QED
  BY <1>1, AInvInit, PTL DEF Spec

(***************************************************************************)
(* The types of the agent's state, and with a report that invents no orins *)
(* and a file that gives each orin its attributes: a handler that has come *)
(* to the write has attributes to write (orin.go:165-190).                 *)
(***************************************************************************)
THEOREM AgentTypeHolds ==
  ASSUME NamesUnique, ReportInventsNothing, AttrsAreThere
  PROVE  Spec => []AgentTypeOK
<1>1. ASSUME AInv PROVE AgentTypeOK
  <2>1. /\ removed \subseteq ended /\ bare \subseteq {p \in Pod : placed[p] = NoPlace}
        /\ err \subseteq Class
        /\ \A n \in Name : lister[n] # NoPod => NameOf[lister[n]] = n
    BY <1>1 DEF AInv, TypeInv
  <2>2. ASSUME NEW p \in Pod
        PROVE  /\ kubelet[p].st \in {"none", "starting", "running", "stopped"}
               /\ kubelet[p].todo \subseteq Req[p]
               /\ \A o \in DOMAIN kubelet[p].devices : kubelet[p].devices[o] \subseteq Offered[o]
    BY <1>1 DEF AInv, TypeInv, KubeletPods, PodInv, PodOK
  <2>3. ASSUME NEW t \in Call, At(t, "populate") PROVE call[t].attrs # NoAttr
    <3> DEFINE p == call[t].located
               o == call[t].class
    <3>1. /\ p \in Pod /\ o \in Req[p] /\ o \in Class
          /\ BoardOf(p) \in Board /\ call[t].attrs = Attrs[BoardOf(p)][o]
      BY <1>1, <2>3 DEF AInv, CallInv, CallOK, At
    <3> HIDE DEF p, o
    <3>2. o \in GetBoardOrins(Config, BoardOf(p))
      BY <1>1, <3>1, BoardsOfPods, NodePodAssumption DEF AInv, PlacedInv
    <3>3. Attrs[BoardOf(p)][o] = GetOrinAttrs(Config, BoardOf(p), o)
      BY <3>1 DEF Attrs
    <3> QED
      BY <3>1, <3>2, <3>3 DEF AttrsAreThere
  <2> QED
    BY <2>1, <2>2, <2>3 DEF AgentTypeOK
<1> QED
  BY <1>1, AInvHolds, PTL

-----------------------------------------------------------------------------
(* The container reads what belongs to its board *)

\* A pod keeps its devices, or loses them for good.
SameDevices ==
  \A q \in Pod :
    \/ DOMAIN kubelet'[q].devices = {}
    \/ kubelet'[q].devices = kubelet[q].devices /\ kubelet'[q].mount = kubelet[q].mount

\* A handler goes on with the device it has, and with the pod if it has one.
SameWork(t) ==
  \/ call'[t].pc = "idle"
  \/ /\ Busy(t) /\ call'[t].class = call[t].class
     /\ call'[t].devices = call[t].devices /\ call'[t].first = call[t].first
     /\ call'[t].pc \in {"getpod", "populate"} =>
          call[t].pc \in {"getpod", "populate"} /\ call'[t].located = call[t].located

\* No class is called for with success.
NothingSettled ==
  \A q \in Pod : kubelet'[q].st \in {"starting", "running"} =>
    Active(q) /\ kubelet'[q].mount = kubelet[q].mount /\ kubelet[q].todo \subseteq kubelet'[q].todo

\* Devices that stay are as apart as they were.
LEMMA DeviceFrame ==
  ASSUME DeviceInv, SameDevices
  PROVE  DeviceInv'
BY DEF DeviceInv, SameDevices

\* An idle handler claims nothing.
LEMMA HandlerInvFrame ==
  ASSUME HandlerInv, SameDevices, \A t \in Call : SameWork(t)
  PROVE  HandlerInv'
<1>1. ASSUME NEW t \in Call, call'[t].pc # "idle"
      PROVE  /\ Busy(t) /\ call'[t].class = call[t].class
             /\ call'[t].devices = call[t].devices /\ call'[t].first = call[t].first
             /\ call'[t].pc \in {"getpod", "populate"} =>
                  call[t].pc \in {"getpod", "populate"} /\ call'[t].located = call[t].located
  BY <1>1, Defaults DEF SameWork
<1>2. \A t \in Call : Busy(t)' => call'[t].devices = {call'[t].first}
  BY <1>1 DEF HandlerInv, Busy
<1>3. ASSUME NEW t \in Call, NEW u \in Call, Busy(t)', Busy(u)',
             call'[t].class = call'[u].class, call'[t].first = call'[u].first
      PROVE  t = u
  BY <1>1, <1>3 DEF HandlerInv, Busy
<1>4. ASSUME NEW t \in Call, call'[t].pc \in {"getpod", "populate"}, NEW q \in Pod,
             call'[t].class \in DOMAIN kubelet'[q].devices,
             kubelet'[q].mount[call'[t].class] = call'[t].first
      PROVE  q = call'[t].located
  BY <1>1, <1>4 DEF HandlerInv, SameDevices
<1> QED
  BY <1>2, <1>3, <1>4 DEF HandlerInv

\* Nothing is written and no call is made.
LEMMA SettledFrame ==
  ASSUME AInv, SettledInv, Stay, NothingSettled, \A t \in Call : SameWork(t), UNCHANGED file
  PROVE  SettledInv'
<1> SUFFICES ASSUME NEW p \in Pod, Active(p)', NEW o \in Req[p] \ kubelet'[p].todo
             PROVE  Settled(p, o)'
  BY DEF SettledInv
<1>1. /\ Active(p) /\ kubelet'[p].mount = kubelet[p].mount
      /\ kubelet[p].todo \subseteq kubelet'[p].todo
  BY DEF Active, NothingSettled
<1>2. Settled(p, o)
  BY <1>1 DEF SettledInv
<1>3. OnNode(p)
  BY <1>1 DEF AInv, PodInv, PodOK, Active
<1>4. BoardOf(p)' = BoardOf(p)
  BY <1>3 DEF Stay
<1>5. \A t \in Call : ~(Busy(t)' /\ call'[t].class = o /\ call'[t].first = kubelet'[p].mount[o])
  BY <1>1, <1>2, Defaults DEF Settled, SameWork, Busy
<1> QED
  BY <1>1, <1>2, <1>4, <1>5 DEF Settled, VPath

\* The steps that neither give away a device, nor make a call, nor write.
LEMMA SInvFrame ==
  ASSUME AInv, SInv, Stay, SameDevices, NothingSettled, \A t \in Call : SameWork(t), UNCHANGED file
  PROVE  SInv'
BY DeviceFrame, HandlerInvFrame, SettledFrame DEF SInv

\* A handler that does not move.
LEMMA SameWorkFrame ==
  ASSUME NEW t \in Call, call'[t] = call[t]
  PROVE  SameWork(t)
BY DEF SameWork, Busy

\* The kubelet, the handlers and the files rest.
LEMMA QuietSettles ==
  ASSUME AInv, SInv, Stay, UNCHANGED <<call, kubelet, file>>
  PROVE  SInv'
<1>1. SameDevices /\ NothingSettled /\ \A t \in Call : SameWork(t)
  BY SameWorkFrame DEF SameDevices, NothingSettled, Active
<1> QED
  BY <1>1, SInvFrame

\* Rejection, start, restart and stop.
LEMMA ContainerSettles ==
  ASSUME AInv, SInv, NEW p \in Pod,
         Reject(p) \/ StartContainer(p) \/ ContainerRestarts(p) \/ Stop(p)
  PROVE  SInv'
<1>1. UNCHANGED <<call, file>> /\ Stay
  BY ContainerKeeps DEF Reject, StartContainer, ContainerRestarts, Stop, agentVars
<1>2. kubelet \in [Pod -> KubeletPods] /\ kubelet[p] \in KubeletPods /\ kubelet[p].todo \subseteq Req[p]
  BY DEF AInv, TypeInv, PodInv, PodOK
<1>3. PICK k :
        /\ kubelet' = [kubelet EXCEPT ![p] = k]
        /\ DOMAIN k.devices = {} \/ (k.devices = kubelet[p].devices /\ k.mount = kubelet[p].mount)
        /\ k.st \in {"starting", "running"} =>
             Active(p) /\ k.mount = kubelet[p].mount /\ kubelet[p].todo \subseteq k.todo
  <2>1. CASE Reject(p)
    <3>1. PICK k : k = [NotThere EXCEPT !.st = "stopped"] /\ kubelet' = [kubelet EXCEPT ![p] = k]
      BY <2>1 DEF Reject, Set
    <3>2. ASSUME NEW l \in KubeletPods, DOMAIN l.devices = {}, k = [l EXCEPT !.st = "stopped"]
          PROVE  k.st = "stopped" /\ DOMAIN k.devices = {}
      BY <3>2 DEF KubeletPods
    <3>3. k.st = "stopped" /\ DOMAIN k.devices = {}
      BY <3>1, <3>2, Defaults
    <3> QED
      BY <3>1, <3>3
  <2>2. CASE StartContainer(p)
    <3>1. ASSUME NEW l \in KubeletPods, l = kubelet[p], NEW k, k = [l EXCEPT !.st = "running"]
          PROVE  k.devices = l.devices /\ k.mount = l.mount /\ k.todo = l.todo
      BY <3>1 DEF KubeletPods
    <3>2. PICK k : k = [kubelet[p] EXCEPT !.st = "running"] /\ kubelet' = [kubelet EXCEPT ![p] = k]
      BY <2>2 DEF StartContainer, Set
    <3>3. /\ k.devices = kubelet[p].devices /\ k.mount = kubelet[p].mount
          /\ k.todo = kubelet[p].todo
      BY <3>1, <3>2, <1>2
    <3>4. Active(p)
      BY <2>2 DEF StartContainer, Is, Active
    <3> QED
      BY <3>2, <3>3, <3>4
  <2>3. CASE ContainerRestarts(p)
    <3>1. ASSUME NEW l \in KubeletPods, l = kubelet[p],
                 NEW k, k = [l EXCEPT !.st = "starting", !.todo = Req[p]]
          PROVE  k.devices = l.devices /\ k.mount = l.mount /\ k.todo = Req[p]
      BY <3>1 DEF KubeletPods
    <3>2. PICK k : /\ k = [kubelet[p] EXCEPT !.st = "starting", !.todo = Req[p]]
                   /\ kubelet' = [kubelet EXCEPT ![p] = k]
      BY <2>3 DEF ContainerRestarts, Set
    <3>3. k.devices = kubelet[p].devices /\ k.mount = kubelet[p].mount /\ k.todo = Req[p]
      BY <3>1, <3>2, <1>2
    <3>4. Active(p)
      BY <2>3 DEF ContainerRestarts, Is, Active
    <3> QED
      BY <3>2, <3>3, <3>4, <1>2
  <2>4. CASE Stop(p)
    <3>1. ASSUME NEW l \in KubeletPods, l = kubelet[p],
                 NEW k, k = [l EXCEPT !.st = "stopped", !.todo = {}]
          PROVE  k.st = "stopped" /\ k.devices = l.devices /\ k.mount = l.mount
      BY <3>1 DEF KubeletPods
    <3>2. PICK k : /\ k = [kubelet[p] EXCEPT !.st = "stopped", !.todo = {}]
                   /\ kubelet' = [kubelet EXCEPT ![p] = k]
      BY <2>4 DEF Stop, Set
    <3>3. k.st = "stopped" /\ k.devices = kubelet[p].devices /\ k.mount = kubelet[p].mount
      BY <3>1, <3>2, <1>2
    <3> QED
      BY <3>2, <3>3
  <2> QED
    BY <2>1, <2>2, <2>3, <2>4
<1>4. kubelet'[p] = k /\ \A q \in Pod \ {p} : kubelet'[q] = kubelet[q]
  BY <1>2, <1>3
<1>5. SameDevices
  BY <1>3, <1>4 DEF SameDevices
<1>6. NothingSettled
  BY <1>3, <1>4 DEF NothingSettled, Active
<1> QED
  BY <1>1, <1>5, <1>6, SameWorkFrame, SInvFrame

\* Of the calls of the kubelet, one given up.
LEMMA GiveUpSettles ==
  ASSUME AInv, SInv, NEW t \in Call, GiveUp(t)
  PROVE  SInv'
<1>1. Todos /\ \A q \in Pod : kubelet'[q].todo = IF q = call[t].pod THEN Req[q] ELSE kubelet[q].todo
  BY StartOverEffect DEF GiveUp
<1>2. UNCHANGED file /\ Stay /\ call' = [call EXCEPT ![t] = [call[t] EXCEPT !.pod = NoPod]]
  BY CallMadeKeeps DEF GiveUp, Continue
<1>3. call \in [Call -> Calls] /\ call[t] \in Calls /\ \A q \in Pod : kubelet[q].todo \subseteq Req[q]
  BY DEF AInv, TypeInv, PodInv, PodOK
<1>4. ASSUME NEW d \in Calls, d = call[t], NEW c, c = [d EXCEPT !.pod = NoPod]
      PROVE  /\ c.pc = d.pc /\ c.class = d.class /\ c.devices = d.devices /\ c.first = d.first
             /\ c.located = d.located
  BY <1>4 DEF Calls
<1>5. PICK c : c = [call[t] EXCEPT !.pod = NoPod] /\ call' = [call EXCEPT ![t] = c]
  BY <1>2
<1>6. /\ c.pc = call[t].pc /\ c.class = call[t].class /\ c.devices = call[t].devices
      /\ c.first = call[t].first /\ c.located = call[t].located
  BY <1>3, <1>4, <1>5
<1>7. SameWork(t) /\ \A u \in Call \ {t} : SameWork(u)
  BY <1>3, <1>5, <1>6, SameWorkFrame DEF SameWork, Busy
<1>8. SameDevices /\ NothingSettled
  BY <1>1, <1>3 DEF Todos, SamePod, SameDevices, NothingSettled, Active
<1> QED
  BY <1>2, <1>7, <1>8, SInvFrame

\* A call that fails, and what it does not touch.
LEMMA FailureSettles ==
  ASSUME AInv, SInv, Stay, NEW t \in Call, Returns(t, FALSE), UNCHANGED file
  PROVE  SInv'
<1>1. /\ Todos /\ call' = [call EXCEPT ![t] = Idle]
      /\ \A q \in Pod : kubelet'[q].todo = IF q # call[t].pod THEN kubelet[q].todo ELSE Req[q]
  BY ReturnsEffect
<1>2. call \in [Call -> Calls] /\ \A q \in Pod : kubelet[q].todo \subseteq Req[q]
  BY DEF AInv, TypeInv, PodInv, PodOK
<1>3. SameWork(t) /\ \A u \in Call \ {t} : SameWork(u)
  BY <1>1, <1>2, Defaults, SameWorkFrame DEF SameWork
<1>4. SameDevices /\ NothingSettled
  BY <1>1, <1>2 DEF Todos, SamePod, SameDevices, NothingSettled, Active
<1> QED
  BY <1>3, <1>4, SInvFrame

\* The kubelet calls for a class that is not settled.
LEMMA CallSettles ==
  ASSUME Prompt, AInv, SInv, NEW t \in Call, NEW p \in Pod, NEW o \in Req[p], CallPreStart(p, o, t)
  PROVE  SInv'
<1>1. /\ UNCHANGED <<kubelet, file>> /\ Stay /\ kubelet[p].st = "starting" /\ At(t, "idle")
      /\ o \in kubelet[p].todo /\ kubelet[p].devices[o] \cap Late(o) = {}
  BY CallMadeKeeps DEF CallPreStart, Is
<1>2. call \in [Call -> Calls] /\ PodOK(p, kubelet[p])
  BY DEF AInv, TypeInv, PodInv
<1>3. o \in DOMAIN kubelet[p].devices /\ kubelet[p].devices[o] = {kubelet[p].mount[o]}
  BY <1>1, <1>2 DEF PodOK, SInv, DeviceInv
<1>4. PICK first \in kubelet[p].devices[o] :
        Continue(t, [Idle EXCEPT !.pc = "locate", !.pod = p, !.class = o,
                                 !.devices = kubelet[p].devices[o], !.first = first])
  BY DEF CallPreStart
<1>5. PICK D : D = kubelet[p].devices[o]
  OBVIOUS
<1>6. PICK c : /\ c = [Idle EXCEPT !.pc = "locate", !.pod = p, !.class = o, !.devices = D,
                                   !.first = first]
               /\ call' = [call EXCEPT ![t] = c]
  BY <1>4, <1>5 DEF Continue
<1>7. ASSUME NEW l \in Calls,
             c = [l EXCEPT !.pc = "locate", !.pod = p, !.class = o, !.devices = D, !.first = first]
      PROVE  c.pc = "locate" /\ c.class = o /\ c.devices = D /\ c.first = first
  BY <1>7 DEF Calls
<1>8. c.pc = "locate" /\ c.class = o /\ c.devices = D /\ c.first = first
  BY <1>6, <1>7, Defaults
<1>9. /\ call'[t].pc = "locate" /\ call'[t].class = o
      /\ call'[t].devices = {call'[t].first} /\ call'[t].first = kubelet[p].mount[o]
      /\ \A u \in Call \ {t} : call'[u] = call[u]
  BY <1>2, <1>3, <1>4, <1>5, <1>6, <1>8
<1>10. ASSUME NEW u \in Call, Busy(u), call[u].class = o PROVE call[u].first # kubelet[p].mount[o]
  <2>1. call[u].first \in Late(o)
    BY <1>10 DEF Late, AInv, CallInv, CallOK, Busy
  <2> QED
    BY <2>1, <1>1, <1>3
<1>11. DeviceInv'
  BY <1>1 DEF SInv, DeviceInv
<1>12. HandlerInv'
  <2>1. \A u \in Call : Busy(u)' => call'[u].devices = {call'[u].first}
    BY <1>9 DEF SInv, HandlerInv, Busy
  <2>2. ASSUME NEW u \in Call, NEW v \in Call, Busy(u)', Busy(v)',
               call'[u].class = call'[v].class, call'[u].first = call'[v].first
        PROVE  u = v
    BY <2>2, <1>9, <1>10 DEF SInv, HandlerInv, Busy
  <2>3. \A u \in Call : call'[u].pc \in {"getpod", "populate"} =>
          \A q \in Pod :
            /\ call'[u].class \in DOMAIN kubelet'[q].devices
            /\ kubelet'[q].mount[call'[u].class] = call'[u].first
            => q = call'[u].located
    BY <1>1, <1>9 DEF SInv, HandlerInv
  <2> QED
    BY <2>1, <2>2, <2>3 DEF HandlerInv
<1>13. SettledInv'
  <2> SUFFICES ASSUME NEW q \in Pod, Active(q)', NEW r \in Req[q] \ kubelet'[q].todo
               PROVE  Settled(q, r)'
    BY DEF SettledInv
  <2>1. Active(q) /\ r \in Req[q] \ kubelet[q].todo
    BY <1>1 DEF Active
  <2>2. Settled(q, r) /\ PodOK(q, kubelet[q])
    BY <2>1 DEF SInv, SettledInv, AInv, PodInv
  <2>3. BoardOf(q)' = BoardOf(q) /\ r \in DOMAIN kubelet[q].devices
    <3>1. OnNode(q) /\ DOMAIN kubelet[q].devices = Req[q]
      BY <2>1, <2>2 DEF PodOK, Active
    <3> QED
      BY <3>1, <2>1, <1>1 DEF Stay
  <2>4. r = o => kubelet[q].mount[r] # kubelet[p].mount[o]
    BY <1>1, <1>3, <2>1, <2>3 DEF SInv, DeviceInv
  <2>5. \A u \in Call : ~(Busy(u)' /\ call'[u].class = r /\ call'[u].first = kubelet'[q].mount[r])
    BY <1>1, <1>9, <2>2, <2>4 DEF Settled, Busy
  <2> QED
    BY <1>1, <2>2, <2>3, <2>5 DEF Settled, VPath
<1> QED
  BY <1>11, <1>12, <1>13 DEF SInv

\* A handler finds its pod, or the pod's board.
LEMMA GoesOnSettles ==
  ASSUME AInv, SInv, NEW t \in Call, Locate(t) \/ GetPod(t), ~Returns(t, FALSE), ~Returns(t, TRUE)
  PROVE  SInv'
<1>1. UNCHANGED <<kubelet, file>> /\ Stay
  BY HandlerGoesOn, HandlerKeeps DEF PreStartContainer, Locate, GetPod
<1>2. PICK c \in Calls :
        /\ call' = [call EXCEPT ![t] = c]
        /\ c.class = call[t].class /\ c.devices = call[t].devices /\ c.first = call[t].first
        /\ \/ /\ At(t, "locate") /\ c.pc = "getpod"
              /\ c.located \in Matching(call[t].class, call[t].devices)
           \/ /\ At(t, "getpod") /\ c.pc = "populate" /\ c.located = call[t].located
  BY HandlerGoesOn
<1>3. call'[t] = c /\ Busy(t) /\ \A u \in Call \ {t} : call'[u] = call[u]
  BY <1>2 DEF AInv, TypeInv, At, Busy
<1>4. ASSUME NEW u \in Call
      PROVE  /\ Busy(u)' => Busy(u)
             /\ call'[u].class = call[u].class /\ call'[u].first = call[u].first
             /\ call'[u].devices = call[u].devices
  BY <1>2, <1>3 DEF Busy
<1>5. DeviceInv'
  BY <1>1 DEF SInv, DeviceInv
<1>6. HandlerInv'
  <2>1. ASSUME NEW u \in Call, call'[u].pc \in {"getpod", "populate"}, NEW q \in Pod,
               call'[u].class \in DOMAIN kubelet[q].devices,
               kubelet[q].mount[call'[u].class] = call'[u].first
        PROVE  q = call'[u].located
    <3>1. CASE u = t /\ At(t, "locate")
      <4> DEFINE r == c.located
      <4>1. /\ r \in Pod /\ call[t].class \in DOMAIN kubelet[r].devices
            /\ kubelet[r].devices[call[t].class] = call[t].devices
        BY <1>2, <3>1 DEF Matching, At
      <4> HIDE DEF r
      <4>2. call[t].devices = {call[t].first}
        BY <1>3 DEF SInv, HandlerInv
      <4>3. kubelet[r].mount[call[t].class] = call[t].first
        BY <4>1, <4>2 DEF SInv, DeviceInv
      <4>4. q = r
        BY <2>1, <3>1, <4>1, <4>3, <1>4 DEF SInv, DeviceInv
      <4> QED
        BY <4>4, <3>1, <1>3 DEF r
    <3>2. CASE ~(u = t /\ At(t, "locate"))
      <4>1. call[u].pc \in {"getpod", "populate"} /\ call'[u].located = call[u].located
        BY <2>1, <3>2, <1>2, <1>3 DEF At
      <4> QED
        BY <4>1, <2>1, <1>4 DEF SInv, HandlerInv
    <3> QED
      BY <3>1, <3>2
  <2>2. \A u \in Call : Busy(u)' => call'[u].devices = {call'[u].first}
    BY <1>4 DEF SInv, HandlerInv
  <2>3. ASSUME NEW u \in Call, NEW v \in Call, Busy(u)', Busy(v)',
               call'[u].class = call'[v].class, call'[u].first = call'[v].first
        PROVE  u = v
    BY <2>3, <1>4 DEF SInv, HandlerInv
  <2> QED
    BY <2>1, <2>2, <2>3, <1>1 DEF HandlerInv
<1>7. SettledInv'
  <2> SUFFICES ASSUME NEW q \in Pod, Active(q)', NEW r \in Req[q] \ kubelet'[q].todo
               PROVE  Settled(q, r)'
    BY DEF SettledInv
  <2>1. Active(q) /\ Settled(q, r) /\ PodOK(q, kubelet[q])
    BY <1>1 DEF SInv, SettledInv, Active, AInv, PodInv
  <2>2. OnNode(q)
    BY <2>1 DEF PodOK, Active
  <2>3. BoardOf(q)' = BoardOf(q)
    BY <2>2, <1>1 DEF Stay
  <2>4. \A u \in Call : ~(Busy(u)' /\ call'[u].class = r /\ call'[u].first = kubelet'[q].mount[r])
    BY <2>1, <1>1, <1>4 DEF Settled
  <2> QED
    BY <2>1, <2>3, <2>4, <1>1 DEF Settled, VPath
<1> QED
  BY <1>5, <1>6, <1>7 DEF SInv

\* A pod that asks for no orin is not located: GetPod does not return early.
LEMMA LocatedAsks ==
  ASSUME NamesUnique, AInv, NEW t \in Call, GetPod(t), ~Returns(t, FALSE)
  PROVE  ~Returns(t, TRUE)
<1> DEFINE pod == lister[NameOf[call[t].located]]
<1>1. call[t] \in Calls /\ CallOK(call[t]) /\ TypeInv
  BY DEF AInv, TypeInv, CallInv
<1>2. At(t, "getpod") /\ pod # NoPod
  BY DEF GetPod
<1>3. call[t].located \in Pod /\ call[t].class \in Req[call[t].located]
  BY <1>1, <1>2 DEF CallOK, At
<1>4. pod \in Pod /\ NameOf[pod] = NameOf[call[t].located]
  BY <1>1, <1>2, <1>3, NameAssumption DEF TypeInv
<1>5. Req[pod] # {}
  BY <1>3, <1>4 DEF NamesUnique
<1>6. call'[t].pc = "populate"
  <2>1. Continue(t, [call[t] EXCEPT !.pc = "populate", !.attrs = Attrs[BoardOf(pod)][call[t].class]])
    BY <1>5 DEF GetPod
  <2> HIDE DEF pod
  <2>2. PICK a : a = Attrs[BoardOf(pod)][call[t].class]
    OBVIOUS
  <2>3. PICK c : c = [call[t] EXCEPT !.pc = "populate", !.attrs = a] /\ call' = [call EXCEPT ![t] = c]
    BY <2>1, <2>2 DEF Continue
  <2>4. ASSUME NEW l \in Calls, c = [l EXCEPT !.pc = "populate", !.attrs = a]
        PROVE  c.pc = "populate"
    BY <2>4 DEF Calls
  <2>5. c.pc = "populate"
    BY <2>3, <2>4, <1>1
  <2> QED
    BY <2>3, <2>5, <1>1 DEF TypeInv
<1>7. Returns(t, TRUE) => call'[t].pc = "idle"
  BY <1>1, Defaults DEF Returns, Continue, TypeInv
<1> QED
  BY <1>6, <1>7

\* A write, complete or cut off: none but the pod of the handler reads it.
LEMMA WriteSettles ==
  ASSUME NamesUnique, AInv, SInv, NEW t \in Call, PopulateOrinAttr(t)
  PROVE  SInv'
<1> DEFINE path == VPath(call[t].class, call[t].first)
<1>1. /\ Stay /\ At(t, "populate") /\ Busy(t)
      /\ call \in [Call -> Calls] /\ \A q \in Pod : PodOK(q, kubelet[q])
  BY HandlerKeeps DEF PreStartContainer, PopulateOrinAttr, At, Busy, AInv, TypeInv, PodInv
<1>2. PICK ok \in BOOLEAN :
        /\ Returns(t, ok)
        /\ file' = [d \in DOMAIN file \cup {path} |->
                      IF d = path THEN IF ok THEN call[t].attrs ELSE Torn ELSE file[d]]
  <2>1. CASE Write(path, call[t].attrs) /\ Returns(t, TRUE)
    BY <2>1 DEF Write
  <2>2. CASE Write(path, Torn) /\ Returns(t, FALSE)
    BY <2>2 DEF Write
  <2> QED
    BY <2>1, <2>2 DEF PopulateOrinAttr
<1>3. /\ Todos /\ call' = [call EXCEPT ![t] = Idle]
      /\ \A q \in Pod :
           kubelet'[q].todo
             = IF q # call[t].pod THEN kubelet[q].todo
               ELSE IF ok THEN kubelet[q].todo \ {call[t].class} ELSE Req[q]
  BY <1>2, ReturnsEffect
<1>4. SameDevices
  BY <1>3 DEF Todos, SamePod, SameDevices
<1>5. call'[t].pc = "idle" /\ \A u \in Call \ {t} : call'[u] = call[u]
  BY <1>1, <1>3, Defaults
<1>6. \A u \in Call : SameWork(u)
  BY <1>5, SameWorkFrame DEF SameWork
<1>7. SettledInv'
  <2> SUFFICES ASSUME NEW q \in Pod, Active(q)', NEW o \in Req[q] \ kubelet'[q].todo
               PROVE  Settled(q, o)'
    BY DEF SettledInv
  <2>1. /\ Active(q) /\ kubelet'[q].mount = kubelet[q].mount
        /\ kubelet'[q].devices = kubelet[q].devices
    BY <1>3 DEF Active, Todos, SamePod
  <2>2. OnNode(q) /\ DOMAIN kubelet[q].devices = Req[q]
    BY <1>1, <2>1 DEF PodOK, Active
  <2>3. BoardOf(q)' = BoardOf(q)
    BY <2>2, <1>1 DEF Stay
  <2>4. CASE o \notin kubelet[q].todo
    <3>1. Settled(q, o)
      BY <2>1, <2>4 DEF SInv, SettledInv
    <3>2. VPath(o, kubelet[q].mount[o]) # path
      BY <3>1, <1>1 DEF Settled, VPath
    <3>3. \A u \in Call : ~(Busy(u)' /\ call'[u].class = o /\ call'[u].first = kubelet'[q].mount[o])
      BY <3>1, <1>5, <2>1 DEF Settled, Busy
    <3>4. VPath(o, kubelet[q].mount[o]) \in DOMAIN file
          /\ file[VPath(o, kubelet[q].mount[o])] = Attrs[BoardOf(q)][o] /\ BoardOf(q) \in Board
      BY <3>1 DEF Settled
    <3>5. VPath(o, kubelet[q].mount[o]) \in DOMAIN file'
          /\ file'[VPath(o, kubelet[q].mount[o])] = Attrs[BoardOf(q)][o]
      BY <3>2, <3>4, <1>2
    <3> QED
      BY <3>3, <3>4, <3>5, <2>1, <2>3 DEF Settled, VPath
  <2>5. CASE o \in kubelet[q].todo
    <3>1. ok /\ q = call[t].pod /\ o = call[t].class
      BY <2>5, <1>3
    <3>2. CallOK(call[t]) /\ call[t].pod # NoPod
      BY <3>1, NodePodAssumption DEF AInv, CallInv
    <3>3. kubelet[q].devices[o] = call[t].devices /\ call[t].devices = {call[t].first}
      BY <3>1, <3>2, <1>1 DEF CallOK, SInv, HandlerInv
    <3>4. kubelet[q].mount[o] = call[t].first
      BY <3>3, <2>2 DEF SInv, DeviceInv
    <3>5. q = call[t].located
      BY <3>1, <3>4, <2>2, <1>1 DEF At, SInv, HandlerInv
    <3>6. BoardOf(q) \in Board /\ call[t].attrs = Attrs[BoardOf(q)][o]
      BY <3>1, <3>2, <3>5, <1>1 DEF CallOK, At
    <3>7. ASSUME NEW u \in Call, Busy(u)', call'[u].class = o, call'[u].first = kubelet'[q].mount[o]
          PROVE  FALSE
      <4>1. u # t /\ Busy(u) /\ call[u].class = o /\ call[u].first = call[t].first
        BY <3>7, <3>4, <2>1, <1>5 DEF Busy
      <4> QED
        BY <4>1, <3>1, <1>1 DEF SInv, HandlerInv
    <3>8. path \in DOMAIN file' /\ file'[path] = call[t].attrs /\ path = VPath(o, kubelet[q].mount[o])
      BY <3>1, <3>4, <1>2 DEF VPath
    <3> QED
      BY <3>6, <3>7, <3>8, <2>1, <2>3 DEF Settled, VPath
  <2> QED
    BY <2>4, <2>5
<1> QED
  BY <1>4, <1>6, <1>7, DeviceFrame, HandlerInvFrame DEF SInv

\* The steps of a handler.
LEMMA HandlerSettles ==
  ASSUME NamesUnique, AInv, SInv, NEW t \in Call, PreStartContainer(t)
  PROVE  SInv'
<1>1. CASE PopulateOrinAttr(t)
  BY <1>1, WriteSettles
<1>2. CASE Locate(t) \/ GetPod(t)
  <2>1. Stay /\ UNCHANGED file
    BY <1>2, HandlerKeeps DEF PreStartContainer, Locate, GetPod
  <2>2. CASE Returns(t, FALSE)
    BY <2>1, <2>2, FailureSettles
  <2>3. CASE ~Returns(t, FALSE)
    <3>1. ~Returns(t, TRUE)
      <4>1. CASE GetPod(t)
        BY <4>1, <2>3, LocatedAsks
      <4>2. CASE Locate(t)
        <5>1. PICK q \in Matching(call[t].class, call[t].devices) :
                Continue(t, [call[t] EXCEPT !.pc = "getpod", !.located = q])
          BY <4>2, <2>3 DEF Locate
        <5>2. PICK c : /\ c = [call[t] EXCEPT !.pc = "getpod", !.located = q]
                       /\ call' = [call EXCEPT ![t] = c]
          BY <5>1 DEF Continue
        <5>3. ASSUME NEW l \in Calls, c = [l EXCEPT !.pc = "getpod", !.located = q]
              PROVE  c.pc = "getpod"
          BY <5>3 DEF Calls
        <5>4. call \in [Call -> Calls] /\ call[t] \in Calls
          BY DEF AInv, TypeInv
        <5>5. call'[t].pc = "getpod"
          BY <5>2, <5>3, <5>4
        <5>6. Returns(t, TRUE) => call'[t].pc = "idle"
          BY <5>4, Defaults DEF Returns, Continue
        <5> QED
          BY <5>5, <5>6
      <4> QED
        BY <1>2, <4>1, <4>2
    <3> QED
      BY <1>2, <2>3, <3>1, GoesOnSettles
  <2> QED
    BY <2>2, <2>3
<1> QED
  BY <1>1, <1>2 DEF PreStartContainer

\* A crash tears only what was about to be written.
LEMMA CrashSettles ==
  ASSUME AInv, SInv, Crash
  PROVE  SInv'
<1>1. Stay /\ \A q \in Pod : PodOK(q, kubelet[q])
  BY CrashKeeps DEF AInv, PodInv
<1>2. /\ Todos /\ call' = [t \in Call |-> Idle]
      /\ \A q \in Pod : kubelet'[q].todo = IF Calling(q) THEN Req[q] ELSE kubelet[q].todo
  BY CrashEffect
<1>3. SameDevices /\ \A t \in Call : call'[t].pc = "idle" /\ SameWork(t)
  BY <1>2, Defaults DEF Todos, SamePod, SameDevices, SameWork
<1>4. SettledInv'
  <2> DEFINE written == {VPath(call[t].class, call[t].first) : t \in {u \in Call : At(u, "populate")}}
  <2>1. PICK torn \in SUBSET written :
          file' = [d \in DOMAIN file \cup torn |-> IF d \in torn THEN Torn ELSE file[d]]
    BY DEF Crash
  <2> SUFFICES ASSUME NEW q \in Pod, Active(q)', NEW o \in Req[q] \ kubelet'[q].todo
               PROVE  Settled(q, o)'
    BY DEF SettledInv
  <2>2. Active(q) /\ kubelet'[q].mount = kubelet[q].mount /\ o \notin kubelet[q].todo
    BY <1>2 DEF Active, Todos, SamePod
  <2>3. Settled(q, o) /\ OnNode(q)
    BY <2>2, <1>1 DEF SInv, SettledInv, PodOK, Active
  <2>4. VPath(o, kubelet[q].mount[o]) \notin written
    BY <2>3 DEF Settled, VPath, At, Busy
  <2> HIDE DEF written
  <2>5. VPath(o, kubelet[q].mount[o]) \in DOMAIN file
        /\ file[VPath(o, kubelet[q].mount[o])] = Attrs[BoardOf(q)][o] /\ BoardOf(q) \in Board
    BY <2>3 DEF Settled
  <2>6. VPath(o, kubelet[q].mount[o]) \in DOMAIN file'
        /\ file'[VPath(o, kubelet[q].mount[o])] = Attrs[BoardOf(q)][o]
    BY <2>1, <2>4, <2>5
  <2>7. BoardOf(q)' = BoardOf(q)
    BY <2>3, <1>1 DEF Stay
  <2>8. \A u \in Call : ~(Busy(u)' /\ call'[u].class = o /\ call'[u].first = kubelet'[q].mount[o])
    BY <1>3 DEF Busy
  <2> QED
    BY <2>2, <2>5, <2>6, <2>7, <2>8 DEF Settled, VPath
<1> QED
  BY <1>3, <1>4, DeviceFrame, HandlerInvFrame DEF SInv

\* One device to a request: the set is a singleton.
LEMMA OneDevice ==
  ASSUME Count = 1, NEW o \in Class, NEW D \in FreeDevices(o), NEW d \in D
  PROVE  D = {d}
<1>1. D \subseteq Board /\ Cardinality(D) = 1
  BY FreeOffered, ConfigFacts
<1>2. IsFiniteSet(D)
  BY <1>1, ConfigAssumption, FS_Subset
<1>3. PICK x : D = {x}
  BY <1>1, <1>2, FS_Singleton
<1> QED
  BY <1>3

\* An admitted pod gets devices that no pod and no handler has.
LEMMA AdmitSettles ==
  ASSUME Prudent, AInv, SInv, NEW p \in Pod, Admit(p)
  PROVE  SInv'
<1> DEFINE Effect ==
      /\ kubelet'[p].st = "starting" /\ kubelet'[p].todo = Req[p]
      /\ DOMAIN kubelet'[p].devices = Req[p] /\ DOMAIN kubelet'[p].mount = Req[p]
      /\ \A o \in Req[p] : /\ kubelet'[p].devices[o] \in FreeDevices(o)
                           /\ kubelet'[p].mount[o] \in kubelet'[p].devices[o]
      /\ \A q \in Pod \ {p} :
           /\ kubelet'[q].st = kubelet[q].st /\ kubelet'[q].mount = kubelet[q].mount
           /\ kubelet'[q].todo = kubelet[q].todo
           /\ kubelet'[q].devices
                = IF kubelet[q].st = "stopped" THEN NotThere.devices ELSE kubelet[q].devices
<1>1. OnNode(p) /\ Effect /\ UNCHANGED <<placed, bare, call, file>>
  BY AdmitEffect DEF apiVars, agentVars, placementVars
<1>2. Stay
  BY <1>1, StayWhenSame
<1>3. /\ Prompt /\ Count = 1 /\ Req[p] \subseteq Class
      /\ \A q \in Pod : PodOK(q, kubelet[q])
  BY <1>1 DEF Prudent, AInv, PlacedInv, PodInv
<1>4. \A o \in Req[p] : kubelet'[p].devices[o] = {kubelet'[p].mount[o]}
  BY <1>1, <1>3, OneDevice
\* No other pod has it.
<1>5. ASSUME NEW q \in Pod \ {p}, NEW o \in Req[p], o \in DOMAIN kubelet'[q].devices
      PROVE  kubelet'[q].mount[o] # kubelet'[p].mount[o]
  <2>1. /\ kubelet[q].st # "stopped" /\ kubelet'[q].devices = kubelet[q].devices
        /\ kubelet'[q].mount = kubelet[q].mount
    BY <1>5, <1>1, Defaults
  <2>2. kubelet[q].mount[o] \in kubelet[q].devices[o]
    BY <1>5, <2>1, <1>3 DEF PodOK
  <2>3. kubelet[q].mount[o] \in Taken(o)
    BY <1>5, <2>1, <2>2 DEF Taken, Is
  <2>4. kubelet'[p].mount[o] \notin Taken(o)
    BY <1>1, FreeOffered
  <2> QED
    BY <2>1, <2>3, <2>4
\* No handler has it.
<1>6. ASSUME NEW t \in Call, Busy(t), NEW o \in Req[p], call[t].class = o
      PROVE  call[t].first # kubelet'[p].mount[o]
  <2>1. call[t].first \in Late(o)
    BY <1>6 DEF Late, AInv, CallInv, CallOK, Busy
  <2>2. kubelet'[p].mount[o] \notin Late(o)
    BY <1>1, <1>3, FreeOffered
  <2> QED
    BY <2>1, <2>2
<1>7. ASSUME NEW q \in Pod \ {p}
      PROVE  /\ kubelet'[q].mount = kubelet[q].mount
             /\ DOMAIN kubelet'[q].devices = {} \/ kubelet'[q].devices = kubelet[q].devices
  BY <1>1, Defaults
<1>8. DeviceInv'
  <2>1. ASSUME NEW q \in Pod, NEW o \in DOMAIN kubelet'[q].devices
        PROVE  kubelet'[q].devices[o] = {kubelet'[q].mount[o]}
    <3>1. CASE q = p
      BY <3>1, <2>1, <1>1, <1>4
    <3>2. CASE q # p
      BY <3>2, <2>1, <1>7 DEF SInv, DeviceInv
    <3> QED
      BY <3>1, <3>2
  <2>2. ASSUME NEW q \in Pod, NEW r \in Pod,
               NEW o \in DOMAIN kubelet'[q].devices \cap DOMAIN kubelet'[r].devices,
               kubelet'[q].mount[o] = kubelet'[r].mount[o]
        PROVE  q = r
    <3>1. CASE q = p
      BY <3>1, <2>2, <1>1, <1>5
    <3>2. CASE r = p
      BY <3>2, <2>2, <1>1, <1>5
    <3>3. CASE q # p /\ r # p
      BY <3>3, <2>2, <1>7 DEF SInv, DeviceInv
    <3> QED
      BY <3>1, <3>2, <3>3
  <2> QED
    BY <2>1, <2>2 DEF DeviceInv
<1>9. HandlerInv'
  <2>1. ASSUME NEW t \in Call, call[t].pc \in {"getpod", "populate"}, NEW q \in Pod,
               call[t].class \in DOMAIN kubelet'[q].devices,
               kubelet'[q].mount[call[t].class] = call[t].first
        PROVE  q = call[t].located
    <3>1. CASE q = p
      <4>1. Busy(t) /\ call[t].class \in Req[p]
        BY <3>1, <2>1, <1>1 DEF Busy
      <4> QED
        BY <4>1, <3>1, <2>1, <1>6
    <3>2. CASE q # p
      BY <3>2, <2>1, <1>7 DEF SInv, HandlerInv
    <3> QED
      BY <3>1, <3>2
  <2> QED
    BY <2>1, <1>1 DEF SInv, HandlerInv, Busy
<1>10. SettledInv'
  <2> SUFFICES ASSUME NEW q \in Pod, Active(q)', NEW o \in Req[q] \ kubelet'[q].todo
               PROVE  Settled(q, o)'
    BY DEF SettledInv
  <2>1. q # p
    BY <1>1
  <2>2. /\ Active(q) /\ kubelet'[q].mount = kubelet[q].mount
        /\ kubelet'[q].todo = kubelet[q].todo
    BY <2>1, <1>1 DEF Active
  <2>3. Settled(q, o) /\ OnNode(q)
    BY <2>2, <1>3 DEF SInv, SettledInv, PodOK, Active
  <2>4. BoardOf(q)' = BoardOf(q)
    BY <2>3, <1>2 DEF Stay
  <2> QED
    BY <2>2, <2>3, <2>4, <1>1 DEF Settled, VPath, Busy
<1> QED
  BY <1>8, <1>9, <1>10 DEF SInv

-----------------------------------------------------------------------------
\* No pod, no handler, no file.
LEMMA SInvInit == Init => SInv
<1> SUFFICES ASSUME Init PROVE SInv
  OBVIOUS
<1>1. /\ \A t \in Call : ~Busy(t) /\ call[t].pc = "idle"
      /\ \A p \in Pod : DOMAIN kubelet[p].devices = {} /\ ~Active(p)
  BY Defaults DEF Init, Busy, Active
<1> QED
  BY <1>1 DEF SInv, DeviceInv, HandlerInv, SettledInv

\* The disjuncts of Next, one lemma each.
LEMMA SInvNext ==
  ASSUME Prudent, AInv, SInv, Next
  PROVE  SInv'
<1>1. Stay /\ NamesUnique
  BY AInvNext DEF Prudent
<1>2. ASSUME NEW p \in Pod, PodPlaced(p) \/ PodBoundElsewise(p) \/ PodDeleted(p) \/ PodRemoved(p)
      PROVE  SInv'
  <2>1. UNCHANGED <<call, kubelet, file>>
    BY <1>2 DEF PodPlaced, PodBoundElsewise, PodDeleted, PodRemoved, agentVars
  <2> QED
    BY <2>1, <1>1, QuietSettles
<1>3. ASSUME NEW p \in Pod, KubeletStep(p) PROVE SInv'
  <2>1. CASE Admit(p)
    BY <2>1, AdmitSettles
  <2>2. CASE Reject(p) \/ StartContainer(p)
    BY <2>2, ContainerSettles
  <2>3. CASE \E o \in Req[p], t \in Free : CallPreStart(p, o, t)
    <3>1. Free \subseteq Call /\ Prompt
      BY DEF Free, Prudent
    <3> QED
      BY <2>3, <3>1, CallSettles
  <2> QED
    BY <1>3, <2>1, <2>2, <2>3 DEF KubeletStep
<1>4. ASSUME NEW p \in Pod, ContainerRestarts(p) \/ Stop(p) PROVE SInv'
  BY <1>4, ContainerSettles
<1>5. ASSUME NEW t \in Call, PreStartContainer(t) \/ GiveUp(t) PROVE SInv'
  BY <1>1, <1>5, HandlerSettles, GiveUpSettles
<1>6. CASE Sync \/ StartAgent
  <2>1. UNCHANGED <<call, kubelet, file>>
    BY <1>6 DEF Sync, StartAgent
  <2> QED
    BY <2>1, <1>1, QuietSettles
<1>7. CASE Crash
  BY <1>7, CrashSettles
<1> QED
  BY <1>2, <1>3, <1>4, <1>5, <1>6, <1>7 DEF Next

(***************************************************************************)
(* A running container reads the attributes of its own board under every   *)
(* orin it asked for, whichever board's devices the kubelet chose, however *)
(* the lister lags, and after failed calls, torn writes and crashes        *)
(* (orin.go:119-196): a container is started only when each of its classes *)
(* has been written, and until it stops no handler is left for them.       *)
(***************************************************************************)
THEOREM SeesOwnBoardHolds ==
  ASSUME Prompt, Count = 1, NamesUnique
  PROVE  Spec => []SeesOwnBoard
<1>1. Prudent
  BY DEF Prudent
<1>2. SInv /\ AInv /\ [Next]_vars => SInv'
  <2>1. ASSUME SInv, AInv, UNCHANGED vars PROVE SInv'
    BY <2>1, AInvStutter, QuietSettles DEF vars, agentVars
  <2> QED
    BY <1>1, <2>1, SInvNext
<1>3. ASSUME AInv, SInv PROVE SeesOwnBoard
  <2> SUFFICES ASSUME NEW p \in Pod, Running(p), NEW o \in Req[p]
               PROVE  BoardOf(p) \in Board /\ Sees(p, o) = Attrs[BoardOf(p)][o]
    BY DEF SeesOwnBoard
  <2>1. Active(p) /\ o \notin kubelet[p].todo
    BY <1>3 DEF Running, Is, Active, AInv, PodInv, PodOK
  <2>2. Settled(p, o)
    BY <1>3, <2>1 DEF SInv, SettledInv
  <2> QED
    BY <2>2 DEF Settled, Sees
<1> QED
  BY <1>2, <1>3, SInvInit, AInvHolds, PTL DEF Spec

-----------------------------------------------------------------------------
(* The pods of a node are placed by the scheduler *)

\* Only the scheduler, and the end of a pod, touch its placement.
LEMMA StepsPlace ==
  ASSUME AInv, [Next]_vars
  PROVE  [PlacementNext]_placementVars
<1>1. ASSUME NEW p \in Pod, PodPlaced(p) PROVE PlacementNext
  <2> DEFINE total == TotalOf(capacity)
  <2>1. PICK n \in Node, b \in DOMAIN total : Place(p, n, b)
    BY <1>1 DEF PodPlaced
  <2>2. b \in Board
    BY ReportedBoards DEF AInv, TypeInv
  <2> QED
    BY <2>1, <2>2 DEF PlacementNext
<1>2. ASSUME NEW p \in Pod, PodDeleted(p) \/ Reject(p) PROVE PlacementNext
  BY <1>2 DEF PodDeleted, Reject, PlacementNext
<1>3. ASSUME NEW p \in Pod, Stop(p) PROVE PlacementNext \/ UNCHANGED placementVars
  BY <1>3 DEF Stop, PlacementNext
<1>4. ASSUME NEW p \in Pod,
             \/ PodBoundElsewise(p) \/ PodRemoved(p) \/ Admit(p) \/ StartContainer(p)
             \/ \E o \in Req[p], t \in Free : CallPreStart(p, o, t)
             \/ ContainerRestarts(p)
      PROVE  UNCHANGED placementVars
  BY <1>4 DEF PodBoundElsewise, PodRemoved, Admit, StartContainer, CallPreStart, ContainerRestarts,
              apiVars
<1>5. ASSUME NEW t \in Call, PreStartContainer(t) \/ GiveUp(t) PROVE UNCHANGED placementVars
  BY <1>5 DEF PreStartContainer, Locate, GetPod, PopulateOrinAttr, GiveUp, apiVars
<1>6. CASE Sync \/ StartAgent \/ Crash
  BY <1>6 DEF Sync, StartAgent, Crash, apiVars
<1>7. CASE UNCHANGED vars
  BY <1>7 DEF vars, apiVars
<1>8. CASE Next
  BY <1>8, <1>1, <1>2, <1>3, <1>4, <1>5, <1>6 DEF Next, KubeletStep
<1> QED
  BY <1>7, <1>8

(***************************************************************************)
(* Whatever the device plugin, the kubelet and the pods of a node do, the  *)
(* pods are placed as Placement says: the device plugin only reads what    *)
(* the scheduler has written into the annotation (orin.go:165-171).        *)
(***************************************************************************)
THEOREM AgentPlaces == Spec => PlacementSpec
<1>1. Init => PlacementInit
  BY DEF Init
<1>2. AInv /\ [Next]_vars => [PlacementNext]_placementVars
  BY StepsPlace
<1> QED
  BY <1>1, <1>2, AInvHolds, PTL DEF Spec, PlacementSpec

(***************************************************************************)
(* No two containers of live pods read the same orin: both read the        *)
(* attributes of their own boards, and on one board their requests have    *)
(* nothing in common (orin.go:160, 185; manager.go:156-178).               *)
(***************************************************************************)
THEOREM OrinsNotSharedHolds ==
  ASSUME Prompt, Count = 1, NamesUnique, ReportInventsNothing, AttrsDiffer
  PROVE  Spec => []OrinsNotShared
<1>1. ASSUME AInv, SeesOwnBoard, Apart PROVE OrinsNotShared
  <2> SUFFICES ASSUME NEW p \in Pod \ ended, NEW q \in Pod \ ended, p # q, Running(p), Running(q),
                      NEW o \in Req[p], NEW r \in Req[q], Sees(p, o) = Sees(q, r)
               PROVE  FALSE
    BY DEF OrinsNotShared
  <2>1. /\ BoardOf(p) \in Board /\ Sees(p, o) = Attrs[BoardOf(p)][o]
        /\ BoardOf(q) \in Board /\ Sees(q, r) = Attrs[BoardOf(q)][r]
    BY <1>1 DEF SeesOwnBoard
  <2>2. /\ placed[p] # NoPlace /\ BoardOf(p) = placed[p][2]
        /\ placed[q] # NoPlace /\ BoardOf(q) = placed[q][2]
    BY <1>1, <2>1, BoardsOfPods, NodePodAssumption DEF AInv
  <2>3. /\ o \in GetBoardOrins(Config, BoardOf(p)) /\ o \in Class
        /\ r \in GetBoardOrins(Config, BoardOf(q)) /\ r \in Class
    BY <1>1, <2>1, <2>2, ConfigFacts DEF AInv, PlacedInv
  <2>4. GetOrinAttrs(Config, BoardOf(p), o) = GetOrinAttrs(Config, BoardOf(q), r)
    BY <2>1, <2>3 DEF Attrs
  <2>5. BoardOf(p) = BoardOf(q) /\ o = r
    BY <2>1, <2>3, <2>4 DEF AttrsDiffer
  <2>6. placed[p] \in Node \X Board /\ placed[q] \in Node \X Board
    BY <1>1, <2>2 DEF AInv, TypeInv, PlacementTypeOK
  <2>7. PICK n \in Node, b \in Board : placed[p] = <<n, b>> /\ placed[q] = <<n, b>>
    <3>1. PICK n \in Node, b \in Board : placed[p] = <<n, b>>
      BY <2>6
    <3>2. PICK m \in Node, c \in Board : placed[q] = <<m, c>>
      BY <2>6
    <3>3. m = n /\ c = b
      BY <3>1, <3>2, <2>2, <2>5, NodeAssumption
    <3> QED
      BY <3>1, <3>2, <3>3
  <2>8. p \in Holders(n, b) /\ q \in Holders(n, b)
    BY <2>7 DEF Holders
  <2> QED
    BY <1>1, <2>5, <2>8 DEF Apart
<1>2. Spec => [](PlacementTypeOK /\ Apart)
  BY AgentPlaces, PlacementKeepsApart
<1>3. Spec => []SeesOwnBoard
  BY SeesOwnBoardHolds
<1> QED
  BY <1>1, <1>2, <1>3, AInvHolds, PTL
=============================================================================
