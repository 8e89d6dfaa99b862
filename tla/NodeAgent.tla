------------------------------ MODULE NodeAgent ------------------------------
(***************************************************************************)
(* The device plugin of one node, from the placement of a pod to the       *)
(* config.json its container finds: Allocate and PreStartContainer         *)
(* (src/pkg/device/plugin/orin.go), Locate with its sticky error           *)
(* (kubeapis/locator.go), the pod lister (kubeapis/sitter.go) and the      *)
(* start of the process (cmd/deviceplugin).                                *)
(*                                                                         *)
(* The scheduler is Placement.  The kubelet (external) gives a pod any     *)
(* free devices of the classes it asks for, whose board need not be the    *)
(* pod's; it calls Allocate once, and PreStartContainer for one class      *)
(* after the other before each start of the container; a call that fails   *)
(* is made again.  PreStartContainer only gets device IDs: it asks the     *)
(* kubelet which pod has them, looks the pod up by name, and writes the    *)
(* attributes of that pod's board into the directory that Allocate had     *)
(* mounted.  Pods have one container each.                                 *)
(***************************************************************************)
EXTENDS Placement, NodeReport

CONSTANTS Name, NameOf,   \* NameOf[p]: namespace and name of pod p
          NoPod, NoBoard,
          Config,         \* the configuration file of the node
          Count,          \* devices of a class in a request, 1 in the code
          Torn,           \* a config.json that was not written to its end
          Call,           \* goroutines that can handle a PreStartContainer
          Prompt,         \* TRUE: a call the kubelet has given up returns before it
                          \* is made again or its device is given to another pod
          MaxTroubles     \* bound: calls and writes that fail or are given up,
                          \* crashes of the device plugin, restarts of containers,
                          \* pods that do not ask for the extender

ASSUME NameAssumption == NameOf \in [Pod -> Name]
ASSUME NodePodAssumption == NoPod \notin Pod /\ NoBoard \notin Board
ASSUME CountAssumption == Count \in Nat \ {0}
ASSUME ConfigAssumption == GetBoards(Config) \subseteq Board /\ IsFiniteSet(Board)

\* There is one node, the one the device plugin runs on.
ASSUME NodeAssumption == \A m, n \in Node : m = n

VARIABLES removed,    \* the pods whose object is gone from the API server
          bare,       \* the pods on this node that did not ask for the extender
          capacity,   \* the capacity the node reports
          up,         \* the device plugin runs and is registered
          lister,     \* its pod lister: the pod it shows under a name
          err,        \* the classes whose locator has an error
          call,       \* the handlers of PreStartContainer
          kubelet,    \* what the kubelet knows of each pod
          file,       \* the content of config.json by directory
          troubles

apiVars == <<placementVars, removed, bare, capacity>>
agentVars == <<up, lister, err, call, file>>
vars == <<apiVars, agentVars, kubelet, troubles>>

Class == DOMAIN GetOrinClasses(Config)

\* The devices the class o offers, one for each board.
Offered == [o \in Class |-> Devices(Config, o)]

\* What PreStartContainer writes for the orin o of the board b.
Attrs == [b \in Board |-> [o \in Class |-> GetOrinAttrs(Config, b, o)]]

NotThere == [st |-> "none", devices |-> [o \in {} |-> {}], mount |-> [o \in {} |-> NoBoard],
             todo |-> {}]

Idle == [pc |-> "idle", pod |-> NoPod, class |-> 0, devices |-> {}, first |-> NoBoard,
         located |-> NoPod, attrs |-> NoAttr]

\* Before the first start of the device plugin nothing is reported.
Init ==
  /\ PlacementInit
  /\ removed = {} /\ bare = {}
  /\ capacity = [b \in {} |-> 0]
  /\ up = FALSE
  /\ lister = [n \in Name |-> NoPod]
  /\ err = {}
  /\ call = [t \in Call |-> Idle]
  /\ kubelet = [p \in Pod |-> NotThere]
  /\ file = [d \in {} |-> NoAttr]
  /\ troubles = 0

OnNode(p) == placed[p] # NoPlace \/ p \in bare
BoardOf(p) == IF placed[p] # NoPlace THEN placed[p][2] ELSE NoBoard

Continue(t, c) == call' = [call EXCEPT ![t] = c]
At(t, pc) == call[t].pc = pc
Set(p, k) == kubelet' = [kubelet EXCEPT ![p] = k]
Is(p, st) == kubelet[p].st = st

Trouble == troubles < MaxTroubles /\ troubles' = troubles + 1

-----------------------------------------------------------------------------
(* The cluster *)

\* kube-scheduler counts the devices of a class; a pod that is being deleted
\* holds its devices until its object is gone.
HasRoom(p) ==
  \A o \in Req[p] :
    /\ o \in Class
    /\ Cardinality(Offered[o])
      >= Count * (1 + Cardinality({q \in Pod \ removed : OnNode(q) /\ o \in Req[q]}))

\* Two pods of one name are never at the API server at the same time.
NameFree(p) == \A q \in Pod \ removed : OnNode(q) => NameOf[q] # NameOf[p]

\* The scheduler offers what it believes the node to have.
PodPlaced(p) ==
  /\ p \notin ended /\ ~OnNode(p) /\ HasRoom(p) /\ NameFree(p)
  /\ LET total == TotalOf(capacity) IN
     \E n \in Node, b \in DOMAIN total : Req[p] \subseteq total[b] /\ Place(p, n, b)
  /\ UNCHANGED <<removed, bare, capacity, agentVars, kubelet, troubles>>

\* A pod that does not ask for superedge.io/device-board is bound without the
\* extender, and has no annotation.
PodBoundElsewise(p) ==
  /\ p \notin ended /\ ~OnNode(p) /\ DOMAIN capacity # {} /\ HasRoom(p) /\ NameFree(p)
  /\ Trouble
  /\ bare' = bare \cup {p}
  /\ UNCHANGED <<placementVars, removed, capacity, agentVars, kubelet>>

\* The deletion timestamp is set: the scheduler takes the pod for completed
\* (controller.go:484), though its container may run on for a while.
PodDeleted(p) ==
  /\ OnNode(p) /\ ~Is(p, "stopped") /\ End(p)
  /\ UNCHANGED <<removed, bare, capacity, agentVars, kubelet, troubles>>

\* The kubelet reports that the containers have stopped, and the object goes.
PodRemoved(p) ==
  /\ p \in ended \ removed /\ (Is(p, "stopped") \/ Is(p, "none"))
  /\ removed' = removed \cup {p}
  /\ UNCHANGED <<placementVars, bare, capacity, agentVars, kubelet, troubles>>

-----------------------------------------------------------------------------
(* The kubelet *)

\* Devices of a class that no pod has.  Those of a stopped pod are taken back
\* when another pod is admitted.
Taken(o) ==
  UNION {kubelet[q].devices[o] :
           q \in {r \in Pod : ~Is(r, "stopped") /\ o \in DOMAIN kubelet[r].devices}}

Late(o) == UNION {call[t].devices : t \in {u \in Call : call[u].class = o}}

FreeDevices(o) ==
  {D \in SUBSET (Offered[o] \ Taken(o)) :
     Cardinality(D) = Count /\ (Prompt => D \cap Late(o) = {})}

\* Mutant: the directory is that of the class.
VPathOfClass(o, d) == <<o, o>>

\* The directory of a device: HostVitualPath, the class, the first device ID.
VPath(o, d) == <<o, d>>

\* Allocate answers with one mount, for the first of the device IDs.  Their
\* order differs from call to call.
Admit(p) ==
  /\ OnNode(p) /\ p \notin ended /\ Is(p, "none") /\ up
  /\ \E devices \in [Req[p] -> UNION {FreeDevices(o) : o \in Req[p]}] :
       /\ \A o \in Req[p] : devices[o] \in FreeDevices(o)
       /\ \E mount \in [Req[p] -> Board] :
            /\ \A o \in Req[p] : mount[o] \in devices[o]
            /\ kubelet' = [q \in Pod |->
                 IF q = p THEN [st |-> "starting", devices |-> devices, mount |-> mount, todo |-> Req[p]]
                 ELSE IF Is(q, "stopped") THEN [kubelet[q] EXCEPT !.devices = NotThere.devices]
                 ELSE kubelet[q]]
  /\ UNCHANGED <<apiVars, agentVars, troubles>>

\* Without the device plugin the pod fails at its admission.
Reject(p) ==
  /\ OnNode(p) /\ Is(p, "none") /\ ~up /\ End(p)
  /\ Set(p, [NotThere EXCEPT !.st = "stopped"])
  /\ UNCHANGED <<removed, bare, capacity, agentVars, troubles>>

Calling(p) == \E t \in Call : call[t].pod = p

CallPreStart(p, o, t) ==
  /\ Is(p, "starting") /\ p \notin ended /\ o \in kubelet[p].todo /\ up
  /\ ~Calling(p) /\ At(t, "idle")
  /\ Prompt => kubelet[p].devices[o] \cap Late(o) = {}
  /\ \E first \in kubelet[p].devices[o] :
       Continue(t, [Idle EXCEPT !.pc = "locate", !.pod = p, !.class = o,
                                !.devices = kubelet[p].devices[o], !.first = first])
  /\ UNCHANGED <<apiVars, up, lister, err, file, kubelet, troubles>>

\* The start of the container is tried again from the first class on.
StartOver(p) ==
  IF p = NoPod THEN UNCHANGED kubelet ELSE Set(p, [kubelet[p] EXCEPT !.todo = Req[p]])

\* The call's deadline passes; the handler does not look at its context.
GiveUp(t) ==
  /\ call[t].pod # NoPod
  /\ Trouble
  /\ Continue(t, [call[t] EXCEPT !.pod = NoPod])
  /\ StartOver(call[t].pod)
  /\ UNCHANGED <<apiVars, up, lister, err, file>>

StartContainer(p) ==
  /\ Is(p, "starting") /\ p \notin ended /\ kubelet[p].todo = {} /\ ~Calling(p)
  /\ Set(p, [kubelet[p] EXCEPT !.st = "running"])
  /\ UNCHANGED <<apiVars, agentVars, troubles>>

ContainerRestarts(p) ==
  /\ Is(p, "running") /\ p \notin ended
  /\ Trouble
  /\ Set(p, [kubelet[p] EXCEPT !.st = "starting", !.todo = Req[p]])
  /\ UNCHANGED <<apiVars, agentVars>>

\* The container of a deleted pod is stopped, or ends, or a pod completes.
Stop(p) ==
  /\ kubelet[p].st \in {"starting", "running"} /\ ~Calling(p)
  /\ IF p \in ended THEN UNCHANGED placementVars ELSE End(p)
  /\ Set(p, [kubelet[p] EXCEPT !.st = "stopped", !.todo = {}])
  /\ UNCHANGED <<removed, bare, capacity, agentVars, troubles>>

\* It does not matter which goroutine handles a call.
Free == LET idle == {t \in Call : At(t, "idle")} IN IF idle = {} THEN {} ELSE {CHOOSE t \in idle : TRUE}

KubeletStep(p) ==
  \/ Admit(p) \/ Reject(p) \/ StartContainer(p)
  \/ \E o \in Req[p], t \in Free : CallPreStart(p, o, t)

-----------------------------------------------------------------------------
(* PreStartContainer *)

\* Mutant: the first container with a device of the class is taken.
MatchingClass(o, devices) == {q \in Pod : o \in DOMAIN kubelet[q].devices}

\* The pods the kubelet lists with exactly these devices of the class.
Matching(o, devices) ==
  {q \in Pod : o \in DOMAIN kubelet[q].devices /\ kubelet[q].devices[o] = devices}

Returns(t, ok) ==
  /\ Continue(t, Idle)
  /\ IF call[t].pod # NoPod /\ ok
     THEN Set(call[t].pod, [kubelet[call[t].pod] EXCEPT !.todo = @ \ {call[t].class}])
     ELSE StartOver(call[t].pod)

\* Mutant: an error of List stays with the locator.
LocateWithoutRedial(t) ==
  LET c == call[t] IN
  /\ At(t, "locate")
  /\ \/ c.class \notin err /\ \E q \in Matching(c.class, c.devices) :
          Continue(t, [c EXCEPT !.pc = "getpod", !.located = q]) /\ UNCHANGED <<err, kubelet, troubles>>
     \/ Trouble /\ err' = err \cup {c.class} /\ Returns(t, FALSE)
     \/ c.class \in err /\ Returns(t, FALSE) /\ UNCHANGED <<err, troubles>>
  /\ UNCHANGED <<apiVars, up, lister, file>>

\* Under the locator's lock: an old error makes it dial again, which does not
\* wait for the connection and cannot fail; List may fail.
Locate(t) ==
  LET c == call[t] IN
  /\ At(t, "locate")
  /\ \/ /\ err' = err \ {c.class}
        /\ UNCHANGED troubles
        /\ IF Matching(c.class, c.devices) = {}
           THEN Returns(t, FALSE)
           ELSE /\ \E q \in Matching(c.class, c.devices) :
                     Continue(t, [c EXCEPT !.pc = "getpod", !.located = q])
                /\ UNCHANGED kubelet
     \/ Trouble /\ err' = err \cup {c.class} /\ Returns(t, FALSE)
  /\ UNCHANGED <<apiVars, up, lister, file>>

\* The pod of the lister has the name of the one located.  Its board must be
\* in its annotation, and it must ask for orins.
GetPod(t) ==
  LET c == call[t]
      pod == lister[NameOf[c.located]]
  IN
  /\ At(t, "getpod")
  /\ IF pod = NoPod \/ BoardOf(pod) = NoBoard
     THEN Returns(t, FALSE)
     ELSE IF Req[pod] = {}
     THEN Returns(t, TRUE)
     ELSE /\ Continue(t, [c EXCEPT !.pc = "populate", !.attrs = Attrs[BoardOf(pod)][c.class]])
          /\ UNCHANGED kubelet
  /\ UNCHANGED <<apiVars, up, lister, err, file, troubles>>

Write(path, content) ==
  file' = [d \in DOMAIN file \cup {path} |-> IF d = path THEN content ELSE file[d]]

\* WriteFile empties the file before it fills it.
PopulateOrinAttr(t) ==
  LET c == call[t] IN
  /\ At(t, "populate")
  /\ \/ /\ Write(VPath(c.class, c.first), c.attrs)
        /\ Returns(t, TRUE)
        /\ UNCHANGED troubles
     \/ /\ Trouble
        /\ Write(VPath(c.class, c.first), Torn)
        /\ Returns(t, FALSE)
  /\ UNCHANGED <<apiVars, up, lister, err>>

PreStartContainer(t) == Locate(t) \/ GetPod(t) \/ PopulateOrinAttr(t)

-----------------------------------------------------------------------------
(* The process *)

\* What a lister shows that has caught up: the pods bound to this node.
Current ==
  [n \in Name |->
     LET pods == {p \in Pod \ removed : OnNode(p) /\ NameOf[p] = n}
     IN  IF pods = {} THEN NoPod ELSE CHOOSE p \in pods : TRUE]

Sync ==
  /\ up /\ lister # Current
  /\ lister' = Current
  /\ UNCHANGED <<apiVars, up, err, call, file, kubelet, troubles>>

\* main: sync the lister, read the file, make the locators and the servers,
\* patch the node, register.
StartAgent ==
  /\ ~up
  /\ up' = TRUE
  /\ lister' = Current
  /\ err' = {}
  /\ \E beyond \in Beyond : capacity' = patchNodeExtraResource(Config, beyond)
  /\ UNCHANGED <<placementVars, removed, bare, call, file, kubelet, troubles>>

\* The kubelet's calls fail; a file may be left half written.
Crash ==
  /\ up /\ Trouble
  /\ up' = FALSE
  /\ call' = [t \in Call |-> Idle]
  /\ kubelet' = [p \in Pod |-> IF Calling(p) THEN [kubelet[p] EXCEPT !.todo = Req[p]] ELSE kubelet[p]]
  /\ \E torn \in SUBSET {VPath(call[t].class, call[t].first) : t \in {u \in Call : At(u, "populate")}} :
       file' = [d \in DOMAIN file \cup torn |-> IF d \in torn THEN Torn ELSE file[d]]
  /\ UNCHANGED <<apiVars, lister, err>>

Next ==
  \/ \E p \in Pod :
       \/ PodPlaced(p) \/ PodBoundElsewise(p) \/ PodDeleted(p) \/ PodRemoved(p)
       \/ KubeletStep(p) \/ ContainerRestarts(p) \/ Stop(p)
  \/ \E t \in Call : PreStartContainer(t) \/ GiveUp(t)
  \/ Sync \/ StartAgent \/ Crash

Spec ==
  /\ Init /\ [][Next]_vars
  /\ \A p \in Pod : WF_vars(KubeletStep(p))
  /\ \A t \in Call : WF_vars(PreStartContainer(t))
  /\ WF_vars(Sync) /\ WF_vars(StartAgent)

-----------------------------------------------------------------------------
Running(p) == Is(p, "running")

\* What the container of p reads under the class o, if anything.
Sees(p, o) ==
  LET path == VPath(o, kubelet[p].mount[o]) IN IF path \in DOMAIN file THEN file[path] ELSE NoAttr

AgentTypeOK ==
  /\ removed \subseteq ended /\ bare \subseteq {p \in Pod : placed[p] = NoPlace}
  /\ err \subseteq Class
  /\ \A n \in Name : lister[n] # NoPod => NameOf[lister[n]] = n
  /\ \A p \in Pod :
       /\ kubelet[p].st \in {"none", "starting", "running", "stopped"}
       /\ kubelet[p].todo \subseteq Req[p]
       /\ \A o \in DOMAIN kubelet[p].devices : kubelet[p].devices[o] \subseteq Offered[o]
  /\ \A t \in Call : At(t, "populate") => call[t].attrs # NoAttr

(***************************************************************************)
(* README.md:7 of the repository: the scheduling results are injected into *)
(* the pods.  A running container reads, for every orin it asked for, the  *)
(* attributes that the configuration gives for the board its pod was       *)
(* placed on, although the devices the kubelet chose may be of another     *)
(* board, the lister lags, calls and writes fail half way and the device   *)
(* plugin crashes (orin.go:119-196).                                       *)
(***************************************************************************)
SeesOwnBoard ==
  \A p \in Pod : Running(p) =>
    \A o \in Req[p] : BoardOf(p) \in Board /\ Sees(p, o) = Attrs[BoardOf(p)][o]

(***************************************************************************)
(* No two containers of live pods are given the same orin: the scheduler   *)
(* keeps live pods apart (Placement), and the directories of the devices   *)
(* keep their files apart (orin.go:160, 185).  The container of a pod that *)
(* is being deleted may run on beside the next owner of its orins, as      *)
(* controller.go:484 takes the deletion timestamp for the end.             *)
(***************************************************************************)
OrinsNotShared ==
  \A p, q \in Pod \ ended :
    p # q /\ Running(p) /\ Running(q)
      => {Sees(p, o) : o \in Req[p]} \cap {Sees(q, o) : o \in Req[q]} = {}

(***************************************************************************)
(* A pod placed by the extender gets its containers started: an error of   *)
(* the kubelet's List (locator.go:57), a lister that does not show the pod *)
(* yet, a failed write or a crash is made up for by a later call.          *)
(***************************************************************************)
PodStarts ==
  \A p \in Pod :
    Is(p, "starting") /\ p \notin bare ~> Running(p) \/ p \in ended
=============================================================================
