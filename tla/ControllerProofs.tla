-------------------------- MODULE ControllerProofs --------------------------
(***************************************************************************)
(* No pod is in two workers at once (controller.go:43-46), for every       *)
(* number of workers and pods and whatever handlers and informer do.       *)
(*                                                                         *)
(* OneWorkerPerPod is not inductive: that the head of the queue is in no   *)
(* worker depends on how its three sets fit together (QueueInv).           *)
(***************************************************************************)
EXTENDS Controller, SequenceTheorems, TLAPS

WorkerPlaces == {"free", "sync", "release", "assign", "list", "addNode", "add"}

Runs == [pc : WorkerPlaces, pods : PodsWith(Annotation)]

BoardOK ==
  /\ board \in [Pod -> Board \cup {NoBoard}]
  /\ choice \in [Pod -> Board \cup {NoBoard}]

Distinct(q) == \A i, j \in 1..Len(q) : q[i] = q[j] => i = j

\* What is queued is dirty, once, and not being processed; what a worker has is
\* being processed.
QueueInv ==
  /\ worker \in [Worker -> [pod : processing \cup {NoBoard}, run : Runs]]
  /\ \A w \in Worker : IF At(w, "free") THEN worker[w].pod = NoBoard
                       ELSE worker[w].pod \in processing
  /\ queue \in Seq(dirty) /\ Distinct(queue)
  /\ \A i \in 1..Len(queue) : queue[i] \notin processing

WorkersInv == BoardOK /\ QueueInv /\ OneWorkerPerPod

-----------------------------------------------------------------------------
\* A sequence is one over any set that has its elements.
LEMMA SeqRetyped ==
  ASSUME NEW S, NEW T, NEW q \in Seq(S), \A i \in 1..Len(q) : q[i] \in T
  PROVE  q \in Seq(T)
<1>1. Len(q) \in Nat /\ q \in [1..Len(q) -> S]
  BY LenProperties
<1>2. q \in [1..Len(q) -> T]
  BY <1>1
<1> QED
  BY <1>1, <1>2, SeqDef

\* A key that is not in the queue goes to its end.
LEMMA AppendDistinct ==
  ASSUME NEW S, NEW q \in Seq(S), NEW p, Distinct(q), \A i \in 1..Len(q) : q[i] # p
  PROVE  /\ Append(q, p) \in Seq(S \cup {p})
         /\ Distinct(Append(q, p))
         /\ \A i \in 1..Len(Append(q, p)) :
              Append(q, p)[i] = p \/ \E j \in 1..Len(q) : Append(q, p)[i] = q[j]
<1>1. q \in Seq(S \cup {p})
  OBVIOUS
<1>2. /\ Append(q, p) \in Seq(S \cup {p})
      /\ Len(Append(q, p)) = Len(q) + 1
      /\ \A i \in 1..Len(q) + 1 : Append(q, p)[i] = IF i = Len(q) + 1 THEN p ELSE q[i]
  BY <1>1
<1>3. Len(q) \in Nat
  OBVIOUS
<1> QED
  BY <1>2, <1>3 DEF Distinct

\* The head of the queue leaves it.
LEMMA TailDistinct ==
  ASSUME NEW S, NEW q \in Seq(S), Distinct(q), q # <<>>
  PROVE  /\ Head(q) = q[1] /\ 1 \in 1..Len(q)
         /\ Tail(q) \in Seq(S \ {Head(q)})
         /\ Distinct(Tail(q))
         /\ \A i \in 1..Len(Tail(q)) : Tail(q)[i] # Head(q) /\ \E j \in 1..Len(q) : Tail(q)[i] = q[j]
<1>1. /\ Len(q) \in Nat \ {0}
      /\ Head(q) = q[1]
      /\ Tail(q) \in Seq(S)
      /\ Len(Tail(q)) = Len(q) - 1
      /\ \A i \in 1..Len(Tail(q)) : Tail(q)[i] = q[i + 1]
  OBVIOUS
<1>2. \A i \in 1..Len(Tail(q)) : Tail(q)[i] # Head(q) /\ Tail(q)[i] \in S
  BY <1>1 DEF Distinct
<1>3. Tail(q) \in Seq(S \ {Head(q)})
  BY <1>1, <1>2, SeqRetyped
<1>4. Distinct(Tail(q))
  BY <1>1 DEF Distinct
<1> QED
  BY <1>1, <1>2, <1>3, <1>4

-----------------------------------------------------------------------------
\* Nobody on a node.
LEMMA NoPodsType == NoPods \in PodsWith(Annotation)
<1>1. NoPods \in [{} -> Annotation]
  BY DEF NoPods
<1> QED
  BY <1>1 DEF PodsWith

\* A handler adds a key (controller.go:225-293) that is queued already, is being
\* processed, or is not.
LEMMA EnqueueStep ==
  ASSUME QueueInv, NEW p, Enqueue(p), UNCHANGED worker
  PROVE  QueueInv'
<1>1. CASE p \in dirty \cup processing
  BY <1>1 DEF Enqueue, QueueInv, At, Distinct
<1>2. CASE p \notin dirty \cup processing
  <2>0. queue \in Seq(dirty) /\ Distinct(queue)
    BY DEF QueueInv
  <2>1. \A i \in 1..Len(queue) : queue[i] # p
    BY <1>2, <2>0
  <2>2. queue' = Append(queue, p) /\ dirty' = dirty \cup {p} /\ processing' = processing
    BY <1>2 DEF Enqueue
  <2>3. queue' \in Seq(dirty') /\ Distinct(queue')
    BY <2>0, <2>1, <2>2, AppendDistinct
  <2>4. \A i \in 1..Len(queue') : queue'[i] \notin processing'
    BY <1>2, <2>0, <2>1, <2>2, AppendDistinct DEF QueueInv
  <2>5. QueueInv!1' /\ QueueInv!2'
    BY <2>2 DEF QueueInv, At
  <2> QED
    BY <2>3, <2>4, <2>5 DEF QueueInv, Distinct
<1> QED
  BY <1>1, <1>2

\* A worker takes the head of the queue (controller.go:200-204).
LEMMA GetStep ==
  ASSUME QueueInv, OneWorkerPerPod, NEW w \in Worker, Get(w)
  PROVE  QueueInv' /\ OneWorkerPerPod'
<1> DEFINE p == Head(queue)
           r == [Free EXCEPT !.pc = "sync"]
<1>1. /\ worker' = [worker EXCEPT ![w] = [pod |-> p, run |-> r]]
      /\ queue' = Tail(queue) /\ processing' = processing \cup {p} /\ dirty' = dirty \ {p}
      /\ queue # <<>>
  BY DEF Get
<1>0. queue \in Seq(dirty) /\ Distinct(queue)
  BY DEF QueueInv
<1>2. p \notin processing
  BY <1>0, <1>1, TailDistinct DEF QueueInv
<1>3. queue' \in Seq(dirty') /\ Distinct(queue')
  BY <1>0, <1>1, TailDistinct
<1>4. \A i \in 1..Len(queue') : queue'[i] \notin processing'
  <2> TAKE i \in 1..Len(queue')
  <2>1. queue'[i] # p /\ \E j \in 1..Len(queue) : queue'[i] = queue[j]
    BY <1>0, <1>1, TailDistinct
  <2> QED
    BY <1>1, <2>1 DEF QueueInv
<1>5. r \in Runs /\ r.pc = "sync"
  BY NoPodsType DEF Free, Runs, WorkerPlaces
<1> HIDE DEF p, r
<1>6. worker'[w] = [pod |-> p, run |-> r] /\ \A v \in Worker \ {w} : worker'[v] = worker[v]
  BY <1>1 DEF QueueInv
<1>7. QueueInv!1' /\ QueueInv!2'
  BY <1>1, <1>5, <1>6 DEF QueueInv, At
<1>8. OneWorkerPerPod'
  BY <1>2, <1>6 DEF OneWorkerPerPod, QueueInv, At
<1> QED
  BY <1>3, <1>4, <1>7, <1>8 DEF QueueInv, Distinct

\* A worker goes on with its pod.
LEMMA RunStep ==
  ASSUME QueueInv, OneWorkerPerPod, NEW w \in Worker, ~At(w, "free"),
         NEW r \in Runs, r.pc # "free",
         worker' = [worker EXCEPT ![w].run = r], UNCHANGED podQueue
  PROVE  QueueInv' /\ OneWorkerPerPod'
<1>1. /\ worker' \in [Worker -> [pod : processing \cup {NoBoard}, run : Runs]]
      /\ \A v \in Worker : worker'[v].pod = worker[v].pod
      /\ \A v \in Worker : At(v, "free")' <=> At(v, "free")
  BY DEF QueueInv, At
<1> QED
  BY <1>1 DEF QueueInv, OneWorkerPerPod, Distinct, podQueue

\* A worker is done with its pod, which is queued again when it has become
\* dirty in the meantime or failed (controller.go:202-223).
LEMMA FinishStep ==
  ASSUME QueueInv, OneWorkerPerPod, NEW w \in Worker, ~At(w, "free"), NEW again, Finish(w, again)
  PROVE  QueueInv' /\ OneWorkerPerPod'
<1> DEFINE p == worker[w].pod
<1> USE DEF Finish, Done
<1>1. /\ worker' = [worker EXCEPT ![w] = [pod |-> NoBoard, run |-> Free]]
      /\ processing' = processing \ {p}
      /\ dirty' = dirty \cup (IF again THEN {p} ELSE {})
      /\ queue' = IF p \in dirty' THEN Append(queue, p) ELSE queue
  OBVIOUS
<1>2. p \in processing /\ \A i \in 1..Len(queue) : queue[i] # p
  BY DEF QueueInv
<1>3. queue' \in Seq(dirty') /\ Distinct(queue')
  <2>1. CASE p \in dirty'
    <3>1. queue \in Seq(dirty') /\ dirty' \cup {p} = dirty'
      BY <1>1, <2>1 DEF QueueInv
    <3> QED
      BY <1>1, <1>2, <2>1, <3>1, AppendDistinct DEF QueueInv
  <2>2. CASE p \notin dirty'
    BY <1>1, <2>2 DEF QueueInv
  <2> QED
    BY <2>1, <2>2
<1>4. \A i \in 1..Len(queue') : queue'[i] \notin processing'
  <2>1. CASE p \in dirty'
    BY <1>1, <1>2, <2>1, AppendDistinct DEF QueueInv
  <2>2. CASE p \notin dirty'
    BY <1>1, <2>2 DEF QueueInv
  <2> QED
    BY <2>1, <2>2
<1>5. Free \in Runs /\ Free.pc = "free"
  BY NoPodsType DEF Free, Runs, WorkerPlaces
<1>6. \A v \in Worker \ {w} : worker'[v] = worker[v] /\ (~At(v, "free") => worker[v].pod # p)
  BY <1>1 DEF QueueInv, OneWorkerPerPod
<1>7. worker'[w] = [pod |-> NoBoard, run |-> Free]
  BY <1>1 DEF QueueInv
<1>8. QueueInv!1' /\ QueueInv!2'
  BY <1>1, <1>2, <1>5, <1>6, <1>7 DEF QueueInv, At
<1>9. OneWorkerPerPod'
  BY <1>5, <1>6, <1>7 DEF OneWorkerPerPod, At
<1> QED
  BY <1>3, <1>4, <1>8, <1>9 DEF QueueInv, Distinct

-----------------------------------------------------------------------------
\* What a worker keeps of a list of the pods.
LEMMA RunTypes ==
  ASSUME BoardOK
  PROVE  /\ Free \in Runs /\ Free.pc = "free"
         /\ \A pc \in WorkerPlaces :
              [Free EXCEPT !.pc = pc] \in Runs /\ [Free EXCEPT !.pc = pc].pc = pc
         /\ [pc |-> "addNode", pods |-> getActivePodInNode] \in Runs
<1>1. getActivePodInNode \in PodsWith(Annotation)
  <2> DEFINE S == {q \in Pod : lister[q] = "bound"}
  <2>1. S \subseteq Pod /\ getActivePodInNode = [p \in S |-> board[p]]
    BY DEF getActivePodInNode
  <2>2. getActivePodInNode \in [S -> Annotation]
    BY <2>1 DEF BoardOK, Annotation
  <2> QED
    BY <2>1, <2>2 DEF PodsWith
<1> QED
  BY <1>1, NoPodsType DEF Free, Runs, WorkerPlaces

\* A worker takes a pod, goes on with it, or is done with it.
LEMMA WorkerStepKeeps ==
  ASSUME WorkersInv, NEW w \in Worker, WorkerStep(w)
  PROVE  WorkersInv'
<1> USE DEF WorkersInv
<1>1. board' = board /\ choice' = choice
  BY DEF WorkerStep, Get, syncPod, releasePod, assignPod, AssignList, AssignNode, AssignAdd, apiVars
<1>2. CASE Get(w)
  BY <1>1, <1>2, GetStep DEF BoardOK
<1>3. ASSUME ~At(w, "free"), NEW pc \in WorkerPlaces \ {"free"}, Run(w, pc), UNCHANGED podQueue
      PROVE  QueueInv' /\ OneWorkerPerPod'
  BY <1>3, RunTypes, RunStep DEF Run
<1>4. ASSUME ~At(w, "free"), NEW again, Finish(w, again)
      PROVE  QueueInv' /\ OneWorkerPerPod'
  BY <1>4, FinishStep
<1>5. CASE syncPod(w)
  <2>1. ~At(w, "free")
    BY <1>5 DEF syncPod, At
  <2>2. \/ Run(w, "release") /\ UNCHANGED podQueue
        \/ Run(w, "assign") /\ UNCHANGED podQueue
        \/ Finish(w, FALSE)
    BY <1>5 DEF syncPod
  <2> QED
    BY <1>1, <1>3, <1>4, <2>1, <2>2 DEF WorkerPlaces, BoardOK
<1>6. CASE releasePod(w) \/ AssignAdd(w)
  <2>1. ~At(w, "free")
    BY <1>6 DEF releasePod, AssignAdd, At
  <2>2. \E again \in BOOLEAN : Finish(w, again)
    BY <1>6 DEF releasePod, AssignAdd, AddPodErr
  <2> QED
    BY <1>1, <1>4, <2>1, <2>2 DEF BoardOK
<1>7. CASE assignPod(w) \/ AssignNode(w)
  <2>1. ~At(w, "free") /\ UNCHANGED podQueue
    BY <1>7 DEF assignPod, AssignNode, At
  <2>2. Run(w, "add") \/ Run(w, "list")
    BY <1>7 DEF assignPod, AssignNode
  <2> QED
    BY <1>1, <1>3, <2>1, <2>2 DEF WorkerPlaces, BoardOK
<1>8. CASE AssignList(w)
  <2>1. ~At(w, "free") /\ UNCHANGED podQueue
    BY <1>8 DEF AssignList, At
  <2>2. CASE Run(w, "add")
    BY <1>1, <1>3, <2>1, <2>2 DEF WorkerPlaces, BoardOK
  <2>3. CASE worker' = [worker EXCEPT ![w].run = [pc |-> "addNode", pods |-> getActivePodInNode]]
    <3> DEFINE r == [pc |-> "addNode", pods |-> getActivePodInNode]
    <3>1. r \in Runs /\ r.pc # "free"
      BY RunTypes
    <3>2. worker' = [worker EXCEPT ![w].run = r]
      BY <2>3
    <3> HIDE DEF r
    <3> QED
      BY <1>1, <2>1, <3>1, <3>2, RunStep DEF BoardOK
  <2> QED
    BY <1>8, <2>2, <2>3 DEF AssignList
<1> QED
  BY <1>2, <1>5, <1>6, <1>7, <1>8 DEF WorkerStep

\* Every other step leaves the workers alone, and at most adds a key.
LEMMA OthersKeep ==
  ASSUME WorkersInv, [ControllerNext]_vars, \A w \in Worker : ~WorkerStep(w)
  PROVE  WorkersInv'
<1>1. ASSUME UNCHANGED <<podQueue, worker>>, BoardOK' PROVE WorkersInv'
  BY <1>1 DEF WorkersInv, QueueInv, OneWorkerPerPod, At, podQueue, Distinct
<1>2. ASSUME NEW p \in Pod,
             BindUpdate(p) \/ BindBind(p) \/ BindFails(p) \/ PodEnds(p)
               \/ BindAssume(p) \/ \E b \in Board : BindChoose(p, b)
      PROVE  WorkersInv'
  <2>1. UNCHANGED <<podQueue, worker>>
    BY <1>2 DEF BindUpdate, BindBind, BindFails, PodEnds, BindAssume, BindChoose
  <2>2. BoardOK'
    BY <1>2 DEF BindUpdate, BindBind, BindFails, PodEnds, BindAssume, BindChoose, WorkersInv,
                BoardOK
  <2> QED
    BY <1>1, <2>1, <2>2
<1>3. CASE InformerStep \/ NodeStep
  <2>1. UNCHANGED <<podQueue, worker, apiVars>>
    BY <1>3 DEF InformerStep, ListPods, Watch, NodeStep, ListForNode, addNodeToCache
  <2> QED
    BY <1>1, <2>1 DEF WorkersInv, BoardOK, apiVars
<1>4. CASE HandlePodEvent
  <2>1. UNCHANGED worker /\ BoardOK'
    BY <1>4 DEF HandlePodEvent, WorkersInv, BoardOK, apiVars
  <2>2. Enqueue(Head(events).pod) \/ UNCHANGED podQueue
    BY <1>4 DEF HandlePodEvent, addPodToCache, updatePodInCache, deletePodFromCache
  <2>3. CASE Enqueue(Head(events).pod)
    <3>1. QueueInv'
      BY <2>1, <2>3, EnqueueStep DEF WorkersInv
    <3> QED
      BY <2>1, <3>1 DEF WorkersInv, OneWorkerPerPod, At
  <2> QED
    BY <1>1, <2>1, <2>2, <2>3
<1>5. CASE UNCHANGED vars
  BY <1>1, <1>5 DEF vars, apiVars, WorkersInv, BoardOK
<1> QED
  BY <1>2, <1>3, <1>4, <1>5 DEF ControllerNext

\* At the start nothing is queued and no worker has a pod.
LEMMA WorkersInit == ASSUME Init PROVE WorkersInv
<1>1. BoardOK
  BY DEF Init, BoardOK
<1>2. Free \in Runs /\ Free.pc = "free"
  BY <1>1, RunTypes
<1>3. \A w \in Worker : worker[w] = [pod |-> NoBoard, run |-> Free]
  BY DEF Init
<1>4. QueueInv!1 /\ QueueInv!2
  BY <1>2, <1>3 DEF Init, At
<1>5. queue = <<>> /\ queue \in Seq(dirty) /\ Len(queue) = 0
  BY DEF Init
<1>6. QueueInv
  BY <1>4, <1>5 DEF QueueInv, Distinct
<1>7. OneWorkerPerPod
  BY <1>2, <1>3 DEF OneWorkerPerPod, At
<1> QED
  BY <1>1, <1>6, <1>7 DEF WorkersInv

(***************************************************************************)
(* The queue keeps a pod out of two workers (controller.go:43-46), whatever*)
(* pods, handlers, informer and Bind do and however many workers there are.*)
(***************************************************************************)
THEOREM OneWorkerPerPodHolds == ControllerSpec => []OneWorkerPerPod
<1>1. Init => WorkersInv
  BY WorkersInit
<1>2. WorkersInv /\ [ControllerNext]_vars => WorkersInv'
  BY WorkerStepKeeps, OthersKeep
<1>3. WorkersInv => OneWorkerPerPod
  BY DEF WorkersInv
<1> QED
  BY <1>1, <1>2, <1>3, PTL DEF ControllerSpec
=============================================================================
