------------------------------- MODULE Filter -------------------------------
(***************************************************************************)
(* manager.Predicate and manager.Priority (src/pkg/scheduler/manager/      *)
(* manager.go:68-141): one request of kube-scheduler to filter, or to      *)
(* score, its candidate nodes.  Parallelize (util.go) gives the candidates *)
(* to a pool of goroutines; meanwhile the ledgers of the nodes change.     *)
(* Only the binpack policy is in AllocatorMap; with another one the nil    *)
(* allocator panics in a goroutine of the pool, which is left out.         *)
(***************************************************************************)
EXTENDS Allocator, Topo, Sequences

CONSTANTS Candidates,   \* the sequence of node names of the request
          Worker,       \* the goroutines of Parallelize, at most 16
          NoName,       \* "", what the slots of filterdNodes start with
          NotCached,    \* a node the cache does not have
          Ledgers,      \* the Allocatable maps a node may have
          OrinRequest,  \* the orins of the pod
          MaxChanges    \* bound: changes of ledgers during the request

\* kube-scheduler names every node of a request once, and none "".
ASSUME CandidatesAssumption ==
  /\ Candidates \in Seq({Candidates[i] : i \in DOMAIN Candidates})
  /\ \A i, j \in DOMAIN Candidates : Candidates[i] = Candidates[j] => i = j
  /\ \A i \in DOMAIN Candidates : Candidates[i] # NoName

\* Parallelize starts a goroutine for every piece, up to 16.
ASSUME WorkerAssumption == Worker # {}

\* A ledger is made of the orins of finitely many boards; BoardIDNotFount is -1.
ASSUME LedgersAssumption ==
  /\ Ledgers \subseteq BoardDetails /\ IsFiniteSet(Board) /\ IsFiniteSet(Orin)
  /\ BoardIDNotFount \notin Board

VARIABLES verb,           \* "predicate" or "priority"
          ledger,         \* the ledger of each candidate: NotCached or {Allocatable}
          changes,
          toProcess,      \* the channel of pieces, closed when it was filled
          worker,         \* a worker holds a piece and what it found out about it
          filterdNodes, filteredLen, failNodes, scores,
          answered        \* the handler has returned

results == <<filterdNodes, filteredLen, failNodes, scores>>
vars == <<verb, ledger, changes, toProcess, worker, results, answered>>

Piece == DOMAIN Candidates

Free == [pc |-> "free", piece |-> 0, board |-> BoardIDNotFount, score |-> 0]

Init ==
  /\ verb \in {"predicate", "priority"}
  /\ ledger \in [Piece -> {NotCached} \cup {{l} : l \in Ledgers}]
  /\ changes = 0
  /\ toProcess = [i \in Piece |-> i]
  /\ worker = [w \in Worker |-> Free]
  /\ filterdNodes = [i \in Piece |-> NoName]
  /\ filteredLen = 0
  /\ failNodes = {}
  /\ scores = [i \in Piece |-> 0]
  /\ answered = FALSE

Becomes(w, r) == worker' = [worker EXCEPT ![w] = r]
At(w, pc) == worker[w].pc = pc

-----------------------------------------------------------------------------
Take(w) ==
  /\ At(w, "free") /\ toProcess # <<>>
  /\ Becomes(w, [Free EXCEPT !.pc = "check", !.piece = Head(toProcess)])
  /\ toProcess' = Tail(toProcess)
  /\ UNCHANGED <<verb, ledger, changes, results, answered>>

\* Mutant: the channel is not closed.
LeaveUnclosed(w) == FALSE /\ UNCHANGED vars

\* range over the closed channel ends.
Leave(w) ==
  /\ At(w, "free") /\ toProcess = <<>>
  /\ Becomes(w, [Free EXCEPT !.pc = "left"])
  /\ UNCHANGED <<verb, ledger, changes, toProcess, results, answered>>

\* GetNode and Allocate.  A node the cache does not have fails, and scores 0.
Check(w) ==
  LET l == ledger[worker[w].piece]
      Found(board, score) ==
        Becomes(w, [worker[w] EXCEPT !.pc = "checked", !.board = board, !.score = score])
  IN
  /\ At(w, "check")
  /\ IF l = NotCached
     THEN Found(BoardIDNotFount, 0)
     ELSE \E canAlloc \in l : \E board \in Allocate(canAlloc, OrinRequest) :
            Found(board, NodeScore(canAlloc, board))
  /\ UNCHANGED <<verb, ledger, changes, toProcess, results, answered>>

Fits(w) == worker[w].board # BoardIDNotFount

\* Mutant: a node is stored at the index of the candidate, as the scores are.
CountInAtPiece(w) ==
  /\ verb = "predicate" /\ At(w, "checked") /\ Fits(w)
  /\ filteredLen' = filteredLen + 1
  /\ Becomes(w, [worker[w] EXCEPT !.pc = "store", !.score = worker[w].piece])
  /\ UNCHANGED <<verb, ledger, changes, toProcess, filterdNodes, failNodes, scores, answered>>

\* atomic.AddInt32 gives the worker its slot, which it fills afterwards.
CountIn(w) ==
  /\ verb = "predicate" /\ At(w, "checked") /\ Fits(w)
  /\ filteredLen' = filteredLen + 1
  /\ Becomes(w, [worker[w] EXCEPT !.pc = "store", !.score = filteredLen + 1])
  /\ UNCHANGED <<verb, ledger, changes, toProcess, filterdNodes, failNodes, scores, answered>>

Store(w) ==
  /\ At(w, "store")
  /\ filterdNodes' = [filterdNodes EXCEPT ![worker[w].score] = Candidates[worker[w].piece]]
  /\ Becomes(w, Free)
  /\ UNCHANGED <<verb, ledger, changes, toProcess, filteredLen, failNodes, scores, answered>>

Fail(w) ==
  /\ verb = "predicate" /\ At(w, "checked") /\ ~Fits(w)
  /\ failNodes' = failNodes \cup {Candidates[worker[w].piece]}
  /\ Becomes(w, Free)
  /\ UNCHANGED <<verb, ledger, changes, toProcess, filterdNodes, filteredLen, scores, answered>>

Score(w) ==
  /\ verb = "priority" /\ At(w, "checked")
  /\ scores' = [scores EXCEPT ![worker[w].piece] = worker[w].score]
  /\ Becomes(w, Free)
  /\ UNCHANGED <<verb, ledger, changes, toProcess, filterdNodes, filteredLen, failNodes, answered>>

\* Integer division of Go, towards zero.
Quotient(a, b) == IF a >= 0 THEN a \div b ELSE -((-a) \div b)

\* Mutant: the search for the greatest score does not start at 0.
NormalizeByGreatest(maxPriority, s) ==
  LET all == {s[i] : i \in DOMAIN s}
      maxCount == CHOOSE m \in all : \A k \in all : k <= m
  IN  IF maxCount = 0 THEN s
      ELSE [i \in DOMAIN s |-> Quotient(maxPriority * s[i], maxCount)]

Normalize(maxPriority, s) ==
  LET positive == {s[i] : i \in DOMAIN s} \cup {0}
      maxCount == CHOOSE m \in positive : \A k \in positive : k <= m
  IN  IF maxCount = 0 THEN s
      ELSE [i \in DOMAIN s |-> Quotient(maxPriority * s[i], maxCount)]

\* wg.Wait returns when every worker has left.
Answer ==
  /\ ~answered /\ \A w \in Worker : At(w, "left")
  /\ answered' = TRUE
  /\ scores' = IF verb = "priority" THEN Normalize(10, scores) ELSE scores
  /\ UNCHANGED <<verb, ledger, changes, toProcess, worker, filterdNodes, filteredLen, failNodes>>

\* Binds, informers: the cache is locked for one call at a time only.
LedgerChanges(i) ==
  /\ ~answered /\ changes < MaxChanges
  /\ \E l \in {NotCached} \cup {{k} : k \in Ledgers} : ledger' = [ledger EXCEPT ![i] = l]
  /\ changes' = changes + 1
  /\ UNCHANGED <<verb, toProcess, worker, results, answered>>

WorkerStep(w) ==
  \/ Take(w) \/ Leave(w) \/ Check(w) \/ CountIn(w) \/ Store(w) \/ Fail(w) \/ Score(w)

Next ==
  \/ \E w \in Worker : WorkerStep(w)
  \/ Answer
  \/ \E i \in Piece : LedgerChanges(i)

Spec == Init /\ [][Next]_vars /\ \A w \in Worker : WF_vars(WorkerStep(w)) /\ WF_vars(Answer)

-----------------------------------------------------------------------------
Names(S) == {Candidates[i] : i \in S}

(***************************************************************************)
(* The workers share a slice without a lock, and the only thing between    *)
(* them is the atomic counter (manager.go:97): when the filter answers,    *)
(* every candidate has been put either into a slot of its own among the    *)
(* first filteredLen ones or under the failed nodes.                       *)
(***************************************************************************)
EveryCandidateAnswered ==
  answered /\ verb = "predicate" =>
    LET passed == {filterdNodes[k] : k \in 1..filteredLen} IN
    /\ passed \cup failNodes = Names(Piece)
    /\ passed \cap failNodes = {}
    /\ Cardinality(passed) = filteredLen

(***************************************************************************)
(* Normalize (util.go:46-63) changes the order of no two nodes, though the *)
(* score of a node with more than 100 free orins is negative               *)
(* (allocator.go:54) and the division cuts towards zero: no node gets more *)
(* than 10, which the interface of scheduler extenders asks for, the best  *)
(* one gets 10 when any node has a positive score, and a node gets less    *)
(* than 0 only if its score was.                                           *)
(***************************************************************************)
NormalizeKeepsOrder ==
  [][answered' /\ verb = "priority" =>
       /\ \A i \in Piece : scores'[i] <= 10 /\ (scores'[i] < 0 => scores[i] < 0)
       /\ \A i, j \in Piece : scores[i] <= scores[j] => scores'[i] <= scores'[j]
       /\ (\E i \in Piece : scores[i] > 0) => \E i \in Piece : scores'[i] = 10]_answered

(***************************************************************************)
(* The request is answered: the pool empties its channel and every worker  *)
(* reports to the wait group (util.go:22-44).                              *)
(***************************************************************************)
RequestAnswered == <>answered
=============================================================================
