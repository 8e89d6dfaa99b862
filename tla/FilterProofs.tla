---------------------------- MODULE FilterProofs ----------------------------
(***************************************************************************)
(* Proofs about Predicate and Priority, for every list of candidates,      *)
(* every number of goroutines and every change of the ledgers meanwhile.   *)
(*                                                                         *)
(* The pool shares filterdNodes without a lock.  What keeps two goroutines *)
(* off one slot is that a piece is received from the channel once and that *)
(* the counter is incremented atomically; and a slot is never out of range *)
(* because the pieces that have one already are not the piece in hand.     *)
(***************************************************************************)
EXTENDS Filter, FiniteSetTheorems, FunctionTheorems, SequenceTheorems,
        WellFoundedInduction, TLAPS

N == Len(Candidates)

Stages == {"free", "check", "checked", "store", "left"}

Workers == [pc : Stages, piece : 0..N, board : Board \cup {BoardIDNotFount}, score : Int]

\* What NodeScore may return.
Scores == {s \in Int : s <= EmptyScore \/ s <= 0}

\* Where a piece may be: in the channel, with a worker, in a slot, or failed.
Busy(w) == worker[w].pc \notin {"free", "left"}
Queued(i) == \E j \in 1..Len(toProcess) : toProcess[j] = i
Held(i) == \E w \in Worker : Busy(w) /\ worker[w].piece = i
Stored(i) == \E k \in 1..filteredLen : filterdNodes[k] = Candidates[i]
Failed(i) == Candidates[i] \in failNodes

TypeInv ==
  /\ verb \in {"predicate", "priority"}
  /\ ledger \in [Piece -> {NotCached} \cup {{l} : l \in Ledgers}]
  /\ toProcess \in Seq(Piece)
  /\ worker \in [Worker -> Workers]
  /\ filterdNodes \in [Piece -> Names(Piece) \cup {NoName}]
  /\ filteredLen \in 0..N
  /\ failNodes \subseteq Names(Piece)
  /\ scores \in [Piece -> Int]
  /\ answered \in BOOLEAN

WorkerInv ==
  \A w \in Worker :
    /\ Busy(w) => worker[w].piece \in Piece
    /\ At(w, "checked") => worker[w].score \in Scores
    /\ At(w, "left") => toProcess = <<>>

\* Nothing was stored or failed twice, and nothing is stored or failed that is
\* still to be looked at.
OnePlace ==
  \A i \in Piece :
    /\ Queued(i) \/ Held(i) \/ Stored(i) \/ Failed(i)
    /\ Queued(i) => ~Held(i) /\ ~Stored(i) /\ ~Failed(i)
    /\ Held(i) => ~Stored(i) /\ ~Failed(i)
    /\ Stored(i) => ~Failed(i)

OneWorker ==
  \A w, u \in Worker :
    Busy(w) /\ Busy(u) /\ worker[w].piece = worker[u].piece => w = u

QueuedOnce ==
  \A j, k \in 1..Len(toProcess) : toProcess[j] = toProcess[k] => j = k

\* A slot below filteredLen is filled, or one worker is about to fill it.
Filling(w, k) == At(w, "store") /\ worker[w].score = k

SlotInv ==
  /\ \A w \in Worker : At(w, "store") => worker[w].score \in 1..filteredLen
  /\ \A w, u \in Worker :
       At(w, "store") /\ At(u, "store") /\ worker[w].score = worker[u].score => w = u
  /\ \A k \in 1..filteredLen : filterdNodes[k] = NoName <=> \E w \in Worker : Filling(w, k)
  /\ \A k \in (filteredLen + 1)..N : filterdNodes[k] = NoName
  /\ \A k, l \in 1..filteredLen :
       filterdNodes[k] = filterdNodes[l] /\ filterdNodes[k] # NoName => k = l

PieceInv == OnePlace /\ OneWorker /\ QueuedOnce /\ SlotInv

\* A request to score fills no slot and fails no node.
FInv ==
  /\ TypeInv /\ WorkerInv
  /\ verb = "predicate" => PieceInv
  /\ ~answered => scores \in [Piece -> Scores]
  /\ answered => \A w \in Worker : At(w, "left")

-----------------------------------------------------------------------------
\* The pieces of Parallelize are the indices of the candidates.
LEMMA Pieces ==
  /\ N \in Nat /\ Piece = 1..N /\ IsFiniteSet(Piece) /\ Cardinality(Piece) = N
  /\ \A i, j \in Piece : Candidates[i] = Candidates[j] => i = j
  /\ \A i \in Piece : Candidates[i] # NoName
<1>1. N \in Nat /\ Piece = 1..N
  BY CandidatesAssumption, LenProperties DEF N, Piece
<1>2. IsFiniteSet(1..N) /\ Cardinality(1..N) = N
  BY <1>1, FS_Interval
<1> QED
  BY <1>1, <1>2, CandidatesAssumption DEF Piece

\* NodeScore counts the free orins of finitely many boards, and so is at most
\* the score of a node without any.
LEMMA NodeScoreBound ==
  ASSUME NEW d \in Ledgers, NEW board
  PROVE  NodeScore(d, board) \in Scores
<1> DEFINE free == UNION {{b} \X d[b] : b \in DOMAIN d}
<1>1. d \in BoardDetails
  BY LedgersAssumption
<1>2. PICK D \in SUBSET Board : d \in [D -> SUBSET Orin]
  BY <1>1 DEF BoardDetails
<1>3. free \subseteq Board \X Orin
  BY <1>2
<1>4. IsFiniteSet(free)
  BY <1>3, LedgersAssumption, FS_Product, FS_Subset
<1>5. Cardinality(free) \in Nat
  BY <1>4, FS_CardinalityType
<1> HIDE DEF free
<1>6. EmptyScore - Cardinality(free) \in Scores
  BY <1>5, EmptyScoreAssumption DEF Scores
<1>7. 0 \in Scores
  BY DEF Scores
<1> QED
  BY <1>6, <1>7 DEF NodeScore, free

\* binpack returns a board of the ledger or BoardIDNotFount.
LEMMA AllocateBoard ==
  ASSUME NEW d \in Ledgers
  PROVE  Allocate(d, OrinRequest) \subseteq Board \cup {BoardIDNotFount}
<1>1. d \in BoardDetails
  BY LedgersAssumption
<1>2. DOMAIN d \subseteq Board
  BY <1>1 DEF BoardDetails
<1> QED
  BY <1>2 DEF Allocate, Fitting

(***************************************************************************)
(* A slot belongs to a piece that is not the one in hand: when a worker    *)
(* comes to increment filteredLen there is room, so filterdNodes           *)
(* (manager.go:97) is never indexed out of range.                          *)
(***************************************************************************)
LEMMA RoomForOne ==
  ASSUME TypeInv, WorkerInv, PieceInv, NEW w \in Worker, At(w, "checked")
  PROVE  filteredLen < N
<1> DEFINE mine == worker[w].piece
           Owns(k, i) ==
             \/ Candidates[i] = filterdNodes[k]
             \/ \E u \in Worker : Filling(u, k) /\ worker[u].piece = i
           slots == 1..filteredLen
           others == Piece \ {mine}
           f == [k \in slots |-> CHOOSE i \in others : Owns(k, i)]
<1>1. filteredLen \in Nat /\ N \in Nat /\ slots \subseteq Piece
  BY Pieces DEF TypeInv
<1>2. Busy(w) /\ mine \in Piece /\ Held(mine)
  BY DEF WorkerInv, At, Busy, Held
<1>3. \A k \in slots : \E i \in others : Owns(k, i)
  <2> SUFFICES ASSUME NEW k \in slots PROVE \E i \in others : Owns(k, i)
    OBVIOUS
  <2>1. CASE filterdNodes[k] = NoName
    <3>1. PICK u \in Worker : Filling(u, k)
      BY <2>1 DEF PieceInv, SlotInv
    <3>2. Busy(u) /\ u # w /\ worker[u].piece \in Piece
      BY <3>1 DEF Filling, At, Busy, WorkerInv
    <3>3. worker[u].piece # mine
      BY <3>2, <1>2 DEF PieceInv, OneWorker
    <3> QED
      BY <3>1, <3>2, <3>3
  <2>2. CASE filterdNodes[k] # NoName
    <3>1. filterdNodes[k] \in Names(Piece)
      BY <2>2, <1>1 DEF TypeInv
    <3>2. PICK i \in Piece : filterdNodes[k] = Candidates[i]
      BY <3>1 DEF Names
    <3>3. Stored(i)
      BY <3>2 DEF Stored
    <3>4. i # mine
      BY <3>3, <1>2 DEF PieceInv, OnePlace
    <3> QED
      BY <3>2, <3>4
  <2> QED
    BY <2>1, <2>2
<1>4. \A k \in slots : f[k] \in others /\ Owns(k, f[k])
  BY <1>3
<1> HIDE DEF f
<1>5. ASSUME NEW k \in slots, NEW l \in slots, f[k] = f[l] PROVE k = l
  <2> DEFINE i == f[k]
  <2>1. i \in Piece /\ Owns(k, i) /\ Owns(l, i)
    BY <1>4, <1>5
  <2> HIDE DEF i
  <2>2. Candidates[i] # NoName
    BY <2>1, Pieces
  <2>3. ASSUME NEW u \in Worker, NEW m \in slots, Filling(u, m), worker[u].piece = i
        PROVE  Held(i) /\ ~Stored(i)
    <3>1. Held(i)
      BY <2>3 DEF Filling, At, Busy, Held
    <3> QED
      BY <3>1, <2>1 DEF PieceInv, OnePlace
  <2>4. CASE Candidates[i] = filterdNodes[k] /\ Candidates[i] = filterdNodes[l]
    BY <2>4, <2>2 DEF PieceInv, SlotInv
  <2>5. CASE Candidates[i] = filterdNodes[k] \/ Candidates[i] = filterdNodes[l]
    <3>1. Stored(i)
      BY <2>5 DEF Stored
    <3> QED
      BY <2>1, <2>3, <2>4, <3>1
  <2>6. CASE ~(Candidates[i] = filterdNodes[k] \/ Candidates[i] = filterdNodes[l])
    <3>1. PICK u \in Worker : Filling(u, k) /\ worker[u].piece = i
      BY <2>6, <2>1
    <3>2. PICK v \in Worker : Filling(v, l) /\ worker[v].piece = i
      BY <2>6, <2>1
    <3>3. u = v
      BY <3>1, <3>2 DEF PieceInv, OneWorker, Filling, At, Busy
    <3> QED
      BY <3>1, <3>2, <3>3 DEF Filling
  <2> QED
    BY <2>5, <2>6
<1>6. f \in Injection(slots, others)
  BY <1>4, <1>5 DEF f, Injection, IsInjective
<1>7. IsFiniteSet(others) /\ Cardinality(others) = N - 1
  <2> HIDE DEF mine
  <2>1. /\ IsFiniteSet(Piece \ {mine})
        /\ Cardinality(Piece \ {mine}) =
             IF mine \in Piece THEN Cardinality(Piece) - 1 ELSE Cardinality(Piece)
    BY Pieces, FS_RemoveElement, Zenon
  <2> QED
    BY <2>1, <1>2, Pieces
<1>8. Cardinality(slots) = filteredLen
  BY <1>1, FS_Interval
<1>9. Cardinality(slots) <= Cardinality(others)
  BY <1>6, <1>7, FS_Injection
<1> QED
  BY <1>1, <1>7, <1>8, <1>9

-----------------------------------------------------------------------------
\* When every worker has left, the channel is empty and no slot is waited for.
LEMMA AnsweredFromInv == FInv => EveryCandidateAnswered
<1> SUFFICES ASSUME FInv, answered, verb = "predicate"
             PROVE  LET passed == {filterdNodes[k] : k \in 1..filteredLen} IN
                    /\ passed \cup failNodes = Names(Piece)
                    /\ passed \cap failNodes = {}
                    /\ Cardinality(passed) = filteredLen
  BY DEF EveryCandidateAnswered
<1> DEFINE slots == 1..filteredLen
           passed == {filterdNodes[k] : k \in slots}
           f == [k \in slots |-> filterdNodes[k]]
<1>1. TypeInv /\ WorkerInv /\ PieceInv /\ \A w \in Worker : At(w, "left")
  BY DEF FInv
<1>2. filteredLen \in Nat /\ slots \subseteq Piece
  BY <1>1, Pieces DEF TypeInv
<1>3. toProcess = <<>>
  BY <1>1, WorkerAssumption DEF WorkerInv
<1>4. \A i \in Piece : ~Queued(i) /\ ~Held(i)
  BY <1>1, <1>3 DEF Queued, Held, Busy, At
<1>5. \A k \in slots : filterdNodes[k] # NoName
  BY <1>1 DEF PieceInv, SlotInv, Filling, At
<1>6. \A k \in slots : \E i \in Piece : filterdNodes[k] = Candidates[i]
  BY <1>1, <1>2, <1>5 DEF TypeInv, Names
<1>7. \A i \in Piece : (Candidates[i] \in passed) <=> Stored(i)
  BY DEF Stored
<1>8. passed \cup failNodes = Names(Piece)
  <2>1. passed \subseteq Names(Piece)
    BY <1>6 DEF Names
  <2>2. failNodes \subseteq Names(Piece)
    BY <1>1 DEF TypeInv
  <2>3. \A i \in Piece : Candidates[i] \in passed \cup failNodes
    BY <1>1, <1>4, <1>7 DEF PieceInv, OnePlace, Failed
  <2> QED
    BY <2>1, <2>2, <2>3 DEF Names
<1>9. passed \cap failNodes = {}
  <2>1. \A i \in Piece : ~(Candidates[i] \in passed /\ Candidates[i] \in failNodes)
    BY <1>1, <1>7 DEF PieceInv, OnePlace, Failed
  <2> QED
    BY <2>1, <1>6
<1>10. Cardinality(passed) = filteredLen
  <2>1. f \in Bijection(slots, passed)
    BY <1>1, <1>5 DEF Bijection, Injection, Surjection, IsInjective, PieceInv, SlotInv
  <2>2. ExistsBijection(slots, passed)
    BY <2>1 DEF ExistsBijection
  <2>3. IsFiniteSet(slots) /\ Cardinality(slots) = filteredLen
    BY <1>2, FS_Interval
  <2> QED
    BY <2>2, <2>3, FS_Bijection
<1> QED
  BY <1>8, <1>9, <1>10

-----------------------------------------------------------------------------
\* Nothing is stored, failed or received when the request starts.
LEMMA InitFInv == Init => FInv
<1> SUFFICES ASSUME Init PROVE FInv
  OBVIOUS
<1>1. /\ toProcess \in Seq(Piece) /\ Len(toProcess) = N
      /\ \A j \in 1..N : toProcess[j] = j
  <2>1. \A i \in 1..N : i \in Piece
    BY Pieces
  <2>2. [i \in 1..N |-> i] \in Seq(Piece)
    BY <2>1, Pieces, IsASeq
  <2>3. toProcess = [i \in 1..N |-> i]
    BY Pieces DEF Init
  <2>4. DOMAIN toProcess = 1..Len(toProcess) /\ Len(toProcess) \in Nat
    BY <2>2, <2>3, LenProperties
  <2>5. DOMAIN toProcess = 1..N
    BY <2>3
  <2>6. Len(toProcess) = N
    <3>1. ASSUME NEW a \in Nat, NEW b \in Nat, 1..a = 1..b PROVE a = b
      <4>1. \A k \in Int : 1 <= k /\ k <= a <=> 1 <= k /\ k <= b
        BY <3>1
      <4> QED
        BY <4>1
    <3> QED
      BY <3>1, <2>4, <2>5, Pieces
  <2> QED
    BY <2>2, <2>3, <2>6
<1>2. worker = [w \in Worker |-> Free] /\ Free \in Workers /\ Free.pc = "free"
  BY Pieces DEF Init, Free, Workers, Stages
<1>3. \A w \in Worker : worker[w].pc = "free"
  BY <1>2
<1>4. TypeInv
  <2>1. verb \in {"predicate", "priority"} /\ answered \in BOOLEAN /\ failNodes = {}
    BY DEF Init
  <2>2. filteredLen \in 0..N /\ ledger \in [Piece -> {NotCached} \cup {{l} : l \in Ledgers}]
    BY Pieces DEF Init
  <2>3. filterdNodes \in [Piece -> Names(Piece) \cup {NoName}] /\ scores \in [Piece -> Int]
    BY DEF Init
  <2>4. worker \in [Worker -> Workers]
    BY <1>2
  <2> QED
    BY <1>1, <2>1, <2>2, <2>3, <2>4 DEF TypeInv
<1>5. WorkerInv
  BY <1>3 DEF WorkerInv, Busy, At
<1>6. filteredLen = 0 /\ failNodes = {} /\ \A k \in Piece : filterdNodes[k] = NoName
  BY DEF Init
<1>7. OnePlace
  <2>1. \A i \in Piece : Queued(i)
    BY <1>1, Pieces DEF Queued
  <2>2. \A i \in Piece : ~Held(i) /\ ~Stored(i) /\ ~Failed(i)
    BY <1>3, <1>6 DEF Held, Busy, Stored, Failed
  <2> QED
    BY <2>1, <2>2 DEF OnePlace
<1>8. OneWorker
  BY <1>3 DEF OneWorker, Busy
<1>9. QueuedOnce
  BY <1>1 DEF QueuedOnce
<1>10. SlotInv
  BY <1>3, <1>6, Pieces DEF SlotInv, At
<1>11. scores \in [Piece -> Scores] /\ ~answered
  BY DEF Init, Scores
<1> QED
  BY <1>4, <1>5, <1>7, <1>8, <1>9, <1>10, <1>11 DEF FInv, PieceInv

\* A step that moves no piece keeps them apart.
LEMMA NoPieceMoves ==
  ASSUME PieceInv, UNCHANGED <<toProcess, filterdNodes, filteredLen, failNodes>>,
         \A u \in Worker :
           /\ Busy(u)' <=> Busy(u)
           /\ Busy(u) => worker'[u].piece = worker[u].piece
           /\ At(u, "store")' <=> At(u, "store")
           /\ At(u, "store") => worker'[u].score = worker[u].score
  PROVE  PieceInv'
<1>1. \A i \in Piece : /\ Queued(i)' <=> Queued(i)
                       /\ Held(i)' <=> Held(i)
                       /\ Stored(i)' <=> Stored(i)
                       /\ Failed(i)' <=> Failed(i)
  BY DEF Queued, Held, Stored, Failed
<1>2. OnePlace'
  BY <1>1 DEF PieceInv, OnePlace
<1>3. OneWorker'
  BY DEF PieceInv, OneWorker
<1>4. QueuedOnce'
  BY DEF PieceInv, QueuedOnce
<1>5. SlotInv'
  <2>1. \A k : \A u \in Worker : Filling(u, k)' <=> Filling(u, k)
    BY DEF Filling
  <2> QED
    BY <2>1 DEF PieceInv, SlotInv
<1> QED
  BY <1>2, <1>3, <1>4, <1>5 DEF PieceInv

\* What the step of one worker does to the others, and to itself.
LEMMA OthersStay ==
  ASSUME TypeInv, NEW w \in Worker, NEW r \in Workers, Becomes(w, r)
  PROVE  /\ worker' \in [Worker -> Workers]
         /\ worker'[w] = r
         /\ \A u \in Worker \ {w} : worker'[u] = worker[u]
BY DEF TypeInv, Becomes

\* Receiving from the channel.
LEMMA TakeKeeps ==
  ASSUME FInv, NEW w \in Worker, Take(w)
  PROVE  FInv'
<1> DEFINE mine == Head(toProcess)
           r == [Free EXCEPT !.pc = "check", !.piece = mine]
           len == Len(toProcess)
<1>1. TypeInv /\ WorkerInv
  BY DEF FInv
<1>2. /\ toProcess \in Seq(Piece) /\ toProcess # <<>> /\ mine \in Piece
      /\ toProcess' \in Seq(Piece) /\ Len(toProcess') = len - 1 /\ len \in Nat \ {0}
      /\ \A j \in 1..(len - 1) : toProcess'[j] = toProcess[j + 1]
      /\ mine = toProcess[1]
  <2>1. toProcess \in Seq(Piece) /\ toProcess # <<>> /\ toProcess' = Tail(toProcess)
    BY <1>1 DEF Take, TypeInv
  <2>2. len \in Nat \ {0}
    BY <2>1, EmptySeq
  <2>3. mine = toProcess[1]
    BY <2>1
  <2> QED
    BY <2>1, <2>2, <2>3, HeadTailProperties
<1>3. /\ r \in Workers /\ r.pc = "check" /\ r.piece = mine /\ Becomes(w, r)
      /\ worker[w].pc = "free"
  <2>1. Becomes(w, r) /\ worker[w].pc = "free"
    BY DEF Take, At
  <2>2. mine \in 0..N
    BY <1>2, Pieces
  <2>3. ASSUME NEW d \in Workers, NEW m \in 0..N
        PROVE  /\ [d EXCEPT !.pc = "check", !.piece = m] \in Workers
               /\ [d EXCEPT !.pc = "check", !.piece = m].pc = "check"
               /\ [d EXCEPT !.pc = "check", !.piece = m].piece = m
    BY DEF Workers, Stages
  <2>4. Free \in Workers
    BY Pieces DEF Free, Workers, Stages
  <2> HIDE DEF mine
  <2> QED
    BY <2>1, <2>2, <2>3, <2>4
<1> HIDE DEF r, mine, len
<1>4. /\ worker' \in [Worker -> Workers] /\ worker'[w] = r
      /\ \A u \in Worker \ {w} : worker'[u] = worker[u]
  BY <1>1, <1>3, OthersStay
<1>5. UNCHANGED <<verb, ledger, results, answered>>
  BY DEF Take
<1>6. TypeInv'
  BY <1>1, <1>2, <1>4, <1>5 DEF TypeInv, results
<1>7. WorkerInv'
  <2>1. \A u \in Worker : At(u, "left") => FALSE
    BY <1>1, <1>2 DEF WorkerInv
  <2>2. Busy(w)' /\ worker'[w].piece \in Piece /\ ~At(w, "left")' /\ ~At(w, "checked")'
    BY <1>2, <1>3, <1>4 DEF Busy, At
  <2>3. \A u \in Worker \ {w} :
          /\ (Busy(u)' => worker'[u].piece \in Piece)
          /\ (At(u, "checked")' => worker'[u].score \in Scores)
          /\ ~At(u, "left")'
    BY <1>1, <1>4, <2>1 DEF WorkerInv, Busy, At
  <2> QED
    BY <2>2, <2>3 DEF WorkerInv
<1>8. ASSUME verb' = "predicate" PROVE PieceInv'
  <2>1. PieceInv
    BY <1>5, <1>8 DEF FInv
  <2>2. Queued(mine) /\ \A i \in Piece : Queued(i)' <=> Queued(i) /\ i # mine
    <3>1. \A j \in 2..len : toProcess[j] # mine
      BY <1>2, <2>1 DEF PieceInv, QueuedOnce, len
    <3>2. Queued(mine)
      BY <1>2 DEF Queued, len
    <3>3. ASSUME NEW i \in Piece, Queued(i)' PROVE Queued(i) /\ i # mine
      <4>1. PICK j \in 1..Len(toProcess') : toProcess'[j] = i
        BY <3>3 DEF Queued
      <4>2. j + 1 \in 2..len /\ toProcess[j + 1] = i
        BY <4>1, <1>2
      <4> QED
        BY <4>2, <3>1, <1>2 DEF Queued, len
    <3>4. ASSUME NEW i \in Piece, Queued(i), i # mine PROVE Queued(i)'
      <4>1. PICK j \in 1..len : toProcess[j] = i
        BY <3>4 DEF Queued, len
      <4>2. j # 1
        BY <4>1, <3>4, <1>2
      <4>3. j - 1 \in 1..Len(toProcess') /\ toProcess'[j - 1] = i
        BY <4>1, <4>2, <1>2
      <4> QED
        BY <4>3 DEF Queued
    <3> QED
      BY <3>2, <3>3, <3>4
  <2>3. \A i \in Piece : Held(i)' <=> Held(i) \/ i = mine
    BY <1>3, <1>4 DEF Held, Busy
  <2>4. \A i \in Piece : (Stored(i)' <=> Stored(i)) /\ (Failed(i)' <=> Failed(i))
    BY <1>5 DEF Stored, Failed, results
  <2>5. OnePlace'
    BY <2>1, <2>2, <2>3, <2>4, <1>2 DEF PieceInv, OnePlace
  <2>6. OneWorker'
    <3>1. \A u \in Worker : Busy(u) => worker[u].piece # mine
      BY <2>1, <2>2, <1>2 DEF PieceInv, OnePlace, Held
    <3> QED
      BY <3>1, <2>1, <1>3, <1>4 DEF PieceInv, OneWorker, Busy
  <2>7. QueuedOnce'
    <3> SUFFICES ASSUME NEW j \in 1..(len - 1), NEW k \in 1..(len - 1),
                        toProcess'[j] = toProcess'[k]
                 PROVE  j = k
      BY <1>2 DEF QueuedOnce
    <3>1. /\ j + 1 \in 1..len /\ k + 1 \in 1..len
          /\ toProcess[j + 1] = toProcess[k + 1]
      BY <1>2
    <3>2. j + 1 = k + 1
      BY <3>1, <2>1 DEF PieceInv, QueuedOnce, len
    <3> QED
      BY <3>2, <1>2
  <2>8. SlotInv'
    <3>1. \A u \in Worker : At(u, "store")' <=> At(u, "store")
      BY <1>3, <1>4 DEF At
    <3>2. \A u \in Worker : At(u, "store") => worker'[u] = worker[u]
      BY <1>3, <1>4 DEF At
    <3>3. \A k : \A u \in Worker : Filling(u, k)' <=> Filling(u, k)
      BY <3>1, <3>2 DEF Filling
    <3> QED
      BY <3>1, <3>2, <3>3, <2>1, <1>5 DEF PieceInv, SlotInv, results
  <2> QED
    BY <2>5, <2>6, <2>7, <2>8 DEF PieceInv
<1>9. /\ (~answered' => scores' \in [Piece -> Scores])
      /\ (answered' => \A u \in Worker : At(u, "left")')
  BY <1>5, <1>3 DEF FInv, results, At
<1> QED
  BY <1>6, <1>7, <1>8, <1>9 DEF FInv

\* The channel is closed and empty.
LEMMA LeaveKeeps ==
  ASSUME FInv, NEW w \in Worker, Leave(w)
  PROVE  FInv'
<1> DEFINE r == [Free EXCEPT !.pc = "left"]
<1>1. TypeInv /\ WorkerInv
  BY DEF FInv
<1>2. r \in Workers /\ r.pc = "left"
  <2>1. ASSUME NEW d \in Workers
        PROVE  [d EXCEPT !.pc = "left"] \in Workers /\ [d EXCEPT !.pc = "left"].pc = "left"
    BY DEF Workers, Stages
  <2>2. Free \in Workers
    BY Pieces DEF Free, Workers, Stages
  <2> QED
    BY <2>1, <2>2
<1>3. Becomes(w, r) /\ worker[w].pc = "free" /\ toProcess = <<>>
  BY DEF Leave, At
<1> HIDE DEF r
<1>4. /\ worker' \in [Worker -> Workers] /\ worker'[w] = r
      /\ \A u \in Worker \ {w} : worker'[u] = worker[u]
  BY <1>1, <1>2, <1>3, OthersStay
<1>5. UNCHANGED <<verb, ledger, toProcess, results, answered>>
  BY DEF Leave
<1>6. TypeInv'
  BY <1>1, <1>4, <1>5 DEF TypeInv, results
<1>7. WorkerInv'
  BY <1>1, <1>2, <1>3, <1>4, <1>5 DEF WorkerInv, Busy, At
<1>8. ASSUME verb' = "predicate" PROVE PieceInv'
  <2>1. PieceInv
    BY <1>5, <1>8 DEF FInv
  <2> QED
    BY <2>1, <1>2, <1>3, <1>4, <1>5, NoPieceMoves DEF results, Busy, At
<1>9. /\ (~answered' => scores' \in [Piece -> Scores])
      /\ (answered' => \A u \in Worker : At(u, "left")')
  BY <1>3, <1>5 DEF FInv, results, At
<1> QED
  BY <1>6, <1>7, <1>8, <1>9 DEF FInv

\* Looking at a candidate.
LEMMA CheckKeeps ==
  ASSUME FInv, NEW w \in Worker, Check(w)
  PROVE  FInv'
<1>1. TypeInv /\ WorkerInv /\ worker[w] \in Workers
  BY DEF FInv, TypeInv
<1>2. worker[w].pc = "check" /\ Busy(w)
  BY DEF Check, At, Busy
<1>3. PICK r \in Workers : /\ Becomes(w, r) /\ r.pc = "checked"
                           /\ r.piece = worker[w].piece /\ r.score \in Scores
  <2>1. ASSUME NEW board \in Board \cup {BoardIDNotFount}, NEW score \in Scores
        PROVE  /\ [worker[w] EXCEPT !.pc = "checked", !.board = board, !.score = score] \in Workers
               /\ [worker[w] EXCEPT !.pc = "checked", !.board = board, !.score = score].pc = "checked"
               /\ [worker[w] EXCEPT !.pc = "checked", !.board = board, !.score = score].piece
                    = worker[w].piece
               /\ [worker[w] EXCEPT !.pc = "checked", !.board = board, !.score = score].score = score
    <3>1. score \in Int
      BY DEF Scores
    <3> QED
      BY <1>1, <3>1 DEF Workers, Stages
  <2>2. 0 \in Scores
    BY DEF Scores
  <2>3. \E board \in Board \cup {BoardIDNotFount}, score \in Scores :
          Becomes(w, [worker[w] EXCEPT !.pc = "checked", !.board = board, !.score = score])
    <3> DEFINE l == ledger[worker[w].piece]
    <3>1. CASE l = NotCached
      BY <3>1, <2>2 DEF Check
    <3>2. CASE l # NotCached
      <4>1. worker[w].piece \in Piece
        BY <1>1, <1>2 DEF WorkerInv
      <4>2. l \in {{k} : k \in Ledgers}
        BY <3>2, <4>1, <1>1 DEF TypeInv
      <4>3. PICK canAlloc \in l : \E board \in Allocate(canAlloc, OrinRequest) :
              Becomes(w, [worker[w] EXCEPT !.pc = "checked", !.board = board,
                                           !.score = NodeScore(canAlloc, board)])
        BY <3>2 DEF Check
      <4>4. canAlloc \in Ledgers
        BY <4>2
      <4> QED
        BY <4>3, <4>4, NodeScoreBound, AllocateBoard
    <3> QED
      BY <3>1, <3>2
  <2> QED
    BY <2>1, <2>3
<1>4. /\ worker' \in [Worker -> Workers] /\ worker'[w] = r
      /\ \A u \in Worker \ {w} : worker'[u] = worker[u]
  BY <1>1, <1>3, OthersStay
<1>5. UNCHANGED <<verb, ledger, toProcess, results, answered>>
  BY DEF Check
<1>6. TypeInv'
  BY <1>1, <1>4, <1>5 DEF TypeInv, results
<1>7. WorkerInv'
  BY <1>1, <1>2, <1>3, <1>4, <1>5 DEF WorkerInv, Busy, At
<1>8. ASSUME verb' = "predicate" PROVE PieceInv'
  <2>1. PieceInv
    BY <1>5, <1>8 DEF FInv
  <2> QED
    BY <2>1, <1>2, <1>3, <1>4, <1>5, NoPieceMoves DEF results, Busy, At
<1>9. /\ (~answered' => scores' \in [Piece -> Scores])
      /\ (answered' => \A u \in Worker : At(u, "left")')
  BY <1>2, <1>5 DEF FInv, results, At
<1> QED
  BY <1>6, <1>7, <1>8, <1>9 DEF FInv

\* A worker that found a board takes the next slot.
LEMMA CountInKeeps ==
  ASSUME FInv, NEW w \in Worker, CountIn(w)
  PROVE  FInv'
<1> DEFINE slot == filteredLen + 1
           r == [worker[w] EXCEPT !.pc = "store", !.score = slot]
<1>1. TypeInv /\ WorkerInv /\ PieceInv /\ worker[w] \in Workers /\ At(w, "checked")
  BY DEF FInv, TypeInv, CountIn
<1>2. slot \in 1..N /\ filteredLen \in Nat /\ filteredLen' = slot /\ slot \in Piece
  BY <1>1, RoomForOne, Pieces DEF TypeInv, CountIn
<1>3. Becomes(w, r)
  BY DEF CountIn
<1>4. r \in Workers /\ r.pc = "store" /\ r.score = slot /\ r.piece = worker[w].piece
  <2>1. ASSUME NEW d \in Workers, NEW k \in Int
        PROVE  /\ [d EXCEPT !.pc = "store", !.score = k] \in Workers
               /\ [d EXCEPT !.pc = "store", !.score = k].pc = "store"
               /\ [d EXCEPT !.pc = "store", !.score = k].score = k
               /\ [d EXCEPT !.pc = "store", !.score = k].piece = d.piece
    BY DEF Workers, Stages
  <2>2. slot \in Int
    BY <1>2
  <2> HIDE DEF slot
  <2> QED
    BY <1>1, <2>1, <2>2
<1> HIDE DEF r, slot
<1>5. /\ worker' \in [Worker -> Workers] /\ worker'[w] = r
      /\ \A u \in Worker \ {w} : worker'[u] = worker[u]
  BY <1>1, <1>3, <1>4, OthersStay
<1>6. UNCHANGED <<verb, ledger, toProcess, filterdNodes, failNodes, scores, answered>>
  BY DEF CountIn
<1>7. TypeInv'
  BY <1>1, <1>2, <1>5, <1>6 DEF TypeInv
<1>8. WorkerInv'
  BY <1>1, <1>4, <1>5, <1>6 DEF WorkerInv, Busy, At
<1>9. \A u \in Worker : (Busy(u)' <=> Busy(u)) /\ (Busy(u) => worker'[u].piece = worker[u].piece)
  BY <1>1, <1>4, <1>5 DEF Busy, At
<1>10. \A k \in 1..slot : k \in 1..filteredLen \/ k = slot
  BY <1>2 DEF slot
<1>11. filterdNodes[slot] = NoName /\ slot \notin 1..filteredLen /\ 1..filteredLen \subseteq 1..slot
  BY <1>1, <1>2 DEF PieceInv, SlotInv, slot
<1>12. \A i \in Piece : /\ Queued(i)' <=> Queued(i)
                        /\ Held(i)' <=> Held(i)
                        /\ Stored(i)' <=> Stored(i)
                        /\ Failed(i)' <=> Failed(i)
  <2>1. \A i \in Piece : Stored(i)' <=> Stored(i)
    BY <1>2, <1>6, <1>10, <1>11, Pieces DEF Stored
  <2> QED
    BY <2>1, <1>6, <1>9 DEF Queued, Held, Failed
<1>13. SlotInv'
  <2>1. \A u \in Worker : At(u, "store") => worker'[u] = worker[u] /\ At(u, "store")'
    BY <1>1, <1>5 DEF At
  <2>2. \A u \in Worker \ {w} : At(u, "store")' <=> At(u, "store")
    BY <1>5 DEF At
  <2>3. \A u \in Worker : At(u, "store")' => worker'[u].score \in 1..slot
    BY <1>1, <1>2, <1>4, <1>5, <1>11, <2>2 DEF PieceInv, SlotInv
  <2>4. \A u \in Worker : At(u, "store")' /\ worker'[u].score = slot <=> u = w
    BY <1>1, <1>4, <1>5, <1>11, <2>2 DEF PieceInv, SlotInv, At
  <2>5. \A k \in 1..filteredLen : \A u \in Worker : Filling(u, k)' <=> Filling(u, k)
    BY <1>1, <1>4, <1>5, <1>11, <2>2 DEF Filling, At
  <2>6. \A u, v \in Worker :
          At(u, "store")' /\ At(v, "store")' /\ worker'[u].score = worker'[v].score => u = v
    <3> SUFFICES ASSUME NEW u \in Worker, NEW v \in Worker, At(u, "store")', At(v, "store")',
                        worker'[u].score = worker'[v].score
                 PROVE  u = v
      OBVIOUS
    <3>1. CASE worker'[u].score = slot
      BY <3>1, <2>4
    <3>2. CASE worker'[u].score # slot
      <4>1. u # w /\ v # w
        BY <3>2, <1>4, <1>5
      <4> QED
        BY <4>1, <1>1, <1>5, <2>2 DEF PieceInv, SlotInv
    <3> QED
      BY <3>1, <3>2
  <2>7. \A k \in 1..slot : filterdNodes'[k] = NoName <=> \E u \in Worker : Filling(u, k)'
    <3> SUFFICES ASSUME NEW k \in 1..slot
                 PROVE  filterdNodes'[k] = NoName <=> \E u \in Worker : Filling(u, k)'
      OBVIOUS
    <3>1. CASE k = slot
      BY <3>1, <1>6, <1>11, <2>4 DEF Filling
    <3>2. CASE k # slot
      BY <3>2, <1>1, <1>6, <1>10, <2>5 DEF PieceInv, SlotInv
    <3> QED
      BY <3>1, <3>2
  <2>8. \A k \in (slot + 1)..N : filterdNodes'[k] = NoName
    BY <1>1, <1>2, <1>6, Pieces DEF PieceInv, SlotInv, slot
  <2>9. \A k, l \in 1..slot :
          filterdNodes'[k] = filterdNodes'[l] /\ filterdNodes'[k] # NoName => k = l
    BY <1>1, <1>6, <1>10, <1>11 DEF PieceInv, SlotInv
  <2> QED
    BY <1>2, <2>3, <2>6, <2>7, <2>8, <2>9 DEF SlotInv
<1>14. PieceInv'
  <2>1. OnePlace'
    BY <1>1, <1>12 DEF PieceInv, OnePlace
  <2>2. OneWorker'
    BY <1>1, <1>9 DEF PieceInv, OneWorker
  <2>3. QueuedOnce'
    BY <1>1, <1>6 DEF PieceInv, QueuedOnce
  <2> QED
    BY <2>1, <2>2, <2>3, <1>13 DEF PieceInv
<1>15. /\ (~answered' => scores' \in [Piece -> Scores])
       /\ (answered' => \A u \in Worker : At(u, "left")')
  BY <1>1, <1>6 DEF FInv, At
<1> QED
  BY <1>7, <1>8, <1>14, <1>15 DEF FInv

\* A worker that is done with its piece ranges over the channel again.
LEMMA DoneWithPiece ==
  ASSUME TypeInv, WorkerInv, NEW w \in Worker, Busy(w), Becomes(w, Free), UNCHANGED toProcess
  PROVE  /\ worker' \in [Worker -> Workers] /\ WorkerInv'
         /\ worker'[w].pc = "free" /\ \A u \in Worker \ {w} : worker'[u] = worker[u]
         /\ OneWorker => /\ OneWorker'
                         /\ \A i \in Piece : Held(i)' <=> Held(i) /\ i # worker[w].piece
<1>1. Free \in Workers /\ Free.pc = "free"
  BY Pieces DEF Free, Workers, Stages
<1>2. /\ worker' \in [Worker -> Workers] /\ worker'[w] = Free
      /\ \A u \in Worker \ {w} : worker'[u] = worker[u]
  BY <1>1, OthersStay
<1>3. WorkerInv'
  BY <1>1, <1>2 DEF WorkerInv, Busy, At
<1>4. ~Busy(w)' /\ \A u \in Worker \ {w} : Busy(u)' <=> Busy(u)
  BY <1>1, <1>2 DEF Busy
<1>5. ASSUME OneWorker PROVE OneWorker'
  BY <1>2, <1>4, <1>5 DEF OneWorker
<1>6. ASSUME OneWorker, NEW i \in Piece PROVE Held(i)' <=> Held(i) /\ i # worker[w].piece
  BY <1>2, <1>4, <1>6 DEF OneWorker, Held
<1> QED
  BY <1>1, <1>2, <1>3, <1>5, <1>6

\* Filling the slot that was counted in.
LEMMA StoreKeeps ==
  ASSUME FInv, NEW w \in Worker, Store(w)
  PROVE  FInv'
<1> DEFINE mine == worker[w].piece
           slot == worker[w].score
<1>1. TypeInv /\ WorkerInv /\ Busy(w) /\ At(w, "store") /\ Becomes(w, Free)
  BY DEF FInv, Store, Busy, At
<1>2. UNCHANGED <<verb, ledger, toProcess, filteredLen, failNodes, scores, answered>>
  BY DEF Store
<1>3. mine \in Piece /\ Candidates[mine] \in Names(Piece) /\ Candidates[mine] # NoName
  BY <1>1, Pieces DEF WorkerInv, Names
<1>4. filterdNodes' = [filterdNodes EXCEPT ![slot] = Candidates[mine]]
  BY DEF Store
<1> HIDE DEF mine, slot
<1>5. /\ worker' \in [Worker -> Workers] /\ WorkerInv'
      /\ worker'[w].pc = "free" /\ \A u \in Worker \ {w} : worker'[u] = worker[u]
      /\ OneWorker => /\ OneWorker'
                      /\ \A i \in Piece : Held(i)' <=> Held(i) /\ i # mine
  BY <1>1, <1>2, DoneWithPiece DEF mine
<1>6. TypeInv'
  <2>1. filterdNodes' \in [Piece -> Names(Piece) \cup {NoName}]
    BY <1>1, <1>3, <1>4 DEF TypeInv
  <2> QED
    BY <2>1, <1>1, <1>2, <1>5 DEF TypeInv
<1>7. ASSUME verb' = "predicate" PROVE PieceInv'
  <2>1. PieceInv /\ Held(mine)
    BY <1>1, <1>2, <1>7 DEF FInv, Held, mine
  <2>2. /\ slot \in 1..filteredLen /\ slot \in Piece /\ 1..filteredLen \subseteq Piece
        /\ filterdNodes[slot] = NoName
    <3>1. slot \in 1..filteredLen
      BY <1>1, <2>1 DEF PieceInv, SlotInv, slot
    <3>2. 1..filteredLen \subseteq Piece
      BY <1>1, Pieces DEF TypeInv
    <3>3. Filling(w, slot)
      BY <1>1 DEF Filling, slot
    <3>4. filterdNodes[slot] = NoName
      BY <3>1, <3>3, <2>1 DEF PieceInv, SlotInv
    <3> QED
      BY <3>1, <3>2, <3>4
  <2>3. /\ filterdNodes'[slot] = Candidates[mine]
        /\ \A k \in Piece \ {slot} : filterdNodes'[k] = filterdNodes[k]
    BY <1>1, <1>4, <2>2 DEF TypeInv
  <2>4. \A i \in Piece : Stored(i)' <=> Stored(i) \/ i = mine
    <3>1. ASSUME NEW i \in Piece, Stored(i) PROVE Stored(i)'
      <4>1. PICK k \in 1..filteredLen : filterdNodes[k] = Candidates[i]
        BY <3>1 DEF Stored
      <4>2. k # slot
        BY <4>1, <2>2, Pieces
      <4> QED
        BY <4>1, <4>2, <2>2, <2>3, <1>2 DEF Stored
    <3>2. ASSUME NEW i \in Piece, i = mine PROVE Stored(i)'
      <4>1. \E k \in 1..filteredLen : filterdNodes'[k] = Candidates[mine]
        BY <2>2, <2>3
      <4> QED
        BY <4>1, <3>2, <1>2 DEF Stored
    <3>3. ASSUME NEW i \in Piece, Stored(i)', i # mine PROVE Stored(i)
      <4>1. PICK k \in 1..filteredLen : filterdNodes'[k] = Candidates[i]
        BY <3>3, <1>2 DEF Stored
      <4>2. k # slot
        BY <4>1, <3>3, <2>3, <1>3, Pieces
      <4> QED
        BY <4>1, <4>2, <2>2, <2>3 DEF Stored
    <3> QED
      BY <3>1, <3>2, <3>3
  <2>5. \A i \in Piece : (Queued(i)' <=> Queued(i)) /\ (Failed(i)' <=> Failed(i))
    BY <1>2 DEF Queued, Failed
  <2>6. \A i \in Piece : Held(i)' <=> Held(i) /\ i # mine
    BY <1>5, <2>1 DEF PieceInv
  <2>7. OnePlace'
    BY <2>1, <2>4, <2>5, <2>6, <1>3 DEF PieceInv, OnePlace
  <2>8. OneWorker' /\ QueuedOnce'
    BY <2>1, <1>2, <1>5 DEF PieceInv, QueuedOnce
  <2>9. SlotInv'
    <3>1. ~At(w, "store")' /\ \A u \in Worker \ {w} : At(u, "store")' <=> At(u, "store")
      BY <1>5 DEF At
    <3>2. /\ \A u \in Worker : At(u, "store")' => worker'[u].score \in 1..filteredLen
          /\ \A u, v \in Worker :
               At(u, "store")' /\ At(v, "store")' /\ worker'[u].score = worker'[v].score => u = v
      BY <3>1, <1>5, <2>1 DEF PieceInv, SlotInv
    <3>3. \A u \in Worker \ {w} : At(u, "store") => worker[u].score # slot
      BY <1>1, <2>1 DEF PieceInv, SlotInv, slot
    <3>4. \A k \in 1..filteredLen : \A u \in Worker : Filling(u, k)' <=> Filling(u, k) /\ k # slot
      BY <3>1, <3>3, <1>1, <1>5 DEF Filling, slot
    <3>5. ASSUME NEW k \in 1..filteredLen
          PROVE  filterdNodes'[k] = NoName <=> \E u \in Worker : Filling(u, k)'
      BY <3>4, <2>1, <2>2, <2>3, <1>3 DEF PieceInv, SlotInv
    <3>6. \A k \in (filteredLen + 1)..N : filterdNodes'[k] = NoName
      BY <2>1, <2>2, <2>3, <1>1, Pieces DEF PieceInv, SlotInv, TypeInv
    <3>7. \A k \in 1..filteredLen : k # slot => filterdNodes[k] # Candidates[mine]
      BY <2>1, <1>3 DEF PieceInv, OnePlace, Stored
    <3>8. ASSUME NEW k \in 1..filteredLen, NEW l \in 1..filteredLen,
                 filterdNodes'[k] = filterdNodes'[l], filterdNodes'[k] # NoName
          PROVE  k = l
      BY <3>7, <3>8, <2>1, <2>2, <2>3 DEF PieceInv, SlotInv
    <3> QED
      BY <3>2, <3>5, <3>6, <3>8, <1>2 DEF SlotInv
  <2> QED
    BY <2>7, <2>8, <2>9 DEF PieceInv
<1>8. /\ (~answered' => scores' \in [Piece -> Scores])
      /\ (answered' => \A u \in Worker : At(u, "left")')
  BY <1>1, <1>2 DEF FInv, At
<1> QED
  BY <1>5, <1>6, <1>7, <1>8 DEF FInv

\* A candidate that does not fit.
LEMMA FailKeeps ==
  ASSUME FInv, NEW w \in Worker, Fail(w)
  PROVE  FInv'
<1> DEFINE mine == worker[w].piece
<1>1. TypeInv /\ WorkerInv /\ PieceInv /\ Busy(w) /\ At(w, "checked") /\ Becomes(w, Free)
  BY DEF FInv, Fail, Busy, At
<1>2. UNCHANGED <<verb, ledger, toProcess, filterdNodes, filteredLen, scores, answered>>
  BY DEF Fail
<1>3. mine \in Piece /\ Candidates[mine] \in Names(Piece) /\ Held(mine)
  BY <1>1 DEF WorkerInv, Names, Held
<1>4. failNodes' = failNodes \cup {Candidates[mine]}
  BY DEF Fail
<1> HIDE DEF mine
<1>5. /\ worker' \in [Worker -> Workers] /\ WorkerInv'
      /\ worker'[w].pc = "free" /\ \A u \in Worker \ {w} : worker'[u] = worker[u]
      /\ OneWorker' /\ \A i \in Piece : Held(i)' <=> Held(i) /\ i # mine
  BY <1>1, <1>2, DoneWithPiece DEF mine, PieceInv
<1>6. TypeInv'
  BY <1>1, <1>2, <1>3, <1>4, <1>5 DEF TypeInv
<1>7. \A i \in Piece : /\ Queued(i)' <=> Queued(i)
                       /\ Stored(i)' <=> Stored(i)
                       /\ Failed(i)' <=> Failed(i) \/ i = mine
  BY <1>2, <1>3, <1>4, Pieces DEF Queued, Stored, Failed
<1>8. OnePlace'
  BY <1>1, <1>3, <1>5, <1>7 DEF PieceInv, OnePlace
<1>9. SlotInv'
  <2>1. \A u \in Worker : At(u, "store")' <=> At(u, "store")
    BY <1>1, <1>5 DEF At
  <2>2. \A u \in Worker : At(u, "store") => worker'[u] = worker[u]
    BY <1>1, <1>5 DEF At
  <2>3. \A k : \A u \in Worker : Filling(u, k)' <=> Filling(u, k)
    BY <2>1, <2>2 DEF Filling
  <2> QED
    BY <2>1, <2>2, <2>3, <1>1, <1>2 DEF PieceInv, SlotInv
<1>10. QueuedOnce'
  BY <1>1, <1>2 DEF PieceInv, QueuedOnce
<1>11. /\ (~answered' => scores' \in [Piece -> Scores])
       /\ (answered' => \A u \in Worker : At(u, "left")')
  BY <1>1, <1>2 DEF FInv, At
<1> QED
  BY <1>5, <1>6, <1>8, <1>9, <1>10, <1>11 DEF FInv, PieceInv

\* A score is written at the index of its candidate.
LEMMA ScoreKeeps ==
  ASSUME FInv, NEW w \in Worker, Score(w)
  PROVE  FInv'
<1>1. TypeInv /\ WorkerInv /\ Busy(w) /\ At(w, "checked") /\ Becomes(w, Free)
  BY DEF FInv, Score, Busy, At
<1>2. UNCHANGED <<verb, ledger, toProcess, filterdNodes, filteredLen, failNodes, answered>>
  BY DEF Score
<1>3. /\ verb = "priority" /\ worker[w].score \in Scores
      /\ scores' = [scores EXCEPT ![worker[w].piece] = worker[w].score]
  BY <1>1 DEF Score, WorkerInv
<1>4. worker' \in [Worker -> Workers] /\ WorkerInv'
  BY <1>1, <1>2, DoneWithPiece
<1>5. ~answered /\ scores \in [Piece -> Scores]
  BY <1>1 DEF FInv, At
<1>6. scores' \in [Piece -> Scores] /\ scores' \in [Piece -> Int]
  BY <1>3, <1>5 DEF Scores
<1>7. TypeInv'
  BY <1>1, <1>2, <1>4, <1>6 DEF TypeInv
<1> QED
  BY <1>2, <1>3, <1>4, <1>5, <1>6, <1>7 DEF FInv

-----------------------------------------------------------------------------
\* The division of Normalize, by a positive number: it cuts towards zero.
LEMMA QuotientFacts ==
  ASSUME NEW m \in Nat \ {0}
  PROVE  /\ \A a \in Int : Quotient(a, m) \in Int /\ (Quotient(a, m) < 0 => a < 0)
         /\ \A a, b \in Int : a <= b => Quotient(a, m) <= Quotient(b, m)
         /\ \A k \in Nat : Quotient(k * m, m) = k
<1>1. \A a \in Int : a \div m \in Int /\ m * (a \div m) <= a /\ a < m * (a \div m) + m
  OBVIOUS
<1>2. \A q, r \in Int : m * q < m * r + m => q <= r
  OBVIOUS
<1>3. \A a, b \in Int : a <= b => a \div m <= b \div m
  <2> SUFFICES ASSUME NEW a \in Int, NEW b \in Int, a <= b PROVE a \div m <= b \div m
    OBVIOUS
  <2> DEFINE q == a \div m
             r == b \div m
  <2>1. q \in Int /\ r \in Int /\ m * q <= a /\ b < m * r + m
    BY <1>1
  <2> HIDE DEF q, r
  <2>2. m * q \in Int /\ m * r \in Int
    BY <2>1
  <2>3. m * q < m * r + m
    BY <2>1, <2>2
  <2> QED
    BY <1>2, <2>1, <2>3 DEF q, r
<1>4. \A a \in Int : a >= 0 => a \div m >= 0
  <2> SUFFICES ASSUME NEW a \in Int, a >= 0 PROVE a \div m >= 0
    OBVIOUS
  <2> DEFINE q == a \div m
  <2>1. q \in Int /\ a < m * q + m
    BY <1>1
  <2> HIDE DEF q
  <2>2. m * 0 < m * q + m
    BY <2>1
  <2>3. 0 <= q
    BY <1>2, <2>1, <2>2
  <2> QED
    BY <2>1, <2>3 DEF q
<1>5. \A k \in Nat : (k * m) \div m = k /\ k * m >= 0 /\ k * m \in Int
  <2> SUFFICES ASSUME NEW k \in Nat PROVE (k * m) \div m = k /\ k * m >= 0 /\ k * m \in Int
    OBVIOUS
  <2> DEFINE a == k * m
             q == a \div m
  <2>1. a \in Int /\ a >= 0 /\ a = m * k
    OBVIOUS
  <2> HIDE DEF a
  <2>2. q \in Int /\ m * q <= a /\ a < m * q + m
    BY <1>1, <2>1
  <2> HIDE DEF q
  <2>3. m * k < m * q + m /\ m * q < m * k + m
    BY <2>1, <2>2
  <2>4. k <= q /\ q <= k
    BY <1>2, <2>2, <2>3
  <2> QED
    BY <2>1, <2>2, <2>4 DEF a, q
<1>6. \A a \in Int : Quotient(a, m) \in Int /\ (Quotient(a, m) < 0 => a < 0)
  BY <1>1, <1>4 DEF Quotient
<1>7. ASSUME NEW a \in Int, NEW b \in Int, a <= b PROVE Quotient(a, m) <= Quotient(b, m)
  <2>1. CASE a >= 0
    BY <2>1, <1>3, <1>7 DEF Quotient
  <2>2. CASE b < 0
    <3>1. ~(a >= 0) /\ ~(b >= 0) /\ -b \in Int /\ -a \in Int /\ -b <= -a
      BY <2>2, <1>7
    <3>2. (-b) \div m <= (-a) \div m /\ (-b) \div m \in Int /\ (-a) \div m \in Int
      BY <3>1, <1>1, <1>3
    <3> QED
      BY <3>1, <3>2 DEF Quotient
  <2>3. CASE a < 0 /\ b >= 0
    <3>1. -a \in Int /\ -a >= 0 /\ ~(a >= 0)
      BY <2>3
    <3>2. (-a) \div m >= 0 /\ (-a) \div m \in Int /\ b \div m >= 0 /\ b \div m \in Int
      BY <3>1, <2>3, <1>1, <1>4
    <3> QED
      BY <3>1, <3>2, <2>3 DEF Quotient
  <2> QED
    BY <2>1, <2>2, <2>3
<1>8. \A k \in Nat : Quotient(k * m, m) = k
  BY <1>5 DEF Quotient
<1> QED
  BY <1>6, <1>7, <1>8

\* The scores are bounded, so there is a greatest one.
LEMMA GreatestExists ==
  ASSUME NEW S \in SUBSET Scores, S # {}
  PROVE  \E m \in S : \A k \in S : k <= m
<1> DEFINE top == IF EmptyScore > 0 THEN EmptyScore ELSE 0
           below == {top - k : k \in S}
           less == OpToRel(<, Nat)
<1>1. top \in Int /\ \A k \in S : k \in Int /\ k <= top
  BY EmptyScoreAssumption DEF Scores
<1> HIDE DEF top
<1>2. below \subseteq Nat /\ below # {}
  BY <1>1
<1>3. \A x, y \in Nat : <<x, y>> \in less <=> x < y
  BY DEF OpToRel
<1>4. PICK x \in below : \A y \in below : ~(<<y, x>> \in less)
  <2> HIDE DEF below
  <2> QED
    BY <1>2, NatLessThanWellFounded, WFMin
<1> HIDE DEF less
<1>5. PICK m \in S : x = top - m
  OBVIOUS
<1>6. ASSUME NEW k \in S PROVE k <= m
  <2>1. top - k \in below /\ top - k \in Nat /\ x \in Nat
    BY <1>2
  <2>2. ~(top - k < x)
    BY <2>1, <1>3, <1>4
  <2> QED
    BY <2>2, <1>1, <1>5
<1> QED
  BY <1>6

(***************************************************************************)
(* What Normalize (util.go:46-63) does to the scores of a request: it      *)
(* keeps their order and raises none above maxPriority.                    *)
(***************************************************************************)
LEMMA NormalizeFacts ==
  ASSUME NEW s \in [Piece -> Scores], NEW t, t = Normalize(10, s)
  PROVE  /\ t \in [Piece -> Int]
         /\ \A i \in Piece : t[i] <= 10 /\ (t[i] < 0 => s[i] < 0)
         /\ \A i, j \in Piece : s[i] <= s[j] => t[i] <= t[j]
         /\ (\E i \in Piece : s[i] > 0) => \E i \in Piece : t[i] = 10
<1> DEFINE positive == {s[i] : i \in DOMAIN s} \cup {0}
           maxCount == CHOOSE m \in positive : \A k \in positive : k <= m
<1>1. positive \subseteq Scores /\ DOMAIN s = Piece
  BY DEF Scores
<1>2. maxCount \in positive /\ \A k \in positive : k <= maxCount
  <2>1. \E m \in positive : \A k \in positive : k <= m
    <3> HIDE DEF positive
    <3>1. positive # {}
      BY DEF positive
    <3> QED
      BY <1>1, <3>1, GreatestExists
  <2> HIDE DEF positive
  <2> QED
    BY <2>1
<1>3. t = IF maxCount = 0 THEN s ELSE [i \in Piece |-> Quotient(10 * s[i], maxCount)]
  BY <1>1 DEF Normalize
<1> HIDE DEF maxCount
<1>4. \A i \in Piece : s[i] \in Int /\ s[i] <= maxCount /\ s[i] \in positive
  BY <1>1, <1>2 DEF Scores
<1>5. maxCount \in Nat
  <2>1. 0 <= maxCount /\ maxCount \in Int
    BY <1>1, <1>2 DEF Scores
  <2> QED
    BY <2>1
<1>6. CASE maxCount = 0
  BY <1>3, <1>4, <1>6
<1>7. CASE maxCount # 0
  <2>1. maxCount \in Nat \ {0}
    BY <1>5, <1>7
  <2>2. t \in [Piece -> Int] /\ \A i \in Piece : t[i] = Quotient(10 * s[i], maxCount)
    <3>1. \A i \in Piece : 10 * s[i] \in Int
      BY <1>4
    <3>2. \A i \in Piece : Quotient(10 * s[i], maxCount) \in Int
      BY <2>1, <3>1, QuotientFacts
    <3>3. t = [i \in Piece |-> Quotient(10 * s[i], maxCount)]
      BY <1>3, <1>7
    <3> QED
      BY <3>2, <3>3
  <2>3. Quotient(10 * maxCount, maxCount) = 10
    BY <2>1, QuotientFacts
  <2>4. ASSUME NEW i \in Piece PROVE t[i] <= 10 /\ (t[i] < 0 => s[i] < 0)
    <3>1. 10 * s[i] \in Int /\ 10 * maxCount \in Int /\ 10 * s[i] <= 10 * maxCount
      BY <1>4, <2>1
    <3>2. t[i] <= 10
      BY <3>1, <2>1, <2>2, <2>3, QuotientFacts
    <3>3. t[i] < 0 => 10 * s[i] < 0
      BY <3>1, <2>1, <2>2, QuotientFacts
    <3> QED
      BY <3>2, <3>3, <1>4
  <2>5. ASSUME NEW i \in Piece, NEW j \in Piece, s[i] <= s[j] PROVE t[i] <= t[j]
    <3>1. 10 * s[i] \in Int /\ 10 * s[j] \in Int /\ 10 * s[i] <= 10 * s[j]
      BY <1>4, <2>5
    <3> QED
      BY <3>1, <2>1, <2>2, QuotientFacts
  <2>6. \E i \in Piece : t[i] = 10
    <3>1. PICK i \in Piece : s[i] = maxCount
      BY <1>1, <1>2, <1>7
    <3> QED
      BY <3>1, <2>2, <2>3
  <2> QED
    BY <2>2, <2>4, <2>5, <2>6
<1> QED
  BY <1>6, <1>7

\* The answer: a request to score normalizes what the workers wrote.
LEMMA AnswerKeeps ==
  ASSUME FInv, Answer
  PROVE  FInv'
<1>1. TypeInv /\ WorkerInv /\ scores \in [Piece -> Scores]
  BY DEF FInv, Answer
<1>2. UNCHANGED <<verb, ledger, toProcess, worker, filterdNodes, filteredLen, failNodes>>
  BY DEF Answer
<1>3. answered' = TRUE /\ \A w \in Worker : At(w, "left")
  BY DEF Answer
<1>4. scores' \in [Piece -> Int]
  BY <1>1, NormalizeFacts DEF Answer, TypeInv
<1>5. TypeInv'
  BY <1>1, <1>2, <1>3, <1>4 DEF TypeInv
<1>6. WorkerInv'
  BY <1>1, <1>2 DEF WorkerInv, Busy, At
<1>7. ASSUME verb' = "predicate" PROVE PieceInv'
  <2>1. PieceInv
    BY <1>2, <1>7 DEF FInv
  <2> QED
    BY <2>1, <1>2, NoPieceMoves DEF Busy, At
<1> QED
  BY <1>2, <1>3, <1>5, <1>6, <1>7 DEF FInv, At

\* A ledger that changes meanwhile stays a ledger.
LEMMA LedgerChangesKeeps ==
  ASSUME FInv, NEW i \in Piece, LedgerChanges(i)
  PROVE  FInv'
<1>1. TypeInv /\ WorkerInv
  BY DEF FInv
<1>2. UNCHANGED <<verb, toProcess, worker, results, answered>>
  BY DEF LedgerChanges
<1>3. ledger' \in [Piece -> {NotCached} \cup {{l} : l \in Ledgers}]
  BY <1>1 DEF LedgerChanges, TypeInv
<1>4. TypeInv'
  BY <1>1, <1>2, <1>3 DEF TypeInv, results
<1>5. WorkerInv'
  BY <1>1, <1>2 DEF WorkerInv, Busy, At
<1>6. ASSUME verb' = "predicate" PROVE PieceInv'
  <2>1. PieceInv
    BY <1>2, <1>6 DEF FInv
  <2> QED
    BY <2>1, <1>2, NoPieceMoves DEF Busy, At, results
<1> QED
  BY <1>2, <1>4, <1>5, <1>6 DEF FInv, At, results

-----------------------------------------------------------------------------
\* Every step keeps the inductive invariant.
LEMMA NextFInv == FInv /\ [Next]_vars => FInv'
<1> SUFFICES ASSUME FInv, [Next]_vars PROVE FInv'
  OBVIOUS
<1>1. ASSUME NEW w \in Worker, WorkerStep(w) PROVE FInv'
  BY <1>1, TakeKeeps, LeaveKeeps, CheckKeeps, CountInKeeps, StoreKeeps, FailKeeps, ScoreKeeps
     DEF WorkerStep
<1>2. CASE Answer
  BY <1>2, AnswerKeeps
<1>3. ASSUME NEW i \in Piece, LedgerChanges(i) PROVE FInv'
  BY <1>3, LedgerChangesKeeps
<1>4. CASE UNCHANGED vars
  <2>1. UNCHANGED <<verb, ledger, toProcess, worker, filterdNodes, filteredLen, failNodes,
                    scores, answered>>
    BY <1>4 DEF vars, results
  <2>2. TypeInv' /\ WorkerInv'
    BY <2>1 DEF FInv, TypeInv, WorkerInv, Busy, At
  <2>3. PieceInv => PieceInv'
    BY <2>1, NoPieceMoves DEF Busy, At
  <2> QED
    BY <2>1, <2>2, <2>3 DEF FInv, At
<1> QED
  BY <1>1, <1>2, <1>3, <1>4 DEF Next

(***************************************************************************)
(* Every piece is queued, in one worker's hands, in one slot or failed, at *)
(* one of these places only, whatever the goroutines interleave.           *)
(***************************************************************************)
THEOREM FInvHolds == Spec => []FInv
<1>1. Init => FInv
  BY InitFInv
<1>2. FInv /\ [Next]_vars => FInv'
  BY NextFInv
<1> QED
  BY <1>1, <1>2, PTL DEF Spec

(***************************************************************************)
(* The filter answers for every candidate exactly once: the nodes that fit *)
(* fill the first filteredLen slots, all others are failed nodes.          *)
(***************************************************************************)
THEOREM EveryCandidateAnsweredHolds == Spec => []EveryCandidateAnswered
<1>1. FInv => EveryCandidateAnswered
  BY AnsweredFromInv
<1> QED
  BY <1>1, FInvHolds, PTL

(***************************************************************************)
(* Scores keep their order through Normalize, are at most 10, and the best *)
(* of them is 10 when it is positive: for every score binpack can give,    *)
(* the negative ones included.                                             *)
(***************************************************************************)
THEOREM NormalizeKeepsOrderHolds == Spec => NormalizeKeepsOrder
<1> DEFINE Kept ==
      /\ \A i \in Piece : scores'[i] <= 10 /\ (scores'[i] < 0 => scores[i] < 0)
      /\ \A i, j \in Piece : scores[i] <= scores[j] => scores'[i] <= scores'[j]
      /\ (\E i \in Piece : scores[i] > 0) => \E i \in Piece : scores'[i] = 10
<1>1. FInv /\ [Next]_vars => [answered' /\ verb = "priority" => Kept]_answered
  <2> SUFFICES ASSUME FInv, [Next]_vars, answered' # answered, answered', verb = "priority"
               PROVE  Kept
    OBVIOUS
  <2>1. Answer
    <3>1. \A w \in Worker : ~WorkerStep(w)
      BY DEF WorkerStep, Take, Leave, Check, CountIn, Store, Fail, Score
    <3>2. \A i \in Piece : ~LedgerChanges(i)
      BY DEF LedgerChanges
    <3>3. ~UNCHANGED vars
      BY DEF vars
    <3> QED
      BY <3>1, <3>2, <3>3 DEF Next
  <2>2. scores \in [Piece -> Scores] /\ scores' = Normalize(10, scores)
    BY <2>1 DEF Answer, FInv
  <2> QED
    BY <2>2, NormalizeFacts
<1> QED
  BY <1>1, FInvHolds, PTL DEF Spec, NormalizeKeepsOrder
=============================================================================
