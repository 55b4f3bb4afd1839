------------------------------- MODULE Trials -------------------------------
(***************************************************************************)
(* The trials of a program that starts from sources (bfs, sssp, bc):       *)
(* BenchmarkKernel of bench/include/gapbs/benchmark.h, the two pickers of  *)
(* main, one for the kernel and one for the verifier, and the analysis of  *)
(* the last result with TopK.                                              *)
(***************************************************************************)
EXTENDS Integers, Sequences, FiniteSets, Functions

CONSTANTS
  N,
  NumTrials,     \* -n
  Iters,         \* the values of num_iters: 1 but for bc -i
  Streams,       \* what udist_() may return, each a sequence that is repeated
  MaxScore, K    \* a result has a score of 0 .. MaxScore; TopK lists K of them

NodeID == 0 .. (N - 1)
None == -1

TrialsAssumption ==
  /\ N \in Nat \ {0} /\ NumTrials \in Nat \ {0} /\ Iters \subseteq Nat
  /\ Streams \subseteq Seq(NodeID) \ {<< >>}
  /\ MaxScore \in Nat /\ K \in Nat \ {0}

VARIABLES
  out_degree, org_ids,          \* of the graph: its vertices, and where the file's have gone
  given_source, num_iters, stream,
  sp, vsp,                      \* how far each picker is in the stream
  iter,
  ran,                          \* the sources of this trial's kernel
  all_ran,                      \* those of every trial, for the properties
  checked,                      \* the sources the verifier took
  scores, top_k,
  phase

vars == <<out_degree, org_ids, given_source, num_iters, stream, sp, vsp, iter, ran, all_ran,
          checked, scores, top_k, phase>>
graph == <<out_degree, org_ids, given_source, num_iters, stream>>

udist(n) == stream[n + 1]

Init ==
  /\ out_degree \in [NodeID -> {0, 1}] /\ org_ids \in Bijection(NodeID, NodeID)
  /\ given_source \in NodeID \union {None} /\ num_iters \in Iters /\ stream \in Streams
  /\ sp = 0 /\ vsp = 0 /\ iter = 0
  /\ ran = << >> /\ all_ran = << >> /\ checked = << >>
  /\ scores = << >> /\ top_k = << >>
  /\ phase = "kernel"

-----------------------------------------------------------------------------

\* PickNextRand draws the file's vertices and looks up what they are now.
Source(n) == IF given_source # None THEN given_source ELSE org_ids[udist(n)]
Usable(n) == given_source # None \/ out_degree[Source(n)] # 0
Drawn(n) == IF given_source # None THEN n ELSE (n + 1) % Len(stream)

DrawAgain ==
  /\ phase = "kernel" /\ Len(ran) < num_iters /\ ~Usable(sp)
  /\ sp' = Drawn(sp)
  /\ UNCHANGED <<graph, vsp, iter, ran, all_ran, checked, scores, top_k, phase>>

\* One source of the kernel.
RunFrom ==
  /\ phase = "kernel" /\ Len(ran) < num_iters /\ Usable(sp)
  /\ ran' = Append(ran, Source(sp)) /\ all_ran' = Append(all_ran, Source(sp))
  /\ sp' = Drawn(sp)
  /\ UNCHANGED <<graph, vsp, iter, checked, scores, top_k, phase>>

Last == iter = NumTrials - 1

KernelDone ==
  /\ phase = "kernel" /\ Len(ran) = num_iters
  /\ \E s \in [NodeID -> 0 .. MaxScore] : scores' = IF Last THEN s ELSE scores
  /\ phase' = IF Last THEN "analyse" ELSE "verify"
  /\ UNCHANGED <<graph, sp, vsp, iter, ran, all_ran, checked, top_k>>

Before(p, q) == p[1] > q[1] \/ (p[1] = q[1] /\ p[2] > q[2])

\* push_back, and the stable sort in descending order.
Inserted(top, pair) ==
  LET at == Cardinality({k \in DOMAIN top : ~Before(pair, top[k])})
  IN  SubSeq(top, 1, at) \o <<pair>> \o SubSeq(top, at + 1, Len(top))

\* min_so_far
BackOf(top) == top[Len(top)][1]

TopK(k) ==
  LET after[n \in 0 .. N] ==
        IF n = 0 THEN << >>
        ELSE LET top == after[n - 1]
                 kvp == <<scores[n - 1], n - 1>>
             IN  IF Len(top) < k \/ kvp[1] > BackOf(top)
                 THEN SubSeq(Inserted(top, kvp), 1, IF Len(top) < k THEN Len(top) + 1 ELSE k)
                 ELSE top
  IN  after[N]

\* stats(g, result)
PrintTopScores ==
  /\ phase = "analyse"
  /\ top_k' = TopK(K)
  /\ phase' = "verify"
  /\ UNCHANGED <<graph, sp, vsp, iter, ran, all_ran, checked, scores>>

\* Variant: the verifier picks with the kernel's picker.
PickedBySp == sp
PickedByVsp == vsp

SkipUnusable ==
  /\ phase = "verify" /\ Len(checked) < num_iters /\ ~Usable(PickedByVsp)
  /\ vsp' = Drawn(PickedByVsp)
  /\ UNCHANGED <<graph, sp, iter, ran, all_ran, checked, scores, top_k, phase>>

VerifyFrom ==
  /\ phase = "verify" /\ Len(checked) < num_iters /\ Usable(PickedByVsp)
  /\ checked' = Append(checked, Source(PickedByVsp))
  /\ vsp' = Drawn(PickedByVsp)
  /\ UNCHANGED <<graph, sp, iter, ran, all_ran, scores, top_k, phase>>

NextTrial ==
  /\ phase = "verify" /\ Len(checked) = num_iters
  /\ iter' = iter + 1
  /\ IF Last THEN phase' = "done" /\ UNCHANGED <<ran, checked>>
     ELSE phase' = "kernel" /\ ran' = << >> /\ checked' = << >>
  /\ UNCHANGED <<graph, sp, vsp, all_ran, scores, top_k>>

Finished == phase = "done" /\ UNCHANGED vars

Next ==
  \/ DrawAgain \/ RunFrom \/ KernelDone \/ PrintTopScores
  \/ SkipUnusable \/ VerifyFrom \/ NextTrial \/ Finished

Spec == Init /\ [][Next]_vars

-----------------------------------------------------------------------------

(***************************************************************************)
(* Every result is checked against the sources it was computed from,       *)
(* although kernel and verifier pick theirs independently, and may pick    *)
(* several in a trial.                                                     *)
(***************************************************************************)
VerifiedFromItsSources ==
  \A k \in DOMAIN checked : k \in DOMAIN ran /\ checked[k] = ran[k]

\* The vertices of the file a picker settles on, whatever the order of the graph.
Settled == SelectSeq([n \in 1 .. Len(stream) |-> stream[n]], LAMBDA v : out_degree[org_ids[v]] # 0)

(***************************************************************************)
(* The trials start from the same vertices of the file, in the same order, *)
(* in whatever order the graph is: orders are compared on the same work.   *)
(***************************************************************************)
SameSourcesInEveryOrder ==
  given_source = None =>
    \A k \in DOMAIN all_ran :
      Settled # << >> /\ all_ran[k] = org_ids[Settled[((k - 1) % Len(Settled)) + 1]]

(***************************************************************************)
(* TopK lists K different vertices (all of them if there are fewer), the   *)
(* best first, and none that is left out has a better score.               *)
(***************************************************************************)
TopIsTop ==
  top_k # << >> =>
    /\ Len(top_k) = (IF K < N THEN K ELSE N)
    /\ \A i, j \in DOMAIN top_k : i < j => top_k[i][1] >= top_k[j][1] /\ top_k[i][2] # top_k[j][2]
    /\ \A v \in NodeID :
         \/ \E i \in DOMAIN top_k : top_k[i] = <<scores[v], v>>
         \/ scores[v] <= top_k[Len(top_k)][1]
=============================================================================
