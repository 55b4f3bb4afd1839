----------------------------- MODULE MCBuilders -----------------------------
(***************************************************************************)
(* What stands between a command line and a kernel, and around the trials: *)
(* reading and writing graphs, building, relabelling and cutting them,     *)
(* counting triangles, the options and the trials themselves.  A behaviour *)
(* runs one component, `which'; the variables of CSRBuild keep an initial  *)
(* state, and those the component does not use are not set.  A name that   *)
(* CSRBuild uses too begins with o_ here, and a single letter has a _.     *)
(***************************************************************************)
EXTENDS CSRBuild, FiniteSetsExt

CONSTANTS
  Parts,                          \* the components of this run
  M, L,                           \* N of the components with larger graphs
  Reorderings, ReorderingGraphs, SizeValues, IdLimit,  \* constants of Reordering
  RelabelGraphs,                  \* Graphs of Relabelled
  NumTrials, Iters, Streams, MaxScore, K,              \* constants of Trials
  Programs, Options, Length,      \* the command lines: at most Length of these options
  Runs, Reorders,                 \* bounds of Conversion
  Segments

-----------------------------------------------------------------------------
(* Edge lists: with repeated and opposite edges and a self loop, and with  *)
(* two weights of one edge; and every set of edges with one self loop.     *)

ListEdges == {<<0, 1, 2>>, <<0, 1, 1>>, <<1, 0, 2>>, <<0, 2, 1>>, <<2, 2, 1>>}
Lists == {<<x, y, z>> : x, y, z \in ListEdges}

Loops(V) == {<<v, v, 1>> : v \in V}
EdgeSets == SUBSET ({<<v, w, 1>> : v, w \in 0 .. (M - 1)} \ Loops(1 .. (M - 1)))

\* Lists on three vertices without a symmetry, and weights, for files.
EdgeLists ==
  {<< <<0, <<1, 2>>>>, <<2, <<1, 1>>>>, <<2, <<0, 2>>>> >>,
   << <<1, <<0, 2>>>>, <<0, <<1, 1>>>>, <<2, <<2, 1>>>> >>,
   << <<0, <<1, 1>>>>, <<2, <<2, 2>>>> >>}
SomeWeight(k) == 1 + (k % 3)

-----------------------------------------------------------------------------
(* Graphs. *)

Increasing(S) == Listed(S, <)

Directed(V, E) ==
  [directed |-> TRUE,
   out |-> [v \in V |-> Increasing({w \in V : <<v, w>> \in E})],
   in  |-> [v \in V |-> Increasing({w \in V : <<w, v>> \in E})]]

Undirected(V, E) ==
  LET lists == [v \in V |-> Increasing({w \in V : {v, w} \in E})]
  IN  [directed |-> FALSE, out |-> lists, in |-> lists]

\* Every neighbour with one weight.
Weighing(graph, weight) ==
  LET weigh(lists) == [v \in DOMAIN lists |->
                         [k \in 1 .. Len(lists[v]) |-> <<lists[v][k], weight>>]]
  IN  [graph EXCEPT !.out = weigh(@), !.in = weigh(@)]

\* Graphs without a symmetry, so that a vertex taken for another one shows.
UnweightedGraphs ==
  {Weighing(Directed(0 .. (M - 1), {<<0, 1>>, <<0, 2>>, <<1, 2>>, <<3, 0>>}), 1),
   Weighing(Directed(0 .. (M - 1), {<<2, 0>>, <<0, 2>>, <<1, 0>>, <<3, 3>>}), 1),
   Weighing(Undirected(0 .. (M - 1), {{0, 1}, {1, 2}}), 1)}
WeightedGraphs == {Weighing(Undirected(0 .. (M - 1), {{0, 1}}), 2)}

RelabelledGraphs ==
  {Directed(0 .. (M - 1), E) : E \in SUBSET {<<0, 1>>, <<1, 2>>, <<2, 1>>, <<3, 1>>, <<2, 2>>}}
    \union {Undirected(0 .. (M - 1), E) : E \in SUBSET kSubset(2, 0 .. 2)}

\* Every graph without self loops.
SlicedGraphs ==
  LET pairs == {p \in NodeID \X NodeID : p[1] # p[2]}
  IN  {Directed(NodeID, E) : E \in SUBSET pairs}
        \union {Undirected(NodeID, E) : E \in SUBSET kSubset(2, NodeID)}

SimpleRows == {Undirected(0 .. (L - 1), E).out : E \in SUBSET kSubset(2, 0 .. (L - 1))}

OfPairs(directed, E) ==
  [directed |-> directed, n |-> L,
   out |-> [v \in 0 .. (L - 1) |->
              {w \in 0 .. (L - 1) : <<v, w>> \in E \/ (~ directed /\ <<w, v>> \in E)}]]

Ascents == {p \in (0 .. (L - 1)) \X (0 .. (L - 1)) : p[1] < p[2]}
SimpleGraphs == {OfPairs(FALSE, E) : E \in SUBSET Ascents}

\* Each pair of vertices joined or not; a self loop and an edge in both
\* directions; and undirected, with a self loop.
PartitionedGraphs ==
  {OfPairs(TRUE, E) : E \in SUBSET Ascents \ {{}}}
    \union {OfPairs(TRUE, E \union {<<1, 1>>, <<2, 1>>}) :
              E \in {F \in SUBSET Ascents : <<0, 1>> \in F /\ <<2, 4>> \notin F}}
    \union {OfPairs(FALSE, E \union {<<0, 1>>, <<1, 1>>}) :
              E \in SUBSET {<<0, 2>>, <<1, 2>>, <<2, 3>>, <<4, 4>>}}
SomeSegments ==
  {[p_type |-> y, p_n |-> s[1], p_m |-> s[2]] :
     y \in {0, 1}, s \in {<<1, 1>>, <<2, 1>>, <<2, 2>>, <<1, 3>>}}

-----------------------------------------------------------------------------
(* Other inputs. *)

Arrays == {[A |-> Increasing(S), B |-> Increasing(T), dest |-> x] :
             S \in SUBSET (0 .. 4), T \in SUBSET (0 .. 4), x \in {2, 4}}

\* Rows with every set of references for the first line of nine vertices, and
\* a second line, not full, without a symmetry.
TiledRows ==
  LET row(S, v) == CASE v = 1 -> Increasing(S) [] v = 9 -> <<1, 8>> [] OTHER -> << >>
  IN  {[rows |-> [v \in 1 .. 9 |-> row(S, v)], numVtxPerLine |-> 5,
        numEpochs |-> s[1], numTiles |-> s[2]] :
         S \in SUBSET (0 .. 8), s \in {<<2, 2>>, <<4, 10>>, <<9, 4>>}}

\* Numbers that repeat with a period of 16 and take every value.
SomeRng(seed, k) == (5 * k * k + 3 * k + 7 * seed) % 16

\* Sequences of at most Length clauses: an option, and the words that may
\* follow it.
Words(o) ==
  CASE o = "f" -> {<< >>}
    [] o = "o" -> {<<3>>, <<13, 2, 8>>, <<13, 2, 99>>, <<14, 7, 0>>, <<14, 99>>}
    [] o = "j" -> {<<1>>, <<1, 2, 3>>}
    [] o = "b" -> {<<1>>} [] o = "e" -> {<<1>>, <<2>>} [] o \in {"p", "y", "V", "x", "q"} -> {<<3>>}
    [] OTHER -> {<<4>>}
Bare == {"h", "s", "m", "l", "S", "a", "v"}
Clauses ==
  {[opt |-> o, has |-> FALSE, word |-> << >>] : o \in (Options \intersect Bare) \union {"o"}}
    \union UNION {{[opt |-> o, has |-> TRUE, word |-> w] : w \in Words(o)} : o \in Options \ Bare}
SomeCommands(p) == UNION {[1 .. k -> Clauses] : k \in 0 .. Length}

SomeStreams == {<<0, 1, 2>>, <<2, 2, 1>>, <<1, 0>>}
-----------------------------------------------------------------------------

VARIABLES
  which, edges, symmetrize, o_neighs, inv, invs_needed, total_missing_inv, tail_index,
  n_, o_el, o_offsets, i_, o_phase, original, remaining, max_id, o_built, g, org_ids,
  new_ids, rows, o_todo, method, outDegree, result, createBothCSRs, claimedVtxs, randID,
  sides, o_pc, input, cli, trust_vertex, trust_endofprocess, partitions, flat, th,
  total, range, modifyBothDestlists, csr, inv_csr, node_degree_pairs, u_, j_,
  it, A_, B_, dest, a_, b_, count, base, weighted, file, labels, reorders, runs,
  lastRef, compressedOffsets, offsetMatrix, o_kind, num_edges, blocks, program, command,
  argv, optind, ran, out_degree, given_source, num_iters, stream, sp, vsp, iter,
  all_ran, checked, scores, top_k

all ==
  <<which, vars,
    edges, symmetrize, o_neighs, inv, invs_needed, total_missing_inv, tail_index, n_,
    o_el, o_offsets, i_, o_phase, original, remaining, max_id, o_built, g, org_ids,
    new_ids, rows, o_todo, method, outDegree, result, createBothCSRs, claimedVtxs,
    randID, sides, o_pc, input, cli, trust_vertex, trust_endofprocess, partitions, flat,
    th, total, range, modifyBothDestlists, csr, inv_csr, node_degree_pairs, u_,
    j_, it, A_, B_, dest, a_, b_, count, base, weighted, file, labels, reorders, runs,
    lastRef, compressedOffsets, offsetMatrix, o_kind, num_edges, blocks, program,
    command, argv, optind, ran, out_degree, given_source, num_iters, stream, sp, vsp,
    iter, all_ran, checked, scores, top_k>>

InPlace == INSTANCE InPlaceCSR
             WITH N <- M, Inputs <- EdgeSets, el <- o_el, offsets <- o_offsets,
                  neighs <- o_neighs, n <- n_, i <- i_, phase <- o_phase
Reorder == INSTANCE Reordering
             WITH N <- M, Graphs <- ReorderingGraphs, Lengths <- Reorderings,
                  todo <- o_todo, built <- o_built, phase <- o_phase
Relabel == INSTANCE Relabelled
             WITH N <- M, Graphs <- RelabelGraphs, todo <- o_todo, pc <- o_pc
Partition == INSTANCE Partitions
               WITH Graphs <- PartitionedGraphs, KeepSelf <- TRUE, MiddleDegree <- 3,
                    kept_el <- o_el, phase <- o_phase
Slice == INSTANCE Slicer
           WITH Graphs <- SlicedGraphs, phase <- o_phase, todo <- o_todo,
                offsets <- o_offsets
Triangle == INSTANCE Triangles
              WITH N <- L, Graphs <- SimpleRows, u <- u_, i <- i_, j <- j_, pc <- o_pc
Intersect == INSTANCE Intersections
               WITH Inputs <- Arrays, SizeThreshold <- 2, RatioThreshold <- 1, A <- A_,
                    B <- B_, a <- a_, b <- b_, pc <- o_pc
Convert == INSTANCE Conversion
             WITH Inputs <- EdgeLists, RandomWeight <- SomeWeight, pc <- o_pc
Tile == INSTANCE Tiles WITH Inputs <- TiledRows, Bits <- 2, todo <- o_todo, pc <- o_pc
Generate == INSTANCE Generator
              WITH Kinds <- {"uniform", "rmat", "weights"}, Scale <- 2,
                   Sizes <- {1, 5, 6}, BlockSize <- 2, Bits <- 4, Rng <- SomeRng,
                   MaxWeight <- 5, kind <- o_kind, el <- o_el, phase <- o_phase
Cli == INSTANCE CommandLine WITH Commands <- SomeCommands, phase <- o_phase
Trial == INSTANCE Trials WITH phase <- o_phase

ASSUME OfInPlace == InPlace!InPlaceAssumption
ASSUME OfReorder == Reorder!ReorderingAssumption
ASSUME OfRelabel == Relabel!RelabelledAssumption
ASSUME OfTrial == Trial!TrialsAssumption

-----------------------------------------------------------------------------
(* Variables and the components that use them. *)

Frame(Still(_, _)) ==
  /\ Still(edges, {"in-place"}) /\ Still(symmetrize, {"in-place"})
  /\ Still(o_neighs, {"in-place"}) /\ Still(inv, {"in-place"})
  /\ Still(invs_needed, {"in-place"}) /\ Still(total_missing_inv, {"in-place"})
  /\ Still(tail_index, {"in-place"}) /\ Still(n_, {"in-place"})
  /\ Still(o_el, {"in-place", "partition", "generate"})
  /\ Still(o_offsets, {"in-place", "slice"})
  /\ Still(i_, {"in-place", "triangles"})
  /\ Still(o_phase, {"in-place", "reorder", "partition", "slice",
                     "generate", "options", "trials"})
  /\ Still(original, {"reorder"}) /\ Still(remaining, {"reorder"})
  /\ Still(max_id, {"reorder"}) /\ Still(o_built, {"reorder"})
  /\ Still(g, {"reorder", "relabel", "partition", "slice", "triangles",
               "convert"})
  /\ Still(org_ids, {"reorder", "convert", "trials"})
  /\ Still(new_ids, {"reorder", "relabel"}) /\ Still(rows, {"reorder", "relabel"})
  /\ Still(o_todo, {"reorder", "relabel", "slice", "tiles"})
  /\ Still(method, {"relabel", "intersect"})
  /\ Still(outDegree, {"relabel", "slice"}) /\ Still(result, {"relabel", "slice"})
  /\ Still(createBothCSRs, {"relabel"}) /\ Still(claimedVtxs, {"relabel"})
  /\ Still(randID, {"relabel"}) /\ Still(sides, {"relabel"})
  /\ Still(o_pc, {"relabel", "triangles", "intersect", "convert", "tiles"})
  /\ Still(input, {"partition", "triangles", "tiles"})
  /\ Still(cli, {"partition", "options"})
  /\ Still(trust_vertex, {"partition"}) /\ Still(trust_endofprocess, {"partition"})
  /\ Still(partitions, {"partition"}) /\ Still(flat, {"partition"})
  /\ Still(th, {"partition", "generate"})
  /\ Still(total, {"partition", "triangles"})
  /\ Still(range, {"slice"}) /\ Still(modifyBothDestlists, {"slice"})
  /\ Still(csr, {"slice"}) /\ Still(inv_csr, {"slice"})
  /\ Still(node_degree_pairs, {"partition"})
  /\ Still(u_, {"triangles"}) /\ Still(j_, {"triangles"}) /\ Still(it, {"triangles"})
  /\ Still(A_, {"intersect"}) /\ Still(B_, {"intersect"}) /\ Still(dest, {"intersect"})
  /\ Still(a_, {"intersect"}) /\ Still(b_, {"intersect"}) /\ Still(count, {"intersect"})
  /\ Still(base, {"convert"}) /\ Still(weighted, {"convert"})
  /\ Still(file, {"convert"}) /\ Still(labels, {"convert"})
  /\ Still(reorders, {"convert"}) /\ Still(runs, {"convert"})
  /\ Still(lastRef, {"tiles"}) /\ Still(compressedOffsets, {"tiles"})
  /\ Still(offsetMatrix, {"tiles"})
  /\ Still(o_kind, {"generate"}) /\ Still(num_edges, {"generate"})
  /\ Still(blocks, {"generate"})
  /\ Still(program, {"options"}) /\ Still(command, {"options"})
  /\ Still(argv, {"options"}) /\ Still(optind, {"options"})
  /\ Still(ran, {"options", "trials"})
  /\ Still(out_degree, {"trials"}) /\ Still(given_source, {"trials"})
  /\ Still(num_iters, {"trials"}) /\ Still(stream, {"trials"}) /\ Still(sp, {"trials"})
  /\ Still(vsp, {"trials"}) /\ Still(iter, {"trials"}) /\ Still(all_ran, {"trials"})
  /\ Still(checked, {"trials"}) /\ Still(scores, {"trials"}) /\ Still(top_k, {"trials"})

Unset(x, users) == IF which \in users THEN TRUE ELSE x = 0
Same(x, users)  == IF which \in users THEN TRUE ELSE UNCHANGED x

MCInit ==
  /\ which \in Parts
  /\ Frame(Unset)
  /\ IF which = "build" THEN Init
     ELSE /\ el = CHOOSE l \in Inputs : TRUE
          /\ kind = CHOOSE k \in Kinds : TRUE
          /\ keep_self = CHOOSE b \in KeepSelf : TRUE
          /\ Init

  /\ which = "in-place" => InPlace!Init
  /\ which = "reorder" => Reorder!Init
  /\ which = "relabel" => Relabel!Init
  /\ which = "partition" => Partition!Init
  /\ which = "slice" => Slice!Init
  /\ which = "triangles" => Triangle!Init
  /\ which = "intersect" => Intersect!Init
  /\ which = "convert" => Convert!Init
  /\ which = "tiles" => Tile!Init
  /\ which = "generate" => Generate!Init
  /\ which = "options" => Cli!Init
  /\ which = "trials" => Trial!Init

Step ==
  \/ which = "build" /\ Next
  \/ which = "in-place" /\ InPlace!Next
  \/ which = "reorder" /\ Reorder!Next
  \/ which = "relabel" /\ Relabel!Next
  \/ which = "partition" /\ Partition!Next
  \/ which = "slice" /\ Slice!Next
  \/ which = "triangles" /\ Triangle!Next
  \/ which = "intersect" /\ Intersect!Next
  \/ which = "convert" /\ Convert!Next
  \/ which = "tiles" /\ Tile!Next
  \/ which = "generate" /\ Generate!Next
  \/ which = "options" /\ Cli!Next
  \/ which = "trials" /\ Trial!Next

\* The components that have no step of their own for their end.
Ended ==
  \/ which = "build" /\ phase = "done"
  \/ which = "in-place" /\ o_phase = "done"
  \/ which = "reorder" /\ o_phase = "map" /\ remaining = 0

MCNext ==
  \/ /\ UNCHANGED which /\ Frame(Same)
     /\ which # "build" => UNCHANGED vars
     /\ Step
  \/ Ended /\ UNCHANGED all

MCSpec == MCInit /\ [][MCNext]_all

-----------------------------------------------------------------------------
(* Properties *)

(***************************************************************************)
(* MakeCSRInPlace: the squished list is overwritten behind its reader      *)
(* only, the search for missing inverses looks at the rows that may hold   *)
(* them, and the rows are those MakeCSR would build.                       *)
(***************************************************************************)
InPlaceGraph ==
  which = "in-place" =>
    /\ InPlace!TypeOK /\ InPlace!NothingOverwritten
    /\ InPlace!SearchIsPartitioned /\ InPlace!BuiltGraph

(***************************************************************************)
(* A relabelled graph is the graph given, under other names: after two     *)
(* reorderings org_ids still leads to the vertex with the same edges,      *)
(* ids are used once in whatever order the threads took the left-over      *)
(* ones, and the random and the degree order of RelabelByMapping_v2 claim  *)
(* every id once and count degrees on the side they build.                 *)
(***************************************************************************)
SameGraph ==
  /\ which = "reorder" =>
       Reorder!TypeOK /\ Reorder!FilledIsPermutation /\ Reorder!SameGraph
  /\ which = "relabel" => Relabel!ClaimedOnce /\ Relabel!NewGraph

(***************************************************************************)
(* A graph cut into parts is still there: every edge is in one partition,  *)
(* once, and in its flat arrays where they have a cell for each neighbour; *)
(* a slice has the rows of its range; the compressed next references of    *)
(* the tiles answer what the rows would, and fit the cells given them.     *)
(***************************************************************************)
PartsHoldTheGraph ==
  /\ which = "partition" => Partition!EdgesAreSplit /\ Partition!EndOfProcess
  /\ which = "slice" => Slice!SliceIsInRange
  /\ which = "tiles" => Tile!RereferencesAreExact /\ Tile!TilesFit

(***************************************************************************)
(* However a graph is relabelled, oriented or partitioned for it, each     *)
(* triangle is counted once, the merge never reads past a row, and the     *)
(* five ways to intersect two arrays agree.                                *)
(***************************************************************************)
TrianglesCounted ==
  /\ which = "triangles" => Triangle!ReadsInRow /\ Triangle!Triangles
  /\ which = "partition" => Partition!TrianglesKept /\ Partition!TrianglesOriented
  /\ which = "intersect" => Intersect!CountIsExact

(***************************************************************************)
(* A graph written by one run and read by the next is the same graph, and  *)
(* the labels a run wrote lead back to the vertices of the file it began   *)
(* with.                                                                   *)
(***************************************************************************)
FilesAgree == which = "convert" => Convert!RoundTrip /\ Convert!LabelsLeadBack

(***************************************************************************)
(* A generated graph does not depend on which thread drew which block, and *)
(* no number of a range is drawn more often than another.                  *)
(***************************************************************************)
SameInputEverywhere ==
  which = "generate" => Generate!DeterministicOutput /\ Generate!DrawnEvenly

(***************************************************************************)
(* The members a command line sets are those the help text gives the       *)
(* options for, whatever their order and number, and the orders run are    *)
(* those asked for.                                                        *)
(***************************************************************************)
OptionsMeanWhatHelpSays == which = "options" => Cli!OptionsMeanWhatHelpSays

(***************************************************************************)
(* The two SourcePickers stay in step, so that a trial is verified from    *)
(* the sources its kernel ran from; differently ordered copies of a graph  *)
(* are searched from the same vertices; the scores printed are the top.    *)
(***************************************************************************)
TrialsAreVerified ==
  which = "trials" =>
    /\ Trial!VerifiedFromItsSources
    /\ Trial!SameSourcesInEveryOrder /\ Trial!TopIsTop

\* "Apply reordering strategy": an edge has the weight it was read with.
WeightsKept == which = "reorder" => Reorder!WeightsKept

\* "Will count the number of triangles": tc_p's count of a graph made for TRUST.
TrustCountsEveryTriangle == which = "partition" => Partition!TrustCounts
=============================================================================
