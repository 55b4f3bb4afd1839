----------------------------- MODULE Conversion -----------------------------
(***************************************************************************)
(* Graphs on their way through files: runs of converter.cc one after the   *)
(* other, each reading what the run before wrote (reader.h), reordering it *)
(* and writing it again (writer.h), with the labels that say where a       *)
(* vertex went; and a run given such labels as -o 14 (LoadMappingFromFile) *)
(* with the graph they were made for.  .sg and .wsg files also hold        *)
(* org_ids; after the other formats a run starts from fresh ids.           *)
(*                                                                         *)
(* A file is what its format holds: a .sg is a sequence of words the       *)
(* reader takes in the order the writer put them, a text file a sequence   *)
(* of lines.  A neighbour is a pair of id and weight, the weight being 1   *)
(* in a run without weights.  The first run reads a file from outside,     *)
(* which may be a .gr or a .graph (Metis) file; no run writes these.       *)
(***************************************************************************)
EXTENDS Integers, Sequences, FiniteSets, SequencesExt, Containers

CONSTANTS
  Inputs,           \* edge lists, of pairs <<u, <<v, w>>>>, from outside
  RandomWeight(_),  \* InsertWeights' weight of the k-th edge, always the same
  Runs, Reorders    \* bounds: runs in all, reorderings in one of them

VARIABLES
  base,             \* the graph whose vertices org_ids is about (history)
  g, org_ids,
  weighted,         \* this run uses WeightedBuilder and WeightedWriter
  file,             \* the last graph file, [suffix, content], and the graph it was written of
  labels,           \* the last label file and the graph it was written of
  reorders, runs, pc

vars == <<base, g, org_ids, weighted, file, labels, reorders, runs, pc>>

Nodes(graph) == DOMAIN graph.out
Identity(graph) == [n \in Nodes(graph) |-> n]

-----------------------------------------------------------------------------
(* The builder: MakeGraphFromEL and SquishGraph as CSRBuild has them. *)

MaxNodeID(el) == CHOOSE m \in {0} \union {e[1] : e \in Range(el)} \union {e[2][1] : e \in Range(el)} :
                   \A e \in Range(el) : e[1] <= m /\ e[2][1] <= m

\* Of the edges to one vertex the lightest stays, and no self loop.
Squish(row, n) == Listed({d \in row : d[1] # n /\ \A e \in row : e[1] = d[1] => d[2] <= e[2]}, Less)

MakeGraphFromEL(el, symmetrize) ==
  LET forth(n) == {e[2] : e \in {f \in Range(el) : f[1] = n}}
      back(n)  == {<<e[1], e[2][2]>> : e \in {f \in Range(el) : f[2][1] = n}}
      nodes == 0 .. MaxNodeID(el)
      both  == [n \in nodes |-> Squish(forth(n) \union back(n), n)]
  IN  IF symmetrize THEN [directed |-> FALSE, out |-> both, in |-> both]
      ELSE [directed |-> TRUE, out |-> [n \in nodes |-> Squish(forth(n), n)],
                               in  |-> [n \in nodes |-> Squish(back(n), n)]]

InsertWeights(el) == [k \in 1 .. Len(el) |-> <<el[k][1], <<el[k][2][1], RandomWeight(k)>>>>]
Unweighted(el)    == [k \in 1 .. Len(el) |-> <<el[k][1], <<el[k][2][1], 1>>>>]

BuiltFrom(el, needs_weights, with_weights, symmetrize) ==
  MakeGraphFromEL(IF ~ with_weights THEN Unweighted(el)
                  ELSE IF needs_weights THEN InsertWeights(el) ELSE el, symmetrize)

\* RelabelByMapping: the neighbours get new ids, weight 1 and an order.
RelabelByMapping(graph, new_ids) ==
  LET old(id) == CHOOSE n \in Nodes(graph) : new_ids[n] = id
      moved(rows) == [id \in Nodes(graph) |->
                        LET row == rows[old(id)]
                        IN  Sorted([i \in 1 .. Len(row) |-> <<new_ids[row[i][1]], 1>>])]
  IN  [directed |-> graph.directed, out |-> moved(graph.out), in |-> moved(graph.in)]

\* Variant: the composition the other way round.
UpdatedBackwards(ids, new_ids) == [n \in DOMAIN ids |-> ids[new_ids[n]]]

update_org_ids(ids, new_ids) == [n \in DOMAIN ids |-> new_ids[ids[n]]]

-----------------------------------------------------------------------------
(* The writers. *)

Array(f) == [i \in 1 .. Cardinality(DOMAIN f) |-> f[i - 1]]
VertexOffsets(rows) == Array(PrefixSum([n \in DOMAIN rows |-> Len(rows[n])], Cardinality(DOMAIN rows)))
Neighbours(rows) == FlattenSeq(Array(rows))

Words(neighs) == IF weighted THEN FlattenSeq(neighs) ELSE [i \in 1 .. Len(neighs) |-> neighs[i][1]]

WriteSerializedGraph ==
  LET side(rows) == VertexOffsets(rows) \o Words(Neighbours(rows))
      edges == Len(Neighbours(g.out))
  IN  <<g.directed, edges, Cardinality(Nodes(g))>> \o side(g.out)
        \o (IF g.directed THEN side(g.in) ELSE << >>) \o Array(org_ids)

\* The lines of a text file, ids counted from first on.
Lines(first) ==
  LET of(u) == [i \in 1 .. Len(g.out[u]) |->
                  IF weighted THEN <<u + first, g.out[u][i][1] + first, g.out[u][i][2]>>
                  ELSE <<u + first, g.out[u][i][1] + first>>]
  IN  FlattenSeq(Array([u \in Nodes(g) |-> of(u)]))

WriteEL == Lines(0)

WriteMTX == [field |-> IF weighted THEN "integer" ELSE "pattern",
             symmetry |-> IF g.directed THEN "general" ELSE "symmetric",
             lines |-> Lines(1)]

Ids(neighs) == [i \in 1 .. Len(neighs) |-> neighs[i][1]]
Weights(neighs) == [i \in 1 .. Len(neighs) |-> neighs[i][2]]

\* The offsets of all vertices but the end of the last.
WriteLIGRA == [offsets |-> Front(VertexOffsets(g.out)), neighs |-> Ids(Neighbours(g.out)),
               weights |-> IF weighted THEN Weights(Neighbours(g.out)) ELSE << >>]

WriteGraphStructures ==
  LET rows == IF g.directed THEN g.in ELSE g.out
  IN  [out_offset |-> Front(VertexOffsets(g.out)), out_neigh |-> Ids(Neighbours(g.out)),
       in_offset |-> Front(VertexOffsets(rows)), in_neigh |-> Ids(Neighbours(rows)),
       weights |-> IF weighted THEN Weights(Neighbours(g.out))
                   ELSE [i \in 1 .. Len(Neighbours(g.out)) |-> 1]]

WriteGraph(format) ==
  CASE format = "sg" -> [suffix |-> IF weighted THEN ".wsg" ELSE ".sg", content |-> WriteSerializedGraph]
    [] format = "el" -> [suffix |-> IF weighted THEN ".wel" ELSE ".el", content |-> WriteEL]
    [] format = "mtx" -> [suffix |-> ".mtx", content |-> WriteMTX]
    [] format = "ligra" -> [suffix |-> ".ligra", content |-> WriteLIGRA]
    [] format = "structures" -> [suffix |-> ".out_offset", content |-> WriteGraphStructures]

\* .so and .lo hold the same ids, as words or as lines.
WriteLabels == Array(org_ids)

-----------------------------------------------------------------------------
(* The readers. *)

IdsAtEnd(n, m, directed, cell, words) ==
  LET side == n + 1 + m * cell
      skipped == 3 + (IF directed THEN 2 * side ELSE side)
  IN  SubSeq(words, skipped + 1, skipped + n)

ReadSerializedGraph(suffix, words, with_weights) ==
  LET directed == words[1]
      m == words[2]
      n == words[3]
      cell == IF suffix = ".wsg" THEN 2 ELSE 1
      side == n + 1 + m * cell
      neigh(first, i) == <<words[first + n + 1 + (i * cell) + 1],
                           IF with_weights /\ cell = 2 THEN words[first + n + 1 + (i * cell) + 2] ELSE 1>>
      rows(first) == [u \in 0 .. (n - 1) |->
                        [k \in 1 .. (words[first + u + 2] - words[first + u + 1]) |->
                           neigh(first, words[first + u + 1] + k - 1)]]
      ids == IdsAtEnd(n, m, directed, cell, words)
  IN  [g |-> [directed |-> directed, out |-> rows(3), in |-> IF directed THEN rows(3 + side) ELSE rows(3)],
       org_ids |-> [u \in 0 .. (n - 1) |-> ids[u + 1]]]

ReadInEL(lines)  == [k \in 1 .. Len(lines) |-> <<lines[k][1], <<lines[k][2], 1>>>>]
ReadInWEL(lines) == [k \in 1 .. Len(lines) |-> <<lines[k][1], <<lines[k][2], lines[k][3]>>>>]

\* The edge of a line, and of a symmetric matrix the edge back.
ReadInMTX(content) ==
  LET line(k) == content.lines[k]
      w(k) == IF content.field = "pattern" THEN 1 ELSE line(k)[3]
      forth(k) == <<line(k)[1] - 1, <<line(k)[2] - 1, w(k)>>>>
      back(k) == <<line(k)[2] - 1, <<line(k)[1] - 1, w(k)>>>>
  IN  FlattenSeq([k \in 1 .. Len(content.lines) |->
                    IF content.symmetry = "symmetric" THEN <<forth(k), back(k)>> ELSE <<forth(k)>>])

\* The lines "a u v w", vertices counted from 1.
ReadInGR(lines) == [k \in 1 .. Len(lines) |-> <<lines[k][1] - 1, <<lines[k][2] - 1, lines[k][3]>>>>]

\* The line of a vertex lists its neighbours, fmt 1 with weights.
ReadInMetis(content) ==
  LET w(cell) == IF content.fmt = 1 THEN cell[2] ELSE 1
      of(u) == [k \in 1 .. Len(content.rows[u]) |->
                  <<u - 1, <<content.rows[u][k][1] - 1, w(content.rows[u][k])>>>>]
  IN  FlattenSeq([u \in 1 .. Len(content.rows) |-> of(u)])

\* SourcePicker: the first vertex drawn that has edges, under its new id.
PickNextRand(graph, ids, draws) ==
  LET hits == {k \in DOMAIN draws : Len(graph.out[ids[draws[k]]]) # 0}
  IN  IF hits = {} THEN -1
      ELSE ids[draws[CHOOSE k \in hits : \A l \in hits : k <= l]]

TextFormats == {".gr", ".graph", ".el", ".wel", ".mtx"}

ReadFile(f) ==
  CASE f.suffix = ".gr" -> [el |-> ReadInGR(f.content), needs_weights |-> FALSE]
    [] f.suffix = ".graph" -> [el |-> ReadInMetis(f.content), needs_weights |-> f.content.fmt # 1]
    [] f.suffix = ".el"  -> [el |-> ReadInEL(f.content), needs_weights |-> TRUE]
    [] f.suffix = ".wel" -> [el |-> ReadInWEL(f.content), needs_weights |-> FALSE]
    [] f.suffix = ".mtx" -> [el |-> ReadInMTX(f.content),
                             needs_weights |-> f.content.field = "pattern"]

LoadMappingFromFile(ids) == [n \in 0 .. (Len(ids) - 1) |-> ids[n + 1]]

-----------------------------------------------------------------------------
(* The runs. *)

\* An edge list as other tools write it.
Given(suffix, el) ==
  LET from(u) == SelectSeq(el, LAMBDA e : e[1] = u)
      row(u) == [k \in 1 .. Len(from(u)) |-> <<from(u)[k][2][1] + 1, from(u)[k][2][2]>>]
      of(u, w) == IF w THEN <<u[1], u[2][1], u[2][2]>> ELSE <<u[1], u[2][1]>>
  IN  CASE suffix \in {".el", ".wel"} -> [k \in 1 .. Len(el) |-> of(el[k], suffix = ".wel")]
        [] suffix = ".gr" -> [k \in 1 .. Len(el) |-> <<el[k][1] + 1, el[k][2][1] + 1, el[k][2][2]>>]
        [] suffix = ".graph" -> [fmt |-> 1, rows |-> [u \in 1 .. (MaxNodeID(el) + 1) |-> row(u - 1)]]

Init ==
  /\ \E el \in Inputs, suffix \in {".el", ".wel", ".gr", ".graph"} :
       /\ g = MakeGraphFromEL(el, FALSE)
       /\ file = [suffix |-> suffix, content |-> Given(suffix, el), out |-> g,
                  ids |-> Identity(g), weighted |-> suffix # ".el"]
  /\ base = g /\ org_ids = Identity(g) /\ weighted = FALSE
  /\ labels = << >>
  /\ reorders = 0 /\ runs = 0
  /\ pc = "exited"

\* One reordering of MakeGraph's loop.
Reorder ==
  /\ pc \in {"read", "built"} /\ reorders < Reorders
  /\ \E new_ids \in {p \in [Nodes(g) -> Nodes(g)] : IsInjective(p)} :
       /\ g' = RelabelByMapping(g, new_ids)
       /\ org_ids' = update_org_ids(org_ids, new_ids)
  /\ reorders' = reorders + 1
  /\ pc' = "built"
  /\ UNCHANGED <<base, weighted, file, labels, runs>>

Write(format) ==
  /\ pc \in {"read", "built"}
  /\ file' = [out |-> g, ids |-> org_ids, weighted |-> weighted] @@ WriteGraph(format)
  /\ labels' = [ids |-> WriteLabels, base |-> base, of |-> g]
  /\ pc' = "exited"
  /\ UNCHANGED <<base, g, org_ids, weighted, reorders, runs>>

\* MakeGraph: only what comes as an edge list is built, and symmetrized.
Read(with_weights, symmetrize) ==
  /\ pc = "exited" /\ runs < Runs
  /\ \/ /\ file.suffix \in {".sg", ".wsg"}
        /\ LET r == ReadSerializedGraph(file.suffix, file.content, with_weights)
           IN  g' = r.g /\ org_ids' = r.org_ids
        /\ UNCHANGED base
     \/ /\ file.suffix \in TextFormats
        /\ LET r == ReadFile(file)
           IN  g' = BuiltFrom(r.el, r.needs_weights, with_weights, symmetrize)
        /\ org_ids' = Identity(g')
        /\ base' = g'
  /\ weighted' = with_weights
  /\ runs' = runs + 1 /\ reorders' = 0
  /\ pc' = "read"
  /\ UNCHANGED <<file, labels>>

\* A run on the graph the labels were made for, with -o 14 and their file.
Replay ==
  /\ pc = "exited" /\ runs < Runs /\ labels # << >>
  /\ LET new_ids == LoadMappingFromFile(labels.ids)
     IN  /\ g' = RelabelByMapping(labels.base, new_ids)
         /\ org_ids' = update_org_ids(Identity(g'), new_ids)
  /\ base' = labels.base
  /\ runs' = runs + 1 /\ reorders' = 1
  /\ pc' = "replayed"
  /\ UNCHANGED <<weighted, file, labels>>

Finished == pc \in {"exited", "replayed"} /\ UNCHANGED vars

Next ==
  \/ Reorder \/ Replay \/ Finished
  \/ \E format \in {"sg", "el", "mtx", "ligra", "structures"} : Write(format)
  \/ \E with_weights, symmetrize \in BOOLEAN : Read(with_weights, symmetrize)

Spec == Init /\ [][Next]_vars

-----------------------------------------------------------------------------
(* Properties *)

WeightsOf(rows, u, v) == {d[2] : d \in {e \in Range(rows[u]) : e[1] = v}}
Edge(rows, u, v) == WeightsOf(rows, u, v) # {}
SameEdges(a, b) == /\ DOMAIN a = DOMAIN b
                   /\ \A u \in DOMAIN a : Ids(a[u]) = Ids(b[u])

\* The in-lists of a graph list the edges of its out-lists, with their weights.
Inverted(graph) == \A u, v \in Nodes(graph) : WeightsOf(graph.out, u, v) = WeightsOf(graph.in, v, u)

SerializedAsWritten ==
  /\ SameEdges(g.out, file.out.out) /\ SameEdges(g.in, file.out.in)
  /\ g.directed = file.out.directed /\ org_ids = file.ids
  /\ weighted /\ file.weighted => g = file.out

\* The vertices after the last one with an edge are not in a text file.  Of
\* both directions of an edge made one by -s, the lighter weight stays.
TextAsWritten ==
  LET was == file.out.out
      lost == DOMAIN was \ Nodes(g)
      weights(u, v) == WeightsOf(was, u, v) \union (IF g.directed THEN {} ELSE WeightsOf(was, v, u))
  IN  /\ Nodes(g) \subseteq DOMAIN was \union {0}
      /\ \A u \in lost, v \in DOMAIN was : ~ Edge(was, u, v) /\ ~ Edge(was, v, u)
      /\ \A u, v \in Nodes(g) :
           /\ Edge(g.out, u, v) <=> weights(u, v) # {}
           /\ weighted /\ file.weighted /\ Edge(g.out, u, v) =>
                WeightsOf(g.out, u, v) = {CHOOSE w \in weights(u, v) : \A x \in weights(u, v) : w <= x}

\* What reads a Ligra file or the arrays finds the row of u up to the offset
\* of the next vertex or the end.
SlicesAreRows(offsets, neighs, rows) ==
  \A u \in DOMAIN rows :
    SubSeq(neighs, offsets[u + 1] + 1,
           IF u + 2 <= Len(offsets) THEN offsets[u + 2] ELSE Len(neighs)) = Ids(rows[u])

\* "Given filename and graph, writes out the graph to storage": what a run
\* reads, with or without weights and -s, is what the run before it wrote, and
\* the other formats describe the same rows.
RoundTrip ==
  /\ pc = "read" /\ file.suffix \in {".sg", ".wsg"} => SerializedAsWritten
  /\ pc = "read" /\ file.suffix \in TextFormats => TextAsWritten
  /\ pc = "exited" /\ file.suffix = ".ligra" =>
       SlicesAreRows(file.content.offsets, file.content.neighs, g.out)
  /\ pc = "exited" /\ file.suffix = ".out_offset" =>
       /\ SlicesAreRows(file.content.out_offset, file.content.out_neigh, g.out)
       /\ SlicesAreRows(file.content.in_offset, file.content.in_neigh, g.in)
  /\ Inverted(g)

\* After any sequence of conversions and reorderings, org_ids leads from the
\* vertices of the graph the ids were first given to, to those of the current
\* one, so that trials on both start from the same vertices; and labels given
\* as -o 14 with that graph rebuild the graph they were written of, "output
\* new reordered labels".
LabelsLeadBack ==
  /\ {org_ids[n] : n \in Nodes(g)} = Nodes(g) /\ Nodes(g) = Nodes(base)
  /\ \A u, v \in Nodes(g) : Edge(base.out, u, v) <=> Edge(g.out, org_ids[u], org_ids[v])
  /\ \A a, b \in Nodes(g) :
       LET source == PickNextRand(base, Identity(base), <<a, b>>)
       IN  PickNextRand(g, org_ids, <<a, b>>) = IF source = -1 THEN -1 ELSE org_ids[source]
  /\ pc = "replayed" => SameEdges(g.out, labels.of.out) /\ SameEdges(g.in, labels.of.in)
=============================================================================
