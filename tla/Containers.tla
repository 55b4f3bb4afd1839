----------------------------- MODULE Containers -----------------------------
(***************************************************************************)
(* What the builders and the kernels keep their data in: compressed sparse *)
(* rows (graph.h, and the helpers builder.h makes them with) and the queue *)
(* parallel loops append to through thread-local buffers                   *)
(* (sliding_queue.h).  An array of n cells is a function on 0 .. n - 1.    *)
(***************************************************************************)
EXTENDS FiniteSets

LOCAL INSTANCE Integers
LOCAL INSTANCE Sequences

-----------------------------------------------------------------------------
(***************************************************************************)
(* Compressed sparse rows.  A pair (index, neighs) is the record [offsets, *)
(* neighs], the row of vertex n being the cells offsets[n] ..              *)
(* offsets[n + 1] - 1 of neighs.                                           *)
(***************************************************************************)

\* The sum of a[lo], ..., a[hi - 1].
SumOf(a, lo, hi) ==
  LET sum[i \in lo .. hi] == IF i = lo THEN 0 ELSE sum[i - 1] + a[i - 1]
  IN  sum[hi]

PrefixSum(degrees, n) == [i \in 0 .. n |-> SumOf(degrees, 0, i)]

\* bulk_prefix[b]: the total of the blocks before b.
Bulk(degrees, n, block_size, b) ==
  SumOf([c \in 0 .. (b - 1) |-> SumOf(degrees, c * block_size,
           IF (c + 1) * block_size < n THEN (c + 1) * block_size ELSE n)], 0, b)

ParallelPrefixSum(degrees, n, block_size) ==
  LET num_blocks == (n + block_size - 1) \div block_size
  IN  [i \in 0 .. n |->
         IF i = n THEN Bulk(degrees, n, block_size, num_blocks)
         ELSE LET b == i \div block_size
              IN  Bulk(degrees, n, block_size, b) + SumOf(degrees, b * block_size, i)]

Row(csr, n) ==
  [i \in 1 .. (csr.offsets[n + 1] - csr.offsets[n]) |-> csr.neighs[csr.offsets[n] + i - 1]]

\* A row written to the cells from first on.
Written(neighs, first, row) ==
  [i \in DOMAIN neighs |-> IF i \in first .. (first + Len(row) - 1) THEN row[i - first + 1]
                           ELSE neighs[i]]

\* NodeWeight's operator<: by destination, then by weight.
Less(d, e) == d[1] < e[1] \/ (d[1] = e[1] /\ d[2] < e[2])

\* The elements of a set in the order given.
Listed(S, Before(_, _)) ==
  [k \in 1 .. Cardinality(S) |-> CHOOSE e \in S : Cardinality({d \in S : Before(d, e)}) = k - 1]

\* std::sort; elements neither of which is before the other are equal.
Arranged(row, Before(_, _)) ==
  LET earlier(i, j) == Before(row[i], row[j]) \/ (row[i] = row[j] /\ i < j)
      order == Listed(1 .. Len(row), earlier)
  IN  [k \in 1 .. Len(row) |-> row[order[k]]]

Sorted(row) == Arranged(row, Less)
SortedIds(row) == Arranged(row, <)

Count(row, d) == Cardinality({i \in 1 .. Len(row) : row[i] = d})

-----------------------------------------------------------------------------
(***************************************************************************)
(* SlidingQueue and QueueBuffer.  A queue is the record [shared, start,    *)
(* end, in] of its cells, of the window shared_out_start ..                *)
(* shared_out_end - 1 readers see, and of shared_in; its capacity is the   *)
(* max_size it was made with.  A buffer is the sequence                    *)
(* local_queue[0 .. in - 1].                                               *)
(***************************************************************************)

\* What stands for the content of a cell nothing was copied to.
BlankItem == -1

NewQueue(max_size) ==
  [shared |-> [i \in 0 .. (max_size - 1) |-> BlankItem], start |-> 0, end |-> 0, in |-> 0]

\* SlidingQueue::push_back, by one thread only.
PushBack(q, x) == [q EXCEPT !.shared[q.in] = x, !.in = @ + 1]

SlideWindow(q) == [q EXCEPT !.start = q.end, !.end = q.in]

\* The window as a sequence: begin() .. end() - 1.
QueueWindow(q) == [i \in 1 .. (q.end - q.start) |-> q.shared[q.start + i - 1]]

(* QueueBuffer::flush: fetch_and_add(sq.shared_in, in) claims the cells    *)
(* from copy_start on, then one or two std::copy fill them.                *)
FlushClaim(q, buffer) == [q EXCEPT !.in = @ + Len(buffer)]

\* The cell the i-th of size buffered elements goes to.
CopyTarget(copy_start, size, i, max_size) ==
  LET copy_end == copy_start + size
      second_chunk_size == copy_end % max_size
      first_chunk_size == size - second_chunk_size
  IN  IF copy_start \div max_size = copy_end \div max_size \/ i <= first_chunk_size
      THEN (copy_start % max_size) + i - 1
      ELSE i - first_chunk_size - 1

FlushCopy(q, copy_start, buffer, max_size) ==
  LET target(i) == CopyTarget(copy_start, Len(buffer), i, max_size)
      hit(c) == {i \in 1 .. Len(buffer) : target(i) = c}
  IN  [q EXCEPT !.shared =
         [c \in DOMAIN q.shared \union {target(i) : i \in 1 .. Len(buffer)} |->
            IF hit(c) # {} THEN buffer[CHOOSE i \in hit(c) : TRUE] ELSE q.shared[c]]]
=============================================================================
