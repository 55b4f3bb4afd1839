--------------------------- MODULE Intersections ---------------------------
(***************************************************************************)
(* bench/include/gapbs/intersections.h: ways to count the common elements  *)
(* of two sorted arrays without repetitions, those up to dest only where   *)
(* dest is a parameter.  The functions share the variables: a and b are    *)
(* begin_a (it_a, start) and begin_b (i, j).                               *)
(*                                                                         *)
(* MultipleSkip reads A[-1] if A is empty: it is given none.               *)
(***************************************************************************)
EXTENDS Integers, Sequences, FiniteSets

CONSTANTS
  Inputs,         \* [A, B, dest]
  SizeThreshold,  \* of Combined
  RatioThreshold

VARIABLES method, A, B, dest, a, b, count, pc

vars == <<method, A, B, dest, a, b, count, pc>>

Methods == {"Naive", "Bitset", "BinarySearch", "Hiroshi", "MultipleSkip", "Combined"}

At(X, k) == X[k + 1]
Elements(X) == {X[k] : k \in DOMAIN X}

Skew(x, y) == x > SizeThreshold /\ y > SizeThreshold
              /\ (x > RatioThreshold * y \/ y > RatioThreshold * x)

Chosen(m, x, y) ==
  CASE m = "Combined"     -> IF Skew(x, y) THEN "Hiroshi" ELSE "MultipleSkip"
    [] m # "Combined"     -> m

FirstLoop(m, x, y) ==
  LET c == Chosen(m, x, y)
  IN  IF c = "Hiroshi" /\ (x <= 2 \/ y <= 2) THEN "Naive" ELSE c

Init ==
  /\ \E input \in Inputs : A = input.A /\ B = input.B /\ dest = input.dest
  /\ method \in Methods
  /\ Chosen(method, Len(A), Len(B)) = "MultipleSkip" => A # << >>
  /\ a = 0 /\ b = 0 /\ count = 0
  /\ pc = FirstLoop(method, Len(A), Len(B))

Add(found) == count' = count + found
Goto(label) == pc' = label /\ UNCHANGED <<method, A, B, dest>>

-----------------------------------------------------------------------------
(* The merge, and the tail of Hiroshi. *)

MergeEnds == a >= Len(A) \/ b >= Len(B) \/ At(B, b) > dest

Naive ==
  /\ pc = "Naive"
  /\ IF MergeEnds THEN UNCHANGED <<a, b, count>> /\ Goto("done")
     ELSE /\ a' = IF At(A, a) <= At(B, b) THEN a + 1 ELSE a
          /\ b' = IF At(A, a) >= At(B, b) THEN b + 1 ELSE b
          /\ Add(IF At(A, a) = At(B, b) THEN 1 ELSE 0)
          /\ Goto(pc)

Bitset ==
  /\ pc = "Bitset"
  /\ IF b >= Len(B) THEN UNCHANGED <<a, b, count>> /\ Goto("done")
     ELSE /\ b' = b + 1 /\ a' = a
          /\ Add(IF At(B, b) \in Elements(A) THEN 1 ELSE 0)
          /\ Goto(pc)

-----------------------------------------------------------------------------
(* The smaller array is looked up in the bigger one, each time from where  *)
(* the last one found began: prevStart is a.                               *)

Bigger  == IF Len(A) >= Len(B) THEN A ELSE B
Smaller == IF Len(A) >= Len(B) THEN B ELSE A

\* Where the last interval that held target begins, -1 if it is not there.
Search(X, start, target) ==
  LET find[left \in 0 .. Len(X), right \in -1 .. (Len(X) - 1)] ==
        LET medium == left + (right - left) \div 2
        IN  IF left > right THEN -1
            ELSE IF At(X, medium) = target THEN left
            ELSE IF At(X, medium) < target THEN find[medium + 1, right]
            ELSE find[left, medium - 1]
  IN  find[start, Len(X) - 1]

BinarySearch ==
  /\ pc = "BinarySearch"
  /\ IF b >= Len(Smaller) THEN UNCHANGED <<a, b, count>> /\ Goto("done")
     ELSE LET found == Search(Bigger, a, At(Smaller, b))
          IN  /\ a' = IF found >= 0 THEN found ELSE a
              /\ b' = b + 1
              /\ Add(IF found >= 0 THEN 1 ELSE 0)
              /\ Goto(pc)

-----------------------------------------------------------------------------
(* Three elements of each array at a time: how many pairs are found, and   *)
(* which array is advanced.                                                *)

Third(x, y, n) ==
  <<n + (IF x[3] = y[3] THEN 1 ELSE 0),
    IF x[3] = y[3] THEN {"a", "b"} ELSE IF x[3] > y[3] THEN {"b"} ELSE {"a"}>>

Second(x, y, n) ==
  CASE x[2] = y[2] -> Third(x, y, n + 1)
    [] x[2] = y[3] -> <<n + 1, {"b"}>>
    [] x[3] = y[2] -> <<n + 1, {"a"}>>
    [] OTHER       -> Third(x, y, n)

First(x, y) ==
  CASE x[1] = y[3] -> <<1, {"b"}>>
    [] x[3] = y[1] -> <<1, {"a"}>>
    [] OTHER       -> Second(x, y, IF x[1] \in {y[1], y[2]} \/ x[2] = y[1] THEN 1 ELSE 0)

RoomForThree(k, X) == k < Len(X) - 2

Hiroshi ==
  /\ pc = "Hiroshi"
  /\ IF At(B, b + 2) > dest THEN UNCHANGED <<a, b, count>> /\ Goto("Naive")
     ELSE LET step == First(SubSeq(A, a + 1, a + 3), SubSeq(B, b + 1, b + 3))
          IN  /\ a' = IF "a" \in step[2] THEN a + 3 ELSE a
              /\ b' = IF "b" \in step[2] THEN b + 3 ELSE b
              /\ Add(step[1])
              /\ Goto(IF RoomForThree(a', A) /\ RoomForThree(b', B) THEN pc ELSE "Naive")

-----------------------------------------------------------------------------
(* A is skipped through by threes; what was skipped is looked at again.    *)

\* Variant: only one element before is looked at.
BehindByOne(k, x) == k - 1 >= 0 /\ At(A, k - 1) = x

Behind(k, x) == \E back \in {1, 2} : k - back >= 0 /\ At(A, k - back) = x

MultipleSkip ==
  /\ pc = "MultipleSkip"
  /\ IF b >= Len(B) \/ At(B, b) > dest THEN UNCHANGED <<a, b, count>> /\ Goto("done")
     ELSE IF a < Len(A) /\ At(A, a) < At(B, b)
     THEN a' = a + 3 /\ UNCHANGED <<b, count>> /\ Goto(pc)
     ELSE LET here == IF a >= Len(A) THEN Len(A) - 1 ELSE a
          IN  /\ a' = here
              /\ b' = b + 1
              /\ Add(IF At(A, here) = At(B, b) \/ Behind(here, At(B, b)) THEN 1 ELSE 0)
              /\ Goto(pc)

Finished == pc = "done" /\ UNCHANGED vars

Next == Naive \/ Bitset \/ BinarySearch \/ Hiroshi \/ MultipleSkip \/ Finished

Spec == Init /\ [][Next]_vars

-----------------------------------------------------------------------------

\* What the comments of intersections.h promise; two functions take no dest.
Common == {x \in Elements(A) \cap Elements(B) :
             method \notin {"Bitset", "BinarySearch"} => x <= dest}

\* The common elements neither a nor b has passed.
Ahead == {x \in Common : /\ \E k \in (a + 1) .. Len(A) : A[k] = x
                         /\ \E k \in (b + 1) .. Len(B) : B[k] = x}

(***************************************************************************)
(* bench/include/gapbs/intersections.h:137, 219: skipping and loading      *)
(* three elements at a time, and stopping at dest, neither miss nor repeat *)
(* a common element: in the merge and in the loop over blocks, which have  *)
(* three elements to load (149), what is not counted is still ahead.       *)
(***************************************************************************)
CountIsExact ==
  /\ pc = "done" => count = Cardinality(Common)
  /\ pc = "Hiroshi" => a + 2 < Len(A) /\ b + 2 < Len(B)
  /\ pc \in {"Hiroshi", "Naive"} => count + Cardinality(Ahead) = Cardinality(Common)
=============================================================================
