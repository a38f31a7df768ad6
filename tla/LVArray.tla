------------------------------- MODULE LVArray -------------------------------
(***************************************************************************)
(* One numeric array in LabVIEW memory (types/array/): a header with D     *)
(* dimensions of type i32, and the elements.  The manager resizes the      *)
(* elements and never touches the header; the crate writes the header and  *)
(* derives from it how many elements a slice covers.  64-bit target.       *)
(*                                                                         *)
(* The integer widths are parameters, so that small ones can overflow.     *)
(***************************************************************************)
EXTENDS Integers, Sequences

CONSTANTS
  D,           \* the number of dimensions
  I32Min, I32Max, UsizeMax,
  MaxStorage,  \* the manager reports mFullErr beyond this many elements
  Value, Uninit

ASSUME ArrayAssumption ==
  /\ D \in Nat \ {0}
  /\ I32Min \in Int /\ I32Min < 0
  /\ I32Max \in Nat \ {0} /\ UsizeMax \in Nat /\ I32Max < UsizeMax
  /\ MaxStorage \in 0..(UsizeMax - 1)    \* an ndarray has at most isize::MAX elements
  /\ Uninit \notin Value

VARIABLES
  block,     \* "none", "null", "bare" (no room for a header) or "array"
  dims,      \* the header: dim_sizes
  content,   \* the elements that are allocated
  last       \* the last operation, its argument and whether it returned Ok

vars == <<block, dims, content, last>>

Axis == 1..D
Dims == [Axis -> I32Min..I32Max]
Zero == [a \in Axis |-> 0]    \* LVArrayDims::new_empty

(* The plain product of the dimensions. *)
Product(x) ==
  LET p[n \in 0..D] == IF n = 0 THEN 1 ELSE p[n - 1] * x[n] IN p[D]

(* Faulty variant: multiplication modulo the width of usize. *)
element_count_wrapping(x) == Product(x) % (UsizeMax + 1)

(* element_count: a checked fold that gives up, with 0, on a negative dimension *)
(* or on overflow.                                                              *)
element_count(x) ==
  LET fits(v) == v \in 0..UsizeMax
      p[n \in 0..D] ==       \* -1 once the fold has given up
        IF n = 0 THEN 1
        ELSE IF p[n - 1] >= 0 /\ x[n] >= 0 /\ fits(p[n - 1] * x[n])
             THEN p[n - 1] * x[n]
             ELSE -1
  IN  IF p[D] >= 0 THEN p[D] ELSE 0

Storage == Len(content)

Call == [op : {"none", "new_empty", "resize", "copy", "set", "LabVIEW"},
         arg : [Axis -> Int], value : Value \cup {Uninit},
         result : {"Ok", "Err", "panic", "undefined"}]

TypeOK ==
  /\ block \in {"none", "null", "bare", "array"}
  /\ dims \in Dims
  /\ content \in Seq(Value \cup {Uninit}) /\ Storage <= MaxStorage
  /\ last \in Call
  /\ block # "array" => content = <<>>

Init ==
  /\ block \in {"none", "null"}
  /\ dims = Zero
  /\ content = <<>>
  /\ last = [op |-> "none", arg |-> Zero, value |-> Uninit, result |-> "Ok"]

Returns(op, arg, value, result) ==
  last' = [op |-> op, arg |-> arg, value |-> value, result |-> result]

-----------------------------------------------------------------------------
(* NumericArrayResize to n elements, the header left alone. *)
Resized(n) == [i \in 1..n |-> IF i <= Storage THEN content[i] ELSE Uninit]

(* new_empty: allocate zero bytes, then resize_array to no elements.  The       *)
(* comparison at its start reads a header that is not there: garbage is what    *)
(* the memory holds.  When it reads as zeros nothing is resized.                *)
new_empty(garbage, full) ==
  /\ block = "none"
  /\ \/ /\ garbage = Zero
        /\ block' = "bare"
        /\ Returns("new_empty", Zero, Uninit, "Ok")
     \/ /\ garbage # Zero /\ ~full
        /\ block' = "array"
        /\ Returns("new_empty", Zero, Uninit, "Ok")
     \/ /\ garbage # Zero /\ full
        /\ block' = "none"
        /\ Returns("new_empty", Zero, Uninit, "Err")
  /\ dims' = Zero
  /\ UNCHANGED content

(* The elements that iter_mut of the slice and iter of the array reach together. *)
Zipped(c, n, shape, v) ==
  [i \in 1..Len(c) |-> IF i <= n /\ i <= Product(shape) THEN v ELSE c[i]]

(* What resize_array does once it must resize; a copy then fills the elements. *)
Reallocate(op, x, value) ==
  LET n == element_count(x) IN
  \/ /\ n <= MaxStorage
     /\ block' = "array"
     /\ dims' = x
     /\ content' = IF op = "copy" THEN Zipped(Resized(n), n, x, value) ELSE Resized(n)
     /\ Returns(op, x, value, "Ok")
  \/ /\ Returns(op, x, value, "Err")     \* mFullErr
     /\ UNCHANGED <<block, dims, content>>

(* Faulty variants: dim_sizes written whatever the manager says; the skip *)
(* decided by the number of elements.                                     *)
resize_array_unconditional(x, found) ==
  /\ block = "array" /\ dims # x
  /\ dims' = x
  /\ \/ content' = Resized(element_count(x)) /\ element_count(x) <= MaxStorage
        /\ Returns("resize", x, Uninit, "Ok")
     \/ content' = content /\ Returns("resize", x, Uninit, "Err")
  /\ UNCHANGED block
resize_array_by_count(x, found) ==
  /\ block = "array"
  /\ IF element_count(dims) = element_count(x)
     THEN Returns("resize", x, Uninit, "Ok") /\ UNCHANGED <<block, dims, content>>
     ELSE Reallocate("resize", x, Uninit)

(* resize_array: the first comparison dereferences the handle, which panics *)
(* when it is null; found is the header it reads.                           *)
resize_array(x, found) ==
  \/ /\ block = "null"
     /\ Returns("resize", x, Uninit, "panic")
     /\ UNCHANGED <<block, dims, content>>
  \/ /\ block \in {"bare", "array"}
     /\ IF found = x
        THEN Returns("resize", x, Uninit, "Ok") /\ UNCHANGED <<block, dims, content>>
        ELSE Reallocate("resize", x, Uninit)

(* Faulty variant: `as i32`, unchecked. *)
FitsAlways(shape) == TRUE

(* try_from(&[usize; D]): every dimension must fit an i32. *)
FitsI32(shape) == \A a \in Axis : shape[a] <= I32Max

(* The elements are written through the slice the header found describes; *)
(* where that exceeds the storage the behaviour is undefined.             *)
Fill(shape, v, found) ==
  /\ content' = Zipped(content, element_count(found), shape, v)
  /\ Returns("copy", shape, v, IF element_count(found) <= Storage THEN "Ok" ELSE "undefined")
  /\ UNCHANGED <<block, dims>>

(* Faulty variant: resize only when the number of elements differs. *)
copy_from_ndarray_by_count(shape, v, found) ==
  /\ block = "array" /\ \A a \in Axis : found[a] >= 0
  /\ IF element_count(found) = Product(shape)
     THEN Fill(shape, v, found)
     ELSE FitsI32(shape) /\ Reallocate("copy", shape, v)

(* copy_from_ndarray, of an array of this shape full of v: ndarray_dim panics  *)
(* on a null handle and on a negative dimension; then the array is resized if  *)
(* the shapes differ, and filled.  found is the header ndarray_dim reads.      *)
copy_from_ndarray(shape, v, found) ==
  \/ /\ block = "null" \/ (block # "none" /\ \E a \in Axis : found[a] < 0)
     /\ Returns("copy", shape, v, "panic")
     /\ UNCHANGED <<block, dims, content>>
  \/ /\ block \in {"bare", "array"} /\ \A a \in Axis : found[a] >= 0
     /\ \/ shape = found /\ Fill(shape, v, found)
        \/ shape # found /\ FitsI32(shape) /\ Reallocate("copy", shape, v)
        \/ /\ shape # found /\ ~FitsI32(shape)
           /\ Returns("copy", shape, v, "Err")
           /\ UNCHANGED <<block, dims, content>>

(* set_value_unchecked, within the bounds its safety section asks for. *)
set_value_unchecked(i, v) ==
  /\ block = "array"
  /\ i \in 1..element_count(dims)
  /\ content' = [content EXCEPT ![i] = v]
  /\ Returns("set", Zero, v, "Ok")
  /\ UNCHANGED <<block, dims>>

(* LabVIEW passes null for an empty array, or one whose header is right. *)
LabVIEW(x, v) ==
  /\ block \in {"null", "array"}
  /\ \A a \in Axis : x[a] >= 0
  /\ Product(x) <= MaxStorage
  /\ \/ block' = "array" /\ dims' = x /\ content' = [i \in 1..Product(x) |-> v]
     \/ block' = "null" /\ dims' = Zero /\ content' = <<>>
  /\ Returns("LabVIEW", x, v, "Ok")

(* What a read of the header may find: garbage where there is none. *)
Headers == IF block = "bare" THEN Dims ELSE {dims}

(* What an ndarray can be shaped like here: it holds at most as many elements *)
(* as memory can, but one axis may be longer than an i32.                     *)
Shape == {s \in [Axis -> 0..(I32Max + 1)] : Product(s) <= MaxStorage + 1}

Next ==
  \/ \E garbage \in Dims, full \in BOOLEAN : new_empty(garbage, full)
  \/ \E x \in Dims, found \in Headers : resize_array(x, found)
  \/ \E s \in Shape, v \in Value, found \in Headers : copy_from_ndarray(s, v, found)
  \/ \E i \in 1..MaxStorage, v \in Value : set_value_unchecked(i, v)
  \/ \E x \in Dims, v \in Value : LabVIEW(x, v)

Spec == Init /\ [][Next]_vars

-----------------------------------------------------------------------------
(* data_as_slice trusts the header: "Dimensions are set by LabVIEW to be   *)
(* valid".  They also come from resize_array; after any sequence of calls, *)
(* failed ones included, the slice stays inside the elements allocated.    *)
SliceInBounds == block = "array" => element_count(dims) <= Storage

(* The slice covers the whole array or, for dimensions that are negative or *)
(* overflow usize, nothing: no wrapped product between the two.             *)
SliceIsWhole == block = "array" => element_count(dims) \in {0, Product(dims)}

(* "Resize the array to the new size": an Ok means these dimensions, also  *)
(* when the resize was skipped because nothing seemed to change.           *)
ResizeTakesEffect ==
  last.op = "resize" /\ last.result = "Ok" /\ block = "array" => dims = last.arg

(* "Set the LabVIEW array from the ND Array": an Ok means the same shape,  *)
(* and that every element of the source has arrived; zip drops none.  What *)
(* is written never runs past an array's storage.                          *)
CopyIsFaithful ==
  last.op = "copy" /\ last.result \in {"Ok", "undefined"} /\ block = "array" =>
    /\ last.result = "Ok"
    /\ dims = last.arg
    /\ element_count(dims) = Product(last.arg)
    /\ \A i \in 1..Product(last.arg) : content[i] = last.value

(* An Err or a panic leaves header and elements as they were, together. *)
FailureKeepsArray ==
  [][last'.result # "Ok" => UNCHANGED <<block, dims, content>>]_vars

(* "The provided initialisation routine must prepare the memory": what     *)
(* new_empty returns has a header.  It is refuted when the unallocated     *)
(* header reads as zeros.                                                  *)
HeaderPrepared == block # "bare"
=============================================================================
