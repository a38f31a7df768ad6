---------------------------- MODULE LVArrayProofs ----------------------------
(***************************************************************************)
(* Proofs about LVArray for every number of dimensions, every width of     *)
(* i32 and usize and every size of the memory.                             *)
(*                                                                         *)
(* element_count and Product are folds.  Least counterexamples (Induction) *)
(* show that their recursive functions exist and how the two relate; the   *)
(* state machine then needs only that element_count is a natural number,   *)
(* and the product whenever that fits a usize.                             *)
(***************************************************************************)
EXTENDS LVArray, SequenceTheorems, WellFoundedInduction, TLAPS

(* Induction up to d, over a set. *)
LEMMA Induction ==
  ASSUME NEW d \in Nat, NEW S, 0 \in S, \A n \in 1..d : n - 1 \in S => n \in S
  PROVE  0..d \subseteq S
<1> DEFINE T == (0..d) \ S
<1>1. ASSUME T # {} PROVE FALSE
  <2>1. T \subseteq Nat
    OBVIOUS
  <2> HIDE DEF T
  <2>2. PICK n \in T : \A m \in T : <<m, n>> \notin OpToRel(<, Nat)
    BY <1>1, <2>1, WFMin, NatLessThanWellFounded, Zenon
  <2>3. \A m, k \in Nat : m < k => <<m, k>> \in OpToRel(<, Nat)
    BY DEF OpToRel
  <2>4. \A m \in T : ~(m < n)
    BY <2>1, <2>2, <2>3
  <2> USE DEF T
  <2>5. n \in 1..d /\ n - 1 \in 0..d /\ n - 1 < n
    OBVIOUS
  <2> QED
    BY <2>4, <2>5
<1> QED
  BY <1>1

-----------------------------------------------------------------------------
(* The folds of Product and element_count over the dimensions x. *)
Factors(x, p) == [n \in 0..D |-> IF n = 0 THEN 1 ELSE p[n - 1] * x[n]]
Times(v, k) == IF v >= 0 /\ k >= 0 /\ v * k \in 0..UsizeMax THEN v * k ELSE -1
Checked(x, p) == [n \in 0..D |-> IF n = 0 THEN 1 ELSE Times(p[n - 1], x[n])]

(* One step of each fold. *)
LEMMA FactorsAt ==
  ASSUME NEW x, NEW p, NEW f, f = Factors(x, p)
  PROVE  f[0] = 1 /\ \A n \in 1..D : f[n] = p[n - 1] * x[n]
<1>1. 0 \in 0..D /\ \A n \in 1..D : n \in 0..D /\ n # 0
  BY ArrayAssumption
<1> QED
  BY <1>1, Zenon DEF Factors

LEMMA CheckedAt ==
  ASSUME NEW x, NEW p, NEW f, f = Checked(x, p)
  PROVE  f[0] = 1 /\ \A n \in 1..D : f[n] = Times(p[n - 1], x[n])
<1>1. 0 \in 0..D /\ \A n \in 1..D : n \in 0..D /\ n # 0
  BY ArrayAssumption
<1> QED
  BY <1>1, Zenon DEF Checked

(* The recursive function of Product exists, so CHOOSE finds it. *)
LEMMA FactorsExist ==
  ASSUME NEW x \in [Axis -> Int]
  PROVE  \E p : p = Factors(x, p)
<1> USE ArrayAssumption DEF Axis
<1> DEFINE Upto(d, p) == p[0] = 1 /\ \A n \in 1..d : p[n] = p[n - 1] * x[n]
           S == {d \in 0..D : \E p \in [0..d -> Int] : Upto(d, p)}
<1>1. 0 \in S
  <2> DEFINE q == [n \in 0..0 |-> 1]
  <2>1. q \in [0..0 -> Int] /\ Upto(0, q)
    OBVIOUS
  <2> HIDE DEF q
  <2> QED
    BY <2>1
<1>2. ASSUME NEW d \in 1..D, d - 1 \in S
      PROVE  d \in S
  <2>1. PICK p \in [0..(d - 1) -> Int] : Upto(d - 1, p)
    BY <1>2
  <2> DEFINE q == [n \in 0..d |-> IF n = d THEN p[d - 1] * x[d] ELSE p[n]]
  <2>2. p[d - 1] \in Int /\ x[d] \in Int
    OBVIOUS
  <2>3. q \in [0..d -> Int]
    BY <2>2
  <2>4. Upto(d, q)
    BY <2>1
  <2> HIDE DEF q, Upto
  <2> QED
    BY <2>3, <2>4
<1> HIDE DEF S
<1>3. D \in S
  <2>1. \A d \in 1..D : d - 1 \in S => d \in S
    BY <1>2
  <2>2. 0..D \subseteq S
    BY <1>1, <2>1, Induction
  <2> QED
    BY <2>2
<1>4. PICK p \in [0..D -> Int] : Upto(D, p)
  BY <1>3 DEF S
<1>5. p = Factors(x, p)
  BY <1>4 DEF Factors
<1> QED
  BY <1>5

LEMMA ProductUnfolds ==
  ASSUME NEW x \in [Axis -> Int]
  PROVE  \E p : p = Factors(x, p) /\ Product(x) = p[D]
<1> DEFINE P == CHOOSE p : p = Factors(x, p)
<1>1. P = Factors(x, P)
  BY FactorsExist
<1>2. Product(x) = P[D]
  BY Zenon DEF Product, Factors
<1> QED
  BY <1>1, <1>2

(* The same for element_count, whose fold stops at -1. *)
LEMMA CheckedExist ==
  ASSUME NEW x \in [Axis -> Int]
  PROVE  \E p : p = Checked(x, p)
<1> USE ArrayAssumption DEF Axis
<1> DEFINE Upto(d, p) == p[0] = 1 /\ \A n \in 1..d : p[n] = Times(p[n - 1], x[n])
           S == {d \in 0..D : \E p \in [0..d -> Int] : Upto(d, p)}
<1>1. 0 \in S
  <2> DEFINE q == [n \in 0..0 |-> 1]
  <2>1. q \in [0..0 -> Int] /\ Upto(0, q)
    OBVIOUS
  <2> HIDE DEF q
  <2> QED
    BY <2>1
<1>2. ASSUME NEW d \in 1..D, d - 1 \in S
      PROVE  d \in S
  <2>1. PICK p \in [0..(d - 1) -> Int] : Upto(d - 1, p)
    BY <1>2
  <2> DEFINE q == [n \in 0..d |-> IF n = d THEN Times(p[d - 1], x[d]) ELSE p[n]]
  <2>2. Times(p[d - 1], x[d]) \in Int
    <3>1. p[d - 1] \in Int /\ x[d] \in Int
      OBVIOUS
    <3> QED
      BY <3>1 DEF Times
  <2>3. q \in [0..d -> Int]
    BY <2>2
  <2>4. Upto(d, q)
    BY <2>1
  <2> HIDE DEF q, Upto
  <2> QED
    BY <2>3, <2>4
<1> HIDE DEF S
<1>3. D \in S
  <2>1. \A d \in 1..D : d - 1 \in S => d \in S
    BY <1>2
  <2>2. 0..D \subseteq S
    BY <1>1, <2>1, Induction
  <2> QED
    BY <2>2
<1>4. PICK p \in [0..D -> Int] : Upto(D, p)
  BY <1>3 DEF S
<1>5. p = Checked(x, p)
  BY <1>4 DEF Checked
<1> QED
  BY <1>5

LEMMA CountUnfolds ==
  ASSUME NEW x \in [Axis -> Int]
  PROVE  \E p : p = Checked(x, p) /\ element_count(x) = IF p[D] >= 0 THEN p[D] ELSE 0
<1> DEFINE P == CHOOSE p : p = Checked(x, p)
<1>1. P = Checked(x, P)
  BY CheckedExist
<1>2. element_count(x) = IF P[D] >= 0 THEN P[D] ELSE 0
  BY Zenon DEF element_count, Checked, Times
<1> QED
  BY <1>1, <1>2

(* The checked fold is the product, or gives up with 0 ... *)
LEMMA CountIsProductOrZero ==
  ASSUME NEW x \in [Axis -> Int]
  PROVE  /\ Product(x) \in Int
         /\ element_count(x) \in Nat
         /\ element_count(x) \in {0, Product(x)}
         /\ x[D] = 0 => Product(x) = 0
<1> USE ArrayAssumption DEF Axis
<1>1. PICK q : q = Factors(x, q) /\ Product(x) = q[D]
  BY ProductUnfolds
<1>2. PICK p : p = Checked(x, p) /\ element_count(x) = IF p[D] >= 0 THEN p[D] ELSE 0
  BY CountUnfolds
<1> DEFINE S == {n \in 0..D : q[n] \in Int /\ p[n] \in {-1, q[n]}}
<1>3. q[0] = 1 /\ \A n \in 1..D : q[n] = q[n - 1] * x[n]
  <2>1. q = Factors(x, q)
    BY <1>1
  <2> QED
    BY ONLY <2>1, FactorsAt, Zenon
<1>4. p[0] = 1 /\ \A n \in 1..D : p[n] = Times(p[n - 1], x[n])
  <2>1. p = Checked(x, p)
    BY <1>2
  <2> QED
    BY ONLY <2>1, CheckedAt, Zenon
<1>5. 0 \in S
  BY <1>3, <1>4
<1>6. ASSUME NEW n \in 1..D, n - 1 \in S
      PROVE  n \in S
  <2>1. x[n] \in Int /\ q[n - 1] \in Int /\ p[n - 1] \in {-1, q[n - 1]}
    BY <1>6
  <2>2. q[n] \in Int /\ q[n] = q[n - 1] * x[n]
    BY <1>3, <2>1
  <2>3. p[n] = -1 \/ p[n] = q[n]
    <3>1. p[n] = -1 \/ (p[n - 1] >= 0 /\ p[n] = p[n - 1] * x[n])
      BY <1>4 DEF Times
    <3>2. p[n - 1] = q[n - 1] \/ ~(p[n - 1] >= 0)
      BY <2>1
    <3> QED
      BY <2>2, <3>1, <3>2
  <2> QED
    BY <2>2, <2>3
<1> HIDE DEF S
<1>7. 0..D \subseteq S
  BY <1>5, <1>6, Induction
<1>8. q[D] \in Int /\ p[D] \in {-1, q[D]} /\ q[D - 1] \in Int
  <2>1. D \in S /\ D - 1 \in S
    BY <1>7
  <2> QED
    BY <2>1 DEF S
<1>9. x[D] = 0 => q[D] = 0
  BY <1>3, <1>8
<1> QED
  BY <1>1, <1>2, <1>8, <1>9

(* Multiplying by anything but 0 does not make a natural number smaller. *)
LEMMA Multiplied ==
  ASSUME NEW a \in Nat, NEW b \in Nat
  PROVE  a * b \in Nat /\ (b # 0 => a * b >= a)
<1>1. a * b \in Nat
  OBVIOUS
<1>2. CASE b = 0
  BY <1>1, <1>2
<1>3. CASE b # 0
  <2>1. b - 1 \in Nat
    BY <1>3
  <2> DEFINE c == b - 1
  <2>2. a * c \in Nat /\ a * b = a * c + a
    BY <2>1
  <2> QED
    BY <1>1, <2>2
<1> QED
  BY <1>2, <1>3

(* ... and it does not give up where the product fits a usize. *)
LEMMA CountIsProduct ==
  ASSUME NEW x \in [Axis -> Nat], Product(x) <= UsizeMax
  PROVE  Product(x) \in Nat /\ element_count(x) = Product(x)
<1> USE ArrayAssumption DEF Axis
<1>0. x \in [Axis -> Int]
  OBVIOUS
<1>1. PICK q : q = Factors(x, q) /\ Product(x) = q[D]
  BY <1>0, ProductUnfolds
<1>2. PICK p : p = Checked(x, p) /\ element_count(x) = IF p[D] >= 0 THEN p[D] ELSE 0
  BY <1>0, CountUnfolds
<1> DEFINE S == {n \in 0..D : /\ q[n] \in Nat
                              /\ \/ p[n] = q[n]
                                 \/ p[n] = -1 /\ (q[n] = 0 \/ q[n] > UsizeMax)}
<1>3. q[0] = 1 /\ \A n \in 1..D : q[n] = q[n - 1] * x[n]
  <2>1. q = Factors(x, q)
    BY <1>1
  <2> QED
    BY ONLY <2>1, FactorsAt, Zenon
<1>4. p[0] = 1 /\ \A n \in 1..D : p[n] = Times(p[n - 1], x[n])
  <2>1. p = Checked(x, p)
    BY <1>2
  <2> QED
    BY ONLY <2>1, CheckedAt, Zenon
<1>5. 0 \in S
  BY <1>3, <1>4
<1>6. ASSUME NEW n \in 1..D, n - 1 \in S
      PROVE  n \in S
  <2>1. x[n] \in Nat /\ q[n - 1] \in Nat
    BY <1>6
  <2>2. q[n] = q[n - 1] * x[n]
    BY <1>3
  <2>3. q[n] \in Nat /\ (x[n] # 0 => q[n] >= q[n - 1]) /\ (x[n] = 0 => q[n] = 0)
    <3>1. q[n - 1] * x[n] \in Nat /\ (x[n] # 0 => q[n - 1] * x[n] >= q[n - 1])
      BY ONLY <2>1, Multiplied
    <3> QED
      BY <2>1, <2>2, <3>1
  <2>4. CASE p[n - 1] = q[n - 1]
    <3>1. p[n] = IF q[n] \in 0..UsizeMax THEN q[n] ELSE -1
      <4>1. p[n - 1] >= 0 /\ x[n] >= 0 /\ p[n - 1] * x[n] = q[n]
        BY <2>1, <2>2, <2>4
      <4> QED
        BY <1>4, <4>1 DEF Times
    <3> QED
      BY <2>3, <3>1
  <2>5. CASE p[n - 1] = -1 /\ (q[n - 1] = 0 \/ q[n - 1] > UsizeMax)
    <3>1. p[n] = -1
      BY <1>4, <2>5 DEF Times
    <3>2. q[n] = 0 \/ q[n] > UsizeMax
      BY <2>1, <2>2, <2>3, <2>5
    <3> QED
      BY <2>3, <3>1, <3>2
  <2> QED
    BY <1>6, <2>4, <2>5
<1> HIDE DEF S
<1>7. 0..D \subseteq S
  BY <1>5, <1>6, Induction
<1>8. /\ q[D] \in Nat
      /\ p[D] = q[D] \/ (p[D] = -1 /\ (q[D] = 0 \/ q[D] > UsizeMax))
  BY <1>7 DEF S
<1> QED
  BY <1>1, <1>2, <1>8

-----------------------------------------------------------------------------
(* Without an array there is no header, and none is read. *)
NoHeader == block # "array" => dims = Zero

IInv == TypeOK /\ NoHeader /\ SliceInBounds /\ ResizeTakesEffect /\ CopyIsFaithful

(* What FailureKeepsArray asks of a step. *)
Keeps == last'.result # "Ok" => UNCHANGED <<block, dims, content>>

LEMMA DimsTyped == Dims \subseteq [Axis -> Int] /\ Zero \in Dims
BY ArrayAssumption DEF Dims, Zero

LEMMA Whole == IInv => SliceIsWhole
BY DimsTyped, CountIsProductOrZero DEF IInv, TypeOK, SliceIsWhole

LEMMA InitHolds == Init => IInv
<1> SUFFICES ASSUME Init PROVE IInv
  OBVIOUS
<1>1. /\ block \in {"none", "null"} /\ dims = Zero /\ content = <<>>
      /\ last = [op |-> "none", arg |-> Zero, value |-> Uninit, result |-> "Ok"]
  BY DEF Init
<1>2. last \in Call
  BY <1>1, DimsTyped DEF Call
<1>3. content \in Seq(Value \cup {Uninit}) /\ Storage <= MaxStorage
  BY <1>1, ArrayAssumption DEF Storage
<1> QED
  BY <1>1, <1>2, <1>3, DimsTyped
     DEF IInv, TypeOK, NoHeader, SliceInBounds, ResizeTakesEffect, CopyIsFaithful

(* A call that reports a failure and has changed nothing. *)
LEMMA FailStep ==
  ASSUME IInv, UNCHANGED <<block, dims, content>>,
         NEW op \in {"new_empty", "resize", "copy"}, NEW x \in [Axis -> Int],
         NEW v \in Value \cup {Uninit}, NEW r \in {"Err", "panic"}, Returns(op, x, v, r)
  PROVE  IInv' /\ Keeps
<1>1. last' \in Call /\ last'.result = r
  BY DEF Returns, Call
<1> QED
  BY <1>1 DEF IInv, TypeOK, NoHeader, SliceInBounds, ResizeTakesEffect, CopyIsFaithful,
              Keeps, Storage

(* The lengths of what a resize and a fill leave. *)
LEMMA ResizedTyped ==
  ASSUME TypeOK, NEW n \in Nat
  PROVE  Resized(n) \in Seq(Value \cup {Uninit}) /\ Len(Resized(n)) = n
BY DEF TypeOK, Resized, Storage

LEMMA ZippedTyped ==
  ASSUME NEW c \in Seq(Value \cup {Uninit}), NEW n, NEW shape, NEW v \in Value
  PROVE  /\ Zipped(c, n, shape, v) \in Seq(Value \cup {Uninit})
         /\ Len(Zipped(c, n, shape, v)) = Len(c)
         /\ \A i \in 1..Len(c) :
              Zipped(c, n, shape, v)[i] = IF i <= n /\ i <= Product(shape) THEN v ELSE c[i]
<1>1. Len(c) \in Nat /\ \A i \in 1..Len(c) : c[i] \in Value \cup {Uninit}
  OBVIOUS
<1> QED
  BY <1>1 DEF Zipped

(* After a successful operation op on an array with these dimensions. *)
LEMMA ArrayStep ==
  ASSUME block' = "array", dims' \in Dims, content' \in Seq(Value \cup {Uninit}),
         element_count(dims') <= Len(content'), Len(content') <= MaxStorage,
         NEW op \in {"new_empty", "resize", "copy", "set", "LabVIEW"},
         NEW x \in [Axis -> Int], NEW v \in Value \cup {Uninit}, Returns(op, x, v, "Ok"),
         op \in {"resize", "copy"} => dims' = x,
         op = "copy" => /\ element_count(x) = Product(x)
                        /\ \A i \in 1..Product(x) : content'[i] = v
  PROVE  IInv' /\ Keeps
<1>1. /\ last' \in Call /\ last'.result = "Ok" /\ last'.op = op /\ last'.arg = x
      /\ last'.value = v
  BY DEF Returns, Call
<1>2. TypeOK'
  BY <1>1 DEF TypeOK, Storage
<1>3. SliceInBounds' /\ ResizeTakesEffect' /\ NoHeader'
  BY <1>1 DEF SliceInBounds, ResizeTakesEffect, NoHeader, Storage
<1>4. CopyIsFaithful'
  BY <1>1 DEF CopyIsFaithful
<1> QED
  BY <1>1, <1>2, <1>3, <1>4 DEF IInv, Keeps

LEMMA NewEmptyStep ==
  ASSUME IInv, NEW garbage, NEW full, new_empty(garbage, full)
  PROVE  IInv' /\ Keeps
<1> USE DimsTyped
<1>1. block = "none" /\ dims = Zero /\ dims' = Zero /\ content' = content /\ content = <<>>
      /\ Zero \in [Axis -> Int]
  BY DEF IInv, TypeOK, NoHeader, new_empty
<1>2. CASE block' = "bare" /\ Returns("new_empty", Zero, Uninit, "Ok")
  <2>1. last' \in Call /\ last'.result = "Ok" /\ last'.op = "new_empty"
    BY <1>2, <1>1 DEF Returns, Call
  <2> QED
    BY <1>1, <1>2, <2>1 DEF IInv, TypeOK, NoHeader, SliceInBounds, ResizeTakesEffect,
                            CopyIsFaithful, Keeps, Storage
<1>3. CASE block' = "array" /\ Returns("new_empty", Zero, Uninit, "Ok")
  <2>1. Product(Zero) = 0
    <3>1. Zero[D] = 0
      BY ArrayAssumption DEF Zero, Axis
    <3> QED
      BY <1>1, <3>1, CountIsProductOrZero
  <2>2. element_count(Zero) = 0
    BY <1>1, <2>1, CountIsProductOrZero
  <2>3. content' \in Seq(Value \cup {Uninit}) /\ Len(content') = 0 /\ 0 <= MaxStorage
    BY <1>1, ArrayAssumption
  <2> QED
    BY <1>1, <1>3, <2>2, <2>3, ArrayStep
<1>4. CASE block' = "none" /\ Returns("new_empty", Zero, Uninit, "Err")
  BY <1>1, <1>4, FailStep
<1> QED
  BY <1>2, <1>3, <1>4 DEF new_empty

(* What resize_array and copy_from_ndarray share. *)
LEMMA ReallocateStep ==
  ASSUME IInv, NEW op \in {"resize", "copy"}, NEW x \in Dims, NEW v \in Value \cup {Uninit},
         op = "copy" => v \in Value /\ element_count(x) = Product(x),
         Reallocate(op, x, v)
  PROVE  IInv' /\ Keeps
<1> DEFINE n == element_count(x)
<1>1. x \in [Axis -> Int] /\ n \in Nat
  BY DimsTyped, CountIsProductOrZero
<1> HIDE DEF n
<1>2. CASE /\ n <= MaxStorage /\ block' = "array" /\ dims' = x
           /\ content' = IF op = "copy" THEN Zipped(Resized(n), n, x, v) ELSE Resized(n)
           /\ Returns(op, x, v, "Ok")
  <2>1. Resized(n) \in Seq(Value \cup {Uninit}) /\ Len(Resized(n)) = n
    BY <1>1, ResizedTyped DEF IInv
  <2>2. CASE op = "resize"
    <3>1. content' = Resized(n)
      BY <1>2, <2>2
    <3> QED
      BY <1>1, <1>2, <2>1, <2>2, <3>1, ArrayStep DEF n
  <2>3. CASE op = "copy"
    <3>1. content' = Zipped(Resized(n), n, x, v) /\ n = Product(x) /\ v \in Value
      BY <1>2, <2>3 DEF n
    <3>2. /\ content' \in Seq(Value \cup {Uninit}) /\ Len(content') = n
          /\ \A i \in 1..n : content'[i] = IF i <= n /\ i <= n THEN v ELSE Resized(n)[i]
      BY <2>1, <3>1, ZippedTyped
    <3>3. \A i \in 1..Product(x) : content'[i] = v
      BY <1>1, <3>1, <3>2
    <3> QED
      BY <1>1, <1>2, <2>3, <3>1, <3>2, <3>3, ArrayStep DEF n
  <2> QED
    BY <2>2, <2>3
<1>3. CASE Returns(op, x, v, "Err") /\ UNCHANGED <<block, dims, content>>
  BY <1>1, <1>3, FailStep
<1> QED
  BY <1>2, <1>3 DEF Reallocate, n

LEMMA ResizeStep ==
  ASSUME IInv, NEW x \in Dims, NEW found \in Headers, resize_array(x, found)
  PROVE  IInv' /\ Keeps
<1>1. x \in [Axis -> Int]
  BY DimsTyped
<1>2. CASE Returns("resize", x, Uninit, "panic") /\ UNCHANGED <<block, dims, content>>
  BY <1>1, <1>2, FailStep
<1>3. CASE /\ block \in {"bare", "array"} /\ found = x
           /\ Returns("resize", x, Uninit, "Ok") /\ UNCHANGED <<block, dims, content>>
  <2>1. last' \in Call /\ last'.result = "Ok" /\ last'.op = "resize" /\ last'.arg = x
    BY <1>1, <1>3 DEF Returns, Call
  <2>2. block = "array" => dims = x
    BY <1>3 DEF Headers
  <2> QED
    BY <1>3, <2>1, <2>2 DEF IInv, TypeOK, NoHeader, SliceInBounds, ResizeTakesEffect,
                            CopyIsFaithful, Keeps, Storage
<1>4. CASE Reallocate("resize", x, Uninit)
  BY <1>4, ReallocateStep
<1> QED
  BY <1>2, <1>3, <1>4 DEF resize_array

(* The shape of an ndarray has a product that fits a usize. *)
LEMMA ShapeTyped ==
  ASSUME NEW s \in Shape
  PROVE  /\ s \in [Axis -> Nat] /\ s \in [Axis -> Int]
         /\ Product(s) \in Nat /\ element_count(s) = Product(s)
         /\ FitsI32(s) => s \in Dims
<1>1. s \in [Axis -> 0..(I32Max + 1)] /\ Product(s) <= MaxStorage + 1
  BY DEF Shape
<1>2. s \in [Axis -> Nat] /\ s \in [Axis -> Int]
  BY <1>1, ArrayAssumption
<1>3. Product(s) \in Int /\ Product(s) <= UsizeMax
  BY <1>1, <1>2, CountIsProductOrZero, ArrayAssumption
<1>4. FitsI32(s) => s \in Dims
  BY <1>1, ArrayAssumption DEF FitsI32, Dims
<1> QED
  BY <1>2, <1>3, <1>4, CountIsProduct

(* A copy into an array that has the shape already. *)
LEMMA FillStep ==
  ASSUME IInv, NEW s \in Shape, NEW v \in Value, NEW found \in Headers, found = s,
         block \in {"bare", "array"}, Fill(s, v, found)
  PROVE  IInv' /\ Keeps
<1>1. /\ content' = Zipped(content, element_count(s), s, v)
      /\ Returns("copy", s, v, IF element_count(s) <= Storage THEN "Ok" ELSE "undefined")
      /\ UNCHANGED <<block, dims>>
  BY DEF Fill
<1>2. /\ s \in [Axis -> Int] /\ Product(s) \in Nat /\ element_count(s) = Product(s)
  BY ShapeTyped
<1>3. /\ content \in Seq(Value \cup {Uninit}) /\ Storage <= MaxStorage /\ Storage = Len(content)
      /\ dims \in Dims
  BY DEF IInv, TypeOK, Storage
<1>4. /\ content' \in Seq(Value \cup {Uninit}) /\ Len(content') = Len(content)
      /\ \A i \in 1..Len(content) :
           content'[i] = IF i <= Product(s) /\ i <= Product(s) THEN v ELSE content[i]
  BY <1>1, <1>2, <1>3, ZippedTyped
<1>5. CASE block = "array"
  <2>1. dims = s /\ Product(s) <= Len(content)
    BY <1>2, <1>3, <1>5 DEF Headers, IInv, SliceInBounds
  <2>2. \A i \in 1..Product(s) : content'[i] = v
    BY <1>2, <1>3, <1>4, <2>1
  <2>3. Returns("copy", s, v, "Ok")
    BY <1>1, <1>2, <1>3, <2>1
  <2> QED
    BY <1>1, <1>2, <1>3, <1>4, <1>5, <2>1, <2>2, <2>3, ArrayStep
<1>6. CASE block = "bare"
  <2>1. content = <<>>
    BY <1>6 DEF IInv, TypeOK
  <2>2. content' = <<>>
    BY <1>4, <2>1, EmptySeq
  <2>3. last' \in Call /\ last'.op = "copy"
    BY <1>1, <1>2 DEF Returns, Call
  <2> QED
    BY <1>1, <1>6, <2>1, <2>2, <2>3 DEF IInv, TypeOK, NoHeader, SliceInBounds, ResizeTakesEffect,
                                  CopyIsFaithful, Keeps, Storage
<1> QED
  BY <1>5, <1>6

LEMMA CopyStep ==
  ASSUME IInv, NEW s \in Shape, NEW v \in Value, NEW found \in Headers,
         copy_from_ndarray(s, v, found)
  PROVE  IInv' /\ Keeps
<1>1. s \in [Axis -> Int] /\ element_count(s) = Product(s) /\ (FitsI32(s) => s \in Dims)
  BY ShapeTyped
<1>2. CASE \E r \in {"Err", "panic"} :
             Returns("copy", s, v, r) /\ UNCHANGED <<block, dims, content>>
  BY <1>1, <1>2, FailStep
<1>3. CASE block \in {"bare", "array"} /\ s = found /\ Fill(s, v, found)
  BY <1>3, FillStep
<1>4. CASE FitsI32(s) /\ Reallocate("copy", s, v)
  BY <1>1, <1>4, ReallocateStep
<1> QED
  BY <1>2, <1>3, <1>4 DEF copy_from_ndarray

LEMMA SetValueStep ==
  ASSUME IInv, NEW i, NEW v \in Value, set_value_unchecked(i, v)
  PROVE  IInv' /\ Keeps
<1>1. /\ block = "array" /\ i \in 1..element_count(dims)
      /\ content' = [content EXCEPT ![i] = v]
      /\ Returns("set", Zero, v, "Ok") /\ UNCHANGED <<block, dims>>
  BY DEF set_value_unchecked
<1>2. /\ content \in Seq(Value \cup {Uninit}) /\ Len(content) <= MaxStorage /\ dims \in Dims
      /\ element_count(dims) <= Len(content) /\ element_count(dims) \in Nat
  BY <1>1, DimsTyped, CountIsProductOrZero DEF IInv, TypeOK, Storage, SliceInBounds
<1>3. content' \in Seq(Value \cup {Uninit}) /\ Len(content') = Len(content)
  BY <1>1, <1>2
<1>4. Zero \in [Axis -> Int]
  BY DimsTyped
<1> QED
  BY <1>1, <1>2, <1>3, <1>4, ArrayStep

LEMMA LabVIEWStep ==
  ASSUME IInv, NEW x \in Dims, NEW v \in Value, LabVIEW(x, v)
  PROVE  IInv' /\ Keeps
<1>1. x \in [Axis -> Int] /\ x \in [Axis -> Nat]
  BY DimsTyped DEF LabVIEW, Dims
<1>2. Product(x) <= MaxStorage /\ Product(x) \in Int
  BY <1>1, CountIsProductOrZero DEF LabVIEW
<1>3. Product(x) <= UsizeMax
  BY <1>2, ArrayAssumption
<1>4. Product(x) \in Nat /\ element_count(x) = Product(x)
  BY <1>1, <1>3, CountIsProduct
<1>5. CASE /\ block' = "array" /\ dims' = x /\ content' = [i \in 1..Product(x) |-> v]
           /\ Returns("LabVIEW", x, v, "Ok")
  <2>1. content' \in Seq(Value \cup {Uninit}) /\ Len(content') = Product(x)
    BY <1>4, <1>5
  <2> QED
    BY <1>1, <1>2, <1>4, <1>5, <2>1, ArrayStep
<1>6. CASE /\ block' = "null" /\ dims' = Zero /\ content' = <<>>
           /\ Returns("LabVIEW", x, v, "Ok")
  <2>1. last' \in Call /\ last'.result = "Ok" /\ last'.op = "LabVIEW"
    BY <1>1, <1>6 DEF Returns, Call
  <2>2. content' \in Seq(Value \cup {Uninit}) /\ Len(content') <= MaxStorage
    BY <1>6, ArrayAssumption
  <2> QED
    BY <1>6, <2>1, <2>2, DimsTyped
       DEF IInv, TypeOK, NoHeader, SliceInBounds, ResizeTakesEffect, CopyIsFaithful, Keeps,
           Storage
<1> QED
  BY <1>5, <1>6 DEF LabVIEW

LEMMA StepHolds ==
  ASSUME IInv, [Next]_vars
  PROVE  IInv' /\ (vars' = vars \/ Keeps)
<1>1. CASE UNCHANGED vars
  BY <1>1 DEF vars, IInv, TypeOK, NoHeader, SliceInBounds, ResizeTakesEffect, CopyIsFaithful,
              Storage
<1>2. CASE Next
  BY <1>2, NewEmptyStep, ResizeStep, CopyStep, SetValueStep, LabVIEWStep DEF Next
<1> QED
  BY <1>1, <1>2

-----------------------------------------------------------------------------
(* The invariant: header and storage agree, and the last call did what it *)
(* reported.                                                              *)
THEOREM ArrayInvariant == Spec => []IInv
<1>1. Init => IInv
  BY InitHolds
<1>2. IInv /\ [Next]_vars => IInv'
  BY StepHolds
<1> QED
  BY <1>1, <1>2, PTL DEF Spec

(* The dimensions stay within an i32 and the elements within the memory. *)
THEOREM ArrayTypes == Spec => []TypeOK
<1>1. IInv => TypeOK
  BY DEF IInv
<1> QED
  BY <1>1, ArrayInvariant, PTL

(* Safe code can trust the header: data_as_slice never leaves the storage, *)
(* for any number of dimensions and any widths.                            *)
THEOREM SlicesInBounds == Spec => []SliceInBounds
<1>1. IInv => SliceInBounds
  BY DEF IInv
<1> QED
  BY <1>1, ArrayInvariant, PTL

(* The slice is the whole array, or empty where element_count gives up. *)
THEOREM SlicesAreWhole == Spec => []SliceIsWhole
<1>1. IInv => SliceIsWhole
  BY Whole
<1> QED
  BY <1>1, ArrayInvariant, PTL

(* Ok of resize_array means that the array has the dimensions asked for. *)
THEOREM ResizesTakeEffect == Spec => []ResizeTakesEffect
<1>1. IInv => ResizeTakesEffect
  BY DEF IInv
<1> QED
  BY <1>1, ArrayInvariant, PTL

(* Ok of copy_from_ndarray means that every element has arrived. *)
THEOREM CopiesAreFaithful == Spec => []CopyIsFaithful
<1>1. IInv => CopyIsFaithful
  BY DEF IInv
<1> QED
  BY <1>1, ArrayInvariant, PTL

(* No call that fails, by an error or a panic, leaves a half-changed array. *)
THEOREM FailuresKeepArray == Spec => FailureKeepsArray
<1>1. IInv /\ [Next]_vars => [Keeps]_vars
  BY StepHolds
<1>2. [Keeps]_vars => [last'.result # "Ok" => UNCHANGED <<block, dims, content>>]_vars
  BY DEF Keeps
<1> QED
  BY <1>1, <1>2, ArrayInvariant, PTL DEF Spec, FailureKeepsArray
=============================================================================
