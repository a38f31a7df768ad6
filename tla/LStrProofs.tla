----------------------------- MODULE LStrProofs -----------------------------
(***************************************************************************)
(* Proofs about LStr for every width of the size field, every size of the  *)
(* memory, every encoding and whatever the word behind the master pointer  *)
(* says.                                                                   *)
(*                                                                         *)
(* SliceInBounds and OkStores need little more than that AsI32 never grows *)
(* a length; the types say that the size field holds an i32.               *)
(* TextReadsBack is about all of a text: StoredText ties the bytes of the  *)
(* last call to its text, and the first half of the module is about        *)
(* FlattenSeq, the recursive function that Encode is made of.              *)
(***************************************************************************)
EXTENDS LStr, SequenceTheorems, WellFoundedInduction, TLAPS

(* `as i32` gives a value of the size field that is never above the length, *)
(* and the length where it fits.                                            *)
LEMMA Wraps ==
  ASSUME NEW n \in Nat
  PROVE  /\ AsI32(n) \in -(I32Max + 1)..I32Max
         /\ AsI32(n) <= n
         /\ n <= I32Max => AsI32(n) = n
<1> DEFINE a == n + I32Max + 1
           b == 2 * (I32Max + 1)
<1>1. a \in Nat /\ b \in Nat /\ b > 0
  BY StringAssumption
<1>2. \A x, y \in Nat : y > 0 => x % y \in 0..(y - 1) /\ x % y <= x /\ (x < y => x % y = x)
  OBVIOUS
<1>3. a % b \in 0..(b - 1) /\ a % b <= a /\ (a < b => a % b = a)
  <2> HIDE DEF a, b
  <2> QED
    BY <1>1, <1>2
<1>4. AsI32(n) = (a % b) - (I32Max + 1)
  BY DEF AsI32
<1>5. n <= I32Max => a < b
  BY StringAssumption
<1> QED
  BY <1>3, <1>4, <1>5, StringAssumption

(* Induction up to d, over a set. *)
LEMMA Induction ==
  ASSUME NEW d \in Nat, NEW S, 0 \in S, \A n \in 1..d : n - 1 \in S => n \in S
  PROVE  0..d \subseteq S
<1> DEFINE T == (0..d) \ S
<1>1. ASSUME T # {} PROVE FALSE
  <2>1. T \subseteq Nat
    OBVIOUS
  <2> HIDE DEF T
  <2>2. PICK n \in T : \A m \in T : <<m, n>> \notin OpToRel(<, Nat)
    BY <1>1, <2>1, WFMin, NatLessThanWellFounded, Zenon
  <2>3. \A m, k \in Nat : m < k => <<m, k>> \in OpToRel(<, Nat)
    BY DEF OpToRel
  <2>4. \A m \in T : ~(m < n)
    BY <2>1, <2>2, <2>3
  <2> USE DEF T
  <2>5. n \in 1..d /\ n - 1 \in 0..d /\ n - 1 < n
    OBVIOUS
  <2> QED
    BY <2>4, <2>5
<1> QED
  BY <1>1

-----------------------------------------------------------------------------
(* The recursive function of FlattenSeq. *)
Flat(s, f) == [i \in 1..Len(s) |-> IF i = 1 THEN s[i] ELSE f[i - 1] \o s[i]]

(* One step of it. *)
LEMMA FlatAt ==
  ASSUME NEW s, NEW f, f = Flat(s, f)
  PROVE  \A i \in 1..Len(s) : f[i] = IF i = 1 THEN s[i] ELSE f[i - 1] \o s[i]
BY Zenon DEF Flat

(* The function exists, ... *)
LEMMA FlatExists ==
  ASSUME NEW S, NEW s \in Seq(Seq(S))
  PROVE  \E f : f = Flat(s, f)
<1> DEFINE N == Len(s)
           Upto(d, f) == \A i \in 1..d : f[i] = IF i = 1 THEN s[i] ELSE f[i - 1] \o s[i]
           T == {d \in 0..N : \E f \in [1..d -> Seq(S)] : Upto(d, f)}
<1>1. N \in Nat /\ \A i \in 1..N : s[i] \in Seq(S)
  OBVIOUS
<1>2. 0 \in T
  <2> DEFINE q == [i \in 1..0 |-> <<>>]
  <2>1. q \in [1..0 -> Seq(S)] /\ Upto(0, q)
    OBVIOUS
  <2>2. 0 \in 0..N
    BY <1>1
  <2> HIDE DEF q, N, Upto
  <2> QED
    BY <2>1, <2>2, Zenon
<1> HIDE DEF N
<1>3. ASSUME NEW d \in 1..N, d - 1 \in T
      PROVE  d \in T
  <2>1. PICK f \in [1..(d - 1) -> Seq(S)] : Upto(d - 1, f)
    BY <1>3
  <2> DEFINE v == IF d = 1 THEN s[1] ELSE f[d - 1] \o s[d]
             q == [i \in 1..d |-> IF i = d THEN v ELSE f[i]]
  <2>2. v \in Seq(S)
    <3>1. d \in Nat /\ s[d] \in Seq(S) /\ (d # 1 => f[d - 1] \in Seq(S))
      BY <1>1
    <3>2. d # 1 => f[d - 1] \o s[d] \in Seq(S)
      BY <3>1, ConcatProperties
    <3> QED
      BY <3>1, <3>2
  <2>3. \A i \in 1..d : q[i] = IF i = d THEN v ELSE f[i]
    OBVIOUS
  <2>4. q \in [1..d -> Seq(S)]
    <3> HIDE DEF v
    <3> QED
      BY <2>2
  <2> HIDE DEF q
  <2>5. Upto(d, q)
    <3>1. ASSUME NEW i \in 1..(d - 1)
          PROVE  q[i] = IF i = 1 THEN s[i] ELSE q[i - 1] \o s[i]
      <4>1. q[i] = f[i] /\ (i # 1 => q[i - 1] = f[i - 1])
        BY <1>1, <2>3
      <4>2. f[i] = IF i = 1 THEN s[i] ELSE f[i - 1] \o s[i]
        BY <2>1
      <4> QED
        BY <4>1, <4>2
    <3>2. q[d] = IF d = 1 THEN s[d] ELSE q[d - 1] \o s[d]
      <4>1. q[d] = v /\ (d # 1 => q[d - 1] = f[d - 1])
        BY <2>3
      <4> QED
        BY <4>1
    <3>3. \A i \in 1..d : i \in 1..(d - 1) \/ i = d
      OBVIOUS
    <3> QED
      BY <3>1, <3>2, <3>3
  <2> HIDE DEF Upto
  <2> QED
    BY <2>4, <2>5
<1> HIDE DEF T
<1>4. N \in T
  <2>1. \A d \in 1..N : d - 1 \in T => d \in T
    BY <1>3
  <2>2. 0..N \subseteq T
    BY <1>1, <1>2, <2>1, Induction
  <2> QED
    BY <1>1, <2>2
<1>5. PICK f \in [1..N -> Seq(S)] : Upto(N, f)
  BY <1>4 DEF T
<1>6. f = [i \in 1..N |-> f[i]]
  OBVIOUS
<1>7. f = Flat(s, f)
  BY <1>5, <1>6, Zenon DEF Flat, N
<1> QED
  BY <1>7

(* ... so CHOOSE finds it, and its last value is the flattened sequence. *)
LEMMA FlattenUnfolds ==
  ASSUME NEW S, NEW s \in Seq(Seq(S)), Len(s) # 0
  PROVE  \E f : f = Flat(s, f) /\ Ext!FlattenSeq(s) = f[Len(s)]
<1> DEFINE F == CHOOSE f : f = Flat(s, f)
<1>1. F = Flat(s, F)
  BY FlatExists
<1>2. Ext!FlattenSeq(s) = F[Len(s)]
  BY Zenon DEF Ext!FlattenSeq, Flat
<1> QED
  BY <1>1, <1>2

(* A flattened sequence is one of the elements of its parts ... *)
LEMMA FlattenTyped ==
  ASSUME NEW S, NEW s \in Seq(Seq(S))
  PROVE  Ext!FlattenSeq(s) \in Seq(S)
<1>1. CASE Len(s) = 0
  <2>1. Ext!FlattenSeq(s) = <<>>
    BY <1>1, EmptySeq DEF Ext!FlattenSeq
  <2> QED
    BY <2>1, EmptySeq
<1>2. CASE Len(s) # 0
  <2>1. PICK f : f = Flat(s, f) /\ Ext!FlattenSeq(s) = f[Len(s)]
    BY <1>2, FlattenUnfolds
  <2>2. \A i \in 1..Len(s) : f[i] = IF i = 1 THEN s[i] ELSE f[i - 1] \o s[i]
    <3>1. f = Flat(s, f)
      BY <2>1
    <3> QED
      BY ONLY <3>1, FlatAt, Zenon
  <2> DEFINE T == {d \in 0..Len(s) : d # 0 => f[d] \in Seq(S)}
  <2>3. Len(s) \in Nat /\ \A i \in 1..Len(s) : s[i] \in Seq(S)
    OBVIOUS
  <2>4. ASSUME NEW d \in 1..Len(s), d - 1 \in T
        PROVE  d \in T
    <3>1. s[d] \in Seq(S) /\ (d # 1 => f[d - 1] \in Seq(S))
      BY <2>3, <2>4
    <3>2. d # 1 => f[d - 1] \o s[d] \in Seq(S)
      BY <3>1, ConcatProperties
    <3>3. f[d] \in Seq(S)
      BY <2>2, <3>1, <3>2
    <3> QED
      BY <3>3
  <2>5. 0 \in T
    BY <2>3
  <2> HIDE DEF T
  <2>6. 0..Len(s) \subseteq T
    BY <2>3, <2>4, <2>5, Induction
  <2>7. f[Len(s)] \in Seq(S)
    BY <1>2, <2>3, <2>6 DEF T
  <2> QED
    BY <2>1, <2>7
<1> QED
  BY <1>1, <1>2

(* One element behind a sequence. *)
LEMMA OneMore ==
  ASSUME NEW S, NEW p \in Seq(S), NEW r \in Seq(S), Len(r) = 1
  PROVE  /\ p \o r \in Seq(S) /\ Len(p \o r) = Len(p) + 1
         /\ \A i \in 1..Len(p) : (p \o r)[i] = p[i]
         /\ (p \o r)[Len(p) + 1] = r[1]
<1>1. /\ p \o r \in Seq(S) /\ Len(p \o r) = Len(p) + Len(r)
      /\ \A i \in 1..(Len(p) + Len(r)) :
           (p \o r)[i] = IF i <= Len(p) THEN p[i] ELSE r[i - Len(p)]
  BY ConcatProperties
<1>2. Len(p) \in Nat
  OBVIOUS
<1> QED
  BY <1>1, <1>2

(* ... and, where every part has one element, the sequence of these. *)
LEMMA FlattenSingles ==
  ASSUME NEW S, NEW s \in Seq(Seq(S)), \A i \in 1..Len(s) : Len(s[i]) = 1
  PROVE  Ext!FlattenSeq(s) = [i \in 1..Len(s) |-> s[i][1]]
<1>1. CASE Len(s) = 0
  BY <1>1, EmptySeq DEF Ext!FlattenSeq
<1>2. CASE Len(s) # 0
  <2>1. PICK f : f = Flat(s, f) /\ Ext!FlattenSeq(s) = f[Len(s)]
    BY <1>2, FlattenUnfolds
  <2> DEFINE N == Len(s)
  <2>2. \A i \in 1..N : f[i] = IF i = 1 THEN s[i] ELSE f[i - 1] \o s[i]
    <3>1. f = Flat(s, f)
      BY <2>1
    <3> QED
      BY ONLY <3>1, FlatAt, Zenon
  <2>3. N \in Nat /\ \A i \in 1..N : s[i] \in Seq(S) /\ Len(s[i]) = 1 /\ s[i][1] \in S
    BY ElementOfSeq
  <2> HIDE DEF N
  <2> DEFINE First(d) == [i \in 1..d |-> s[i][1]]
             T == {d \in 0..N : d # 0 => f[d] = First(d)}
  <2>4. ASSUME NEW d \in 1..N, d - 1 \in T
        PROVE  d \in T
    <3>1. CASE d = 1
      <4>1. f[1] = s[1]
        BY <2>2, <3>1
      <4>2. s[1] = First(1)
        BY <2>3, <3>1
      <4> QED
        BY <3>1, <4>1, <4>2
    <3>2. CASE d # 1
      <4> DEFINE n == d - 1
      <4>1. n \in Nat /\ n + 1 = d /\ f[d] = First(n) \o s[d]
        <5>1. n \in Nat /\ n + 1 = d /\ n # 0
          BY <2>3, <3>2
        <5>2. f[d] = f[n] \o s[d]
          BY <2>2, <3>2
        <5>3. f[n] = First(n)
          BY <2>4, <5>1
        <5> QED
          BY <5>1, <5>2, <5>3
      <4>2. First(n) \in Seq(S) /\ Len(First(n)) = n /\ \A i \in 1..n : First(n)[i] = s[i][1]
        BY <2>3, <4>1
      <4> DEFINE w == First(n) \o s[d]
      <4>3. w \in Seq(S) /\ Len(w) = d /\ (\A i \in 1..n : w[i] = First(n)[i]) /\ w[d] = s[d][1]
        <5> DEFINE p == First(n)
                   r == s[d]
        <5>1. p \in Seq(S) /\ Len(p) = n /\ r \in Seq(S) /\ Len(r) = 1
          BY <2>3, <4>2
        <5> HIDE DEF p, r
        <5>2. /\ p \o r \in Seq(S) /\ Len(p \o r) = Len(p) + 1
              /\ \A i \in 1..Len(p) : (p \o r)[i] = p[i]
              /\ (p \o r)[Len(p) + 1] = r[1]
          BY <5>1, OneMore
        <5>3. Len(p) + 1 = d
          BY <4>1, <5>1
        <5>4. /\ p \o r \in Seq(S) /\ Len(p \o r) = d
              /\ \A i \in 1..n : (p \o r)[i] = p[i]
              /\ (p \o r)[d] = r[1]
          <6> HIDE DEF n
          <6> QED
            BY <5>1, <5>2, <5>3
        <5> QED
          BY <5>4 DEF p, r
      <4>4. \A i \in 1..d : i \in 1..n \/ i = d
        BY <2>3, <4>1
      <4>5. \A i \in 1..d : w[i] = s[i][1]
        BY <4>2, <4>3, <4>4
      <4> HIDE DEF w
      <4>6. w = First(d)
        BY <4>3, <4>5
      <4> HIDE DEF First
      <4>7. f[d] = First(d)
        BY <4>1, <4>6 DEF w
      <4>8. d \in 0..N
        BY <2>3
      <4> QED
        BY <4>7, <4>8
    <3> QED
      BY <3>1, <3>2
  <2>5. 0 \in T
    BY <2>3
  <2> HIDE DEF T
  <2>6. 0..N \subseteq T
    BY <2>3, <2>4, <2>5, Induction
  <2>7. f[N] = First(N)
    <3> HIDE DEF First
    <3>1. N \in T /\ N # 0
      BY <1>2, <2>3, <2>6 DEF N
    <3> QED
      BY <3>1 DEF T
  <2> QED
    BY <2>1, <2>7 DEF N
<1> QED
  BY <1>1, <1>2

-----------------------------------------------------------------------------
Cell == Byte \cup {Uninit}

(* The texts and values that calls bring along. *)
LEMMA Inputs == Values \subseteq Seq(Byte) /\ Texts \subseteq Seq(Char)
<1>1. \A S : \A n \in Nat : Ext!BoundedSeq(S, n) \subseteq Seq(S)
  BY DEF Ext!BoundedSeq, Ext!SeqOf
<1> QED
  BY <1>1, StringAssumption DEF Values, Texts

(* The bytes of a text, and those of a text of single bytes. *)
LEMMA Encoding ==
  ASSUME NEW text \in Seq(Char)
  PROVE  /\ Encode(text) \in Seq(Byte)
         /\ (\A i \in 1..Len(text) : Len(Encoded[text[i]]) = 1) =>
              Encode(text) = [i \in 1..Len(text) |-> Encoded[text[i]][1]]
<1> DEFINE s == [i \in 1..Len(text) |-> Encoded[text[i]]]
<1>1. \A i \in 1..Len(text) : text[i] \in Char /\ Encoded[text[i]] \in Seq(Byte)
  BY EncodingAssumption, ElementOfSeq
<1>2. Len(text) \in Nat
  OBVIOUS
<1>3. s \in Seq(Seq(Byte)) /\ Len(s) = Len(text)
      /\ \A i \in 1..Len(text) : s[i] = Encoded[text[i]]
  <2> DEFINE N == Len(text)
  <2> HIDE DEF N
  <2> QED
    BY <1>1, <1>2 DEF N
<1>4. Encode(text) = Ext!FlattenSeq(s)
  BY DEF Encode
<1> HIDE DEF s
<1>5. Encode(text) \in Seq(Byte)
  BY <1>3, <1>4, FlattenTyped
<1>6. ASSUME \A i \in 1..Len(text) : Len(Encoded[text[i]]) = 1
      PROVE  Encode(text) = [i \in 1..Len(text) |-> Encoded[text[i]][1]]
  <2>1. \A i \in 1..Len(s) : Len(s[i]) = 1
    BY <1>3, <1>6
  <2>2. Encode(text) = [i \in 1..Len(s) |-> s[i][1]]
    BY <1>3, <1>4, <2>1, FlattenSingles
  <2>3. [i \in 1..Len(s) |-> s[i][1]] = [i \in 1..Len(text) |-> Encoded[text[i]][1]]
    <3>1. \A i \in 1..Len(text) : s[i][1] = Encoded[text[i]][1]
      BY <1>3
    <3> QED
      BY <1>3, <3>1, Zenon
  <2> QED
    BY <2>2, <2>3
<1> QED
  BY <1>5, <1>6

(* The bytes that set leaves behind the size field: as many as the value has, *)
(* and the value itself where meta covers it.                                 *)
LEMMA ZippedBytes ==
  ASSUME content \in Seq(Cell), NEW value \in Seq(Byte), NEW meta \in Meta
  PROVE  /\ Zipped(value, meta) \in Seq(Cell)
         /\ Len(Zipped(value, meta)) = Len(value)
         /\ Len(value) <= meta => Zipped(value, meta) = value
<1> DEFINE n == Len(value)
           c == Resized(n)
<1>1. /\ n \in Nat /\ meta \in Nat /\ Storage \in Nat
      /\ \A i \in 1..n : value[i] \in Byte
      /\ \A i \in 1..Storage : content[i] \in Cell
  BY StringAssumption, ElementOfSeq DEF Storage
<1> HIDE DEF n
<1>2. c \in [1..n -> Cell]
  <2>1. \A i \in 1..n : i <= Storage => content[i] \in Cell
    BY <1>1
  <2> QED
    BY <2>1 DEF Resized, Cell
<1>3. c \in Seq(Cell) /\ Len(c) = n
  BY <1>1, <1>2
<1>4. Zipped(value, meta) = [i \in 1..n |-> IF i <= meta THEN value[i] ELSE c[i]]
  BY <1>3 DEF Zipped, n
<1> HIDE DEF c
<1>5. Zipped(value, meta) \in [1..n -> Cell]
  BY <1>1, <1>2, <1>4 DEF Cell
<1>6. Zipped(value, meta) \in Seq(Cell) /\ Len(Zipped(value, meta)) = n
  BY <1>1, <1>5
<1>7. ASSUME n <= meta PROVE Zipped(value, meta) = value
  <2>1. \A i \in 1..n : i <= meta
    BY <1>1, <1>7
  <2>2. [i \in 1..n |-> IF i <= meta THEN value[i] ELSE c[i]] = [i \in 1..n |-> value[i]]
    BY <2>1
  <2>3. value = [i \in 1..n |-> value[i]]
    BY DEF n
  <2> QED
    BY <1>4, <2>2, <2>3
<1> QED
  BY <1>6, <1>7 DEF n

-----------------------------------------------------------------------------
TypeOK ==
  /\ block \in {"null", "string"}
  /\ size \in -(I32Max + 1)..I32Max
  /\ content \in Seq(Cell)
  /\ last.text \in Seq(Char) /\ last.value \in Seq(Byte)

(* set_str stores the encoding of its text. *)
StoredText == last.op = "set_str" /\ last.result = "Ok" => last.value = Encode(last.text)

IInv == TypeOK /\ SliceInBounds /\ OkStores /\ StoredText

LEMMA InitHolds == Init => IInv
<1> SUFFICES ASSUME Init PROVE IInv
  OBVIOUS
<1>1. <<>> \in Seq(Cell) /\ <<>> \in Seq(Char) /\ <<>> \in Seq(Byte) /\ Len(<<>>) = 0
  BY EmptySeq
<1>2. TypeOK
  BY <1>1, StringAssumption DEF Init, NoCall, TypeOK
<1>3. SliceInBounds
  BY <1>1 DEF Init, SliceInBounds, slice_len, Storage
<1> QED
  BY <1>2, <1>3 DEF Init, NoCall, OkStores, StoredText, IInv

(* The two outcomes of a call that stores a value: the new string ... *)
LEMMA StoredStep ==
  ASSUME IInv, NEW op \in {"set", "set_str", "from_data"},
         NEW text \in Seq(Char), NEW value \in Seq(Byte), NEW meta \in Meta,
         op = "set_str" => value = Encode(text),
         block' = "string", size' = AsI32(Len(value)), content' = Zipped(value, meta),
         ReturnsOk(op, text, value, meta)
  PROVE  IInv'
<1>1. Len(value) \in Nat
  OBVIOUS
<1>2. /\ size' \in -(I32Max + 1)..I32Max /\ size' <= Len(value)
      /\ Len(value) <= I32Max => size' = Len(value)
  BY <1>1, Wraps
<1>3. /\ content' \in Seq(Cell) /\ Len(content') = Len(value)
      /\ Len(value) <= meta => content' = value
  BY ZippedBytes DEF IInv, TypeOK
<1>4. /\ last'.op = op /\ last'.text = text /\ last'.value = value
      /\ last'.covered = (Len(value) <= meta)
  BY DEF ReturnsOk
<1>5. TypeOK'
  BY <1>2, <1>3, <1>4 DEF TypeOK
<1>6. SliceInBounds'
  BY <1>1, <1>2, <1>3, StringAssumption DEF SliceInBounds, slice_len, Storage
<1>7. OkStores'
  <2> SUFFICES ASSUME Len(value) <= I32Max, Len(value) <= meta
               PROVE  as_slice' = value
    BY <1>4 DEF OkStores, Fits
  <2>1. as_slice' = SubSeq(value, 1, Len(value))
    BY <1>1, <1>2, <1>3 DEF as_slice, slice_len
  <2> QED
    BY <2>1, SubSeqFull
<1>8. StoredText'
  BY <1>4 DEF StoredText
<1> QED
  BY <1>5, <1>6, <1>7, <1>8 DEF IInv

(* ... or the old one. *)
LEMMA FailedStep ==
  ASSUME IInv, NEW op, ReturnsErr(op), UNCHANGED <<block, size, content>>
  PROVE  IInv'
<1>1. last'.text = <<>> /\ last'.value = <<>> /\ last'.result = "Err"
  BY DEF ReturnsErr, NoCall
<1>2. TypeOK'
  BY <1>1, EmptySeq DEF IInv, TypeOK
<1>3. SliceInBounds'
  BY DEF IInv, SliceInBounds, slice_len, Storage
<1> QED
  BY <1>1, <1>2, <1>3 DEF IInv, OkStores, StoredText

LEMMA StoreStep ==
  ASSUME IInv, NEW op \in {"set", "set_str", "from_data"},
         NEW text \in Seq(Char), NEW value \in Seq(Byte), NEW meta \in Meta,
         op = "set_str" => value = Encode(text),
         Store(op, text, value, meta)
  PROVE  IInv'
BY StoredStep, FailedStep DEF Store

LEMMA SetStep ==
  ASSUME IInv, NEW op \in {"set", "set_str", "from_data"},
         NEW text \in Seq(Char), NEW value \in Seq(Byte), NEW meta \in Meta,
         op = "set_str" => value = Encode(text),
         Set(op, text, value, meta)
  PROVE  IInv'
BY StoreStep, FailedStep DEF Set

LEMMA WriteStep ==
  ASSUME IInv, NEW i \in Int, NEW b \in Byte, Write(i, b)
  PROVE  IInv'
<1>1. i \in 1..Len(content)
  <2>1. slice_len(size) \in Nat /\ slice_len(size) <= Len(content) /\ Len(content) \in Nat
    BY StringAssumption DEF IInv, TypeOK, SliceInBounds, slice_len, Storage
  <2> QED
    BY <2>1 DEF Write
<1>2. content' \in Seq(Cell) /\ Len(content') = Len(content)
  BY <1>1, ExceptSeq DEF Write, IInv, TypeOK, Cell
<1>3. last'.text = <<>> /\ last'.value = <<>> /\ last'.op = "write"
  BY DEF Write, NoCall
<1>4. TypeOK'
  BY <1>2, <1>3, EmptySeq DEF Write, IInv, TypeOK
<1>5. SliceInBounds'
  BY <1>2 DEF Write, IInv, SliceInBounds, slice_len, Storage
<1> QED
  BY <1>3, <1>4, <1>5 DEF IInv, OkStores, StoredText

LEMMA LabVIEWStep ==
  ASSUME IInv, NEW value \in Seq(Byte), LabVIEW(value)
  PROVE  IInv'
<1>1. Len(value) \in Nat /\ value \in Seq(Cell)
  BY DEF Cell
<1>2. last'.text = <<>> /\ last'.value = <<>> /\ last'.op = "LabVIEW"
  BY DEF LabVIEW, NoCall
<1>3. TypeOK'
  <2>1. block' \in {"null", "string"}
    BY DEF LabVIEW
  <2>2. size' \in -(I32Max + 1)..I32Max /\ content' = value
    BY <1>1, StringAssumption DEF LabVIEW
  <2> QED
    BY <1>1, <1>2, <2>1, <2>2, EmptySeq DEF TypeOK
<1>4. SliceInBounds'
  BY <1>1 DEF LabVIEW, SliceInBounds, slice_len, Storage
<1> QED
  BY <1>2, <1>3, <1>4 DEF IInv, OkStores, StoredText

LEMMA NextStep == IInv /\ [Next]_vars => IInv'
<1> SUFFICES ASSUME IInv, [Next]_vars PROVE IInv'
  OBVIOUS
<1>1. CASE UNCHANGED vars
  BY <1>1 DEF vars, IInv, TypeOK, SliceInBounds, OkStores, StoredText, Fits, as_slice,
              slice_len, Storage
<1>2. ASSUME NEW value \in Values, NEW meta \in Meta,
             Set("set", <<>>, value, meta) \/ from_data(value, meta)
      PROVE  IInv'
  BY <1>2, Inputs, EmptySeq, SetStep, StoreStep DEF from_data
<1>3. ASSUME NEW text \in Texts, NEW meta \in Meta, set_str(text, meta)
      PROVE  IInv'
  <2>1. text \in Seq(Char) /\ Encode(text) \in Seq(Byte)
    BY Inputs, Encoding
  <2> QED
    BY <1>3, <2>1, SetStep DEF set_str
<1>4. ASSUME NEW i \in 1..MaxBytes, NEW b \in Byte, Write(i, b)
      PROVE  IInv'
  BY <1>4, WriteStep
<1>5. ASSUME NEW value \in Values, LabVIEW(value)
      PROVE  IInv'
  BY <1>5, Inputs, LabVIEWStep
<1> QED
  BY <1>1, <1>2, <1>3, <1>4, <1>5 DEF Next

LEMMA Invariance == Spec => []IInv
BY InitHolds, NextStep, PTL DEF Spec

(* After any calls, failed resizes and wrapped sizes included, the slice that *)
(* as_slice builds from the size field stays inside the block.                *)
THEOREM SlicesInBounds == Spec => []SliceInBounds
<1>1. IInv => SliceInBounds
  BY DEF IInv
<1> QED
  BY <1>1, Invariance, PTL

(* An Ok of set, set_str or from_data leaves exactly the value, provided that *)
(* the size field can count it and the reference covers it.                   *)
THEOREM OkMeansStored == Spec => []OkStores
<1>1. IInv => OkStores
  BY DEF IInv
<1> QED
  BY <1>1, Invariance, PTL

(* Under the same condition a Rust string of characters with one byte in the *)
(* LabVIEW encoding is read back as it was set, for any encoding.            *)
THEOREM TextsReadBack == Spec => []TextReadsBack
<1>1. IInv => TextReadsBack
  <2> SUFFICES ASSUME IInv, last.op = "set_str", last.result = "Ok", Fits, last.covered,
                      \A i \in 1..Len(last.text) : Encodable(last.text[i]),
                      last.value # <<>> => last.value[1] # BOM
               PROVE  as_slice \in Seq(Byte) /\ Decode(as_slice) = last.text
    BY DEF TextReadsBack
  <2> DEFINE text == last.text
             N == Len(text)
  <2>1. as_slice = last.value /\ last.value \in Seq(Byte) /\ text \in Seq(Char)
    BY DEF IInv, OkStores, TypeOK
  <2>2. N \in Nat /\ text = [i \in 1..N |-> text[i]]
    BY <2>1
  <2>3. \A i \in 1..N : /\ Len(Encoded[text[i]]) = 1
                        /\ Encoded[text[i]][1] \in Byte
                        /\ Decoded[Encoded[text[i]][1]] = text[i]
    <3> SUFFICES ASSUME NEW c \in Char, Encodable(c)
                 PROVE  /\ Len(Encoded[c]) = 1 /\ Encoded[c][1] \in Byte
                        /\ Decoded[Encoded[c][1]] = c
      BY <2>1, ElementOfSeq
    <3>1. PICK b \in Byte : Encoded[c] = <<b>> /\ Decoded[b] = c
      BY DEF Encodable
    <3> QED
      BY <3>1
  <2>4. as_slice = [i \in 1..N |-> Encoded[text[i]][1]]
    BY <2>1, <2>3, Encoding DEF IInv, StoredText
  <2> HIDE DEF text, N
  <2>5. Len(as_slice) = N /\ \A i \in 1..N : as_slice[i] = Encoded[text[i]][1]
    BY <2>2, <2>3, <2>4
  <2>6. Decode(as_slice) = [i \in 1..N |-> Decoded[as_slice[i]]]
    BY <2>1, <2>5 DEF Decode
  <2>7. [i \in 1..N |-> Decoded[as_slice[i]]] = [i \in 1..N |-> text[i]]
    BY <2>3, <2>5
  <2> QED
    BY <2>1, <2>2, <2>6, <2>7 DEF text
<1> QED
  BY <1>1, Invariance, PTL

(* A failed call leaves the old string whole: no new size over old bytes. *)
THEOREM ErrorsKeepString == Spec => ErrKeepsString
<1>1. [Next]_vars => [last'.result = "Err" => UNCHANGED <<block, size, content>>]_vars
  <2> SUFFICES ASSUME Next, last'.result = "Err"
               PROVE  UNCHANGED <<block, size, content>>
    OBVIOUS
  <2> USE DEF ReturnsOk, ReturnsErr, NoCall
  <2>1. ASSUME NEW op, NEW text, NEW value, NEW meta, Set(op, text, value, meta)
        PROVE  UNCHANGED <<block, size, content>>
    BY <2>1 DEF Set, Store
  <2>2. ASSUME NEW value, NEW meta, from_data(value, meta)
        PROVE  UNCHANGED <<block, size, content>>
    BY <2>2 DEF from_data, Store
  <2>3. ASSUME NEW i, NEW b, Write(i, b)
        PROVE  FALSE
    BY <2>3 DEF Write
  <2>4. ASSUME NEW value, LabVIEW(value)
        PROVE  FALSE
    BY <2>4 DEF LabVIEW
  <2> QED
    BY <2>1, <2>2, <2>3, <2>4 DEF Next, set_str
<1> QED
  BY <1>1, PTL DEF Spec, ErrKeepsString
=============================================================================
