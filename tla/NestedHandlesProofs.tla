------------------------- MODULE NestedHandlesProofs -------------------------
(***************************************************************************)
(* Proofs about NestedHandles for every set of handles, texts, positions   *)
(* and variables.                                                          *)
(*                                                                         *)
(* The properties need each other: an address is used again only when it   *)
(* is in nobody's hands, which is what Intact says, and the block a drop   *)
(* frees is nobody else's because of Apart.  Good is their conjunction for *)
(* the elements of some holders: for all holders until a string is copied  *)
(* as plain bytes, for LabVIEW's terminals as long as nothing but clones   *)
(* has done so.  Each lemma of an action is about both sets at once.       *)
(***************************************************************************)
EXTENDS NestedHandles, TLAPS

Good(P) == ArraysHeld /\ Apart(P) /\ Intact(P)

(* What is allocated has an owner or was left behind by a dropped array. *)
Kept ==
  \A h \in live : \/ h \in orphaned
                  \/ \E p \in Place : handle[p] = h
                  \/ \E p \in Holder, i \in Index : Elem(p, i) = h

IInv ==
  /\ TypeOK
  /\ raw = {} => Good(Holder) /\ Kept
  /\ raw \subseteq {"clone"} => Good(Terminal)

(* An element is a handle or null. *)
LEMMA ElemTyped ==
  ASSUME TypeOK, NEW p \in Holder, NEW i \in Index
  PROVE  Elem(p, i) \in Handle \cup {Null}
BY DEF TypeOK, Elem, Reaches, Elements

(* Blocks of arrays and blocks of strings are different. *)
LEMMA KindsDiffer ==
  ASSUME TypeOK, NEW P \in SUBSET Holder, Good(P)
  PROVE  \A p \in Holder : handle[p] # Null =>
           /\ \A q \in P, i \in Index : handle[p] # Elem(q, i)
           /\ \A s \in Str : handle[p] # handle[s]
BY NestedAssumption, MemoryAssumption DEF TypeOK, Good, ArraysHeld, Intact, Reaches

(* The owner of a string is its only one. *)
LEMMA SoleOwner ==
  ASSUME NEW P \in SUBSET Holder, Apart(P), NEW h, h # Null
  PROVE  /\ \A s, u \in Str : handle[s] = h /\ handle[u] = h => s = u
         /\ \A s \in Str, p \in P, i \in Index : handle[s] = h => Elem(p, i) # h
         /\ \A p, q \in P, i, j \in Index :
              Elem(p, i) = h /\ Elem(q, j) = h => p = q /\ i = j
<1>1. \A p, q \in P, i, j \in Index : <<p, i>> = <<q, j>> => p = q /\ i = j
  OBVIOUS
<1>2. /\ \A s, t \in Str : s # t /\ handle[s] = handle[t] => handle[s] = Null
      /\ \A p, q \in P, i, j \in Index :
           <<p, i>> # <<q, j>> /\ Elem(p, i) = Elem(q, j) => Elem(p, i) = Null
      /\ \A p \in P, i \in Index, s \in Str : Elem(p, i) = handle[s] => handle[s] = Null
  BY DEF Apart
<1>3. /\ \A s, u \in Str : handle[s] = h /\ handle[u] = h => s = u
      /\ \A s \in Str, p \in P, i \in Index : handle[s] = h => Elem(p, i) # h
  BY <1>2
<1>4. ASSUME NEW p \in P, NEW q \in P, NEW i \in Index, NEW j \in Index,
             Elem(p, i) = h, Elem(q, j) = h
      PROVE  p = q /\ i = j
  BY <1>1, <1>2, <1>4
<1> QED
  BY <1>3, <1>4

(* No action leaves the types, whatever was copied. *)
LEMMA Typed ==
  ASSUME TypeOK, Next
  PROVE  TypeOK'
<1> USE NestedAssumption, MemoryAssumption
    DEF TypeOK, Place, Holder, Record, Raw, history, Allocate
<1>1. ASSUME LabVIEW PROVE TypeOK'
  <2>1. ASSUME NEW v \in Terminal, NEW h \in Handle, LVCreate(v, h) PROVE TypeOK'
    BY <2>1 DEF LVCreate, Elements
  <2>2. ASSUME NEW v \in Terminal, NEW i \in Index, NEW h \in Handle, NEW d \in Text,
               LVSet(v, i, h, d)
        PROVE  TypeOK'
    BY <2>2 DEF LVSet, Elements, Reaches
  <2>3. ASSUME NEW v \in Terminal, LVDispose(v) PROVE TypeOK'
    BY <2>3 DEF LVDispose
  <2> QED
    BY <1>1, <2>1, <2>2, <2>3 DEF LabVIEW
<1>2. ASSUME NEW s \in Str, NEW h \in Handle, NEW d \in Text, FromData(s, h, d) PROVE TypeOK'
  BY <1>2 DEF FromData
<1>3. ASSUME NEW s \in Str, NEW d \in Text, SetText(s, d) PROVE TypeOK'
  BY <1>3 DEF SetText, DSSetHandleSize
<1>4. ASSUME NEW p \in Holder, NEW i \in Index, NEW d \in Text, SetElem(p, i, d) PROVE TypeOK'
  BY <1>4 DEF SetElem, DSSetHandleSize
<1>5. ASSUME NEW x \in Arr \cup Str, Drop(x) PROVE TypeOK'
  <2>1. \A i \in Index : x \in Arr => Elem(x, i) \in Handle \cup {Null}
    BY ElemTyped
  <2> QED
    BY <1>5, <2>1 DEF Drop
<1>6. ASSUME NEW p \in Holder, NEW i \in Index, NEW s \in Str,
             Assign(p, i, s) \/ Swap(p, i, s) \/ Get(p, i, s) \/ Set(p, i, s)
      PROVE  TypeOK'
  <2>1. Elem(p, i) \in Handle \cup {Null} /\ handle[s] \in Handle \cup {Null}
    BY ElemTyped
  <2>2. ASSUME NEW old, Reaches(p)
        PROVE  Placed(p, i, handle[s], old) \in [Handle -> Data \cup {Uninit}]
    <3>1. [data[handle[p]] EXCEPT ![i] = handle[s]] \in Elements
      BY <2>1, <2>2 DEF Reaches, Elements
    <3> QED
      BY <3>1 DEF Placed
  <2>3. ASSUME Assign(p, i, s) PROVE TypeOK'
    BY <2>2, <2>3 DEF Assign
  <2>4. ASSUME Swap(p, i, s) PROVE TypeOK'
    BY <2>1, <2>2, <2>4 DEF Swap
  <2>5. ASSUME Get(p, i, s) PROVE TypeOK'
    BY <2>1, <2>5 DEF Get
  <2>6. ASSUME Set(p, i, s) PROVE TypeOK'
    BY <2>2, <2>6 DEF Set
  <2> QED
    BY <1>6, <2>3, <2>4, <2>5, <2>6
<1>7. ASSUME NEW p \in Holder, NEW a \in Arr, NEW h \in Handle, Clone(p, a, h) PROVE TypeOK'
  BY <1>7 DEF Clone, Reaches
<1> QED
  BY <1>1, <1>2, <1>3, <1>4, <1>5, <1>6, <1>7 DEF Next, Rust

-----------------------------------------------------------------------------
LEMMA LVCreateStep ==
  ASSUME TypeOK, NEW P \in SUBSET Holder, Good(P),
         NEW v \in Terminal, NEW h \in Handle, LVCreate(v, h)
  PROVE  Good(P)' /\ (Kept => Kept')
<1> USE NestedAssumption, MemoryAssumption
    DEF TypeOK, Good, ArraysHeld, Intact, Place, Holder, LVCreate, Allocate, history
<1>1. Reaches(v)' /\ \A j \in Index : Elem(v, j)' = Null /\ Elem(v, j) = Null
  BY DEF Elem, Reaches, Elements
<1>2. \A q \in Holder \ {v} : Reaches(q)' = Reaches(q)
  BY DEF Reaches
<1>3. \A q \in Holder, j \in Index : Elem(q, j)' = Elem(q, j)
  BY <1>1, <1>2 DEF Elem, Reaches
<1>4. ArraysHeld'
  BY <1>1, <1>2 DEF Reaches
<1>5. Apart(P)'
  BY <1>3 DEF Apart
<1>6. Intact(P)'
  BY <1>3
<1>7. Kept => Kept'
  BY <1>3 DEF Kept
<1> QED
  BY <1>4, <1>5, <1>6, <1>7

LEMMA LVSetStep ==
  ASSUME TypeOK, NEW P \in SUBSET Holder, Good(P),
         NEW v \in Terminal, NEW i \in Index, NEW h \in Handle, NEW d \in Text,
         LVSet(v, i, h, d)
  PROVE  Good(P)' /\ (P = Holder /\ Kept => Kept')
<1> USE NestedAssumption, MemoryAssumption
    DEF TypeOK, Good, ArraysHeld, Intact, Place, Holder, LVSet, history
<1>1. /\ data'[h] = d
      /\ data'[handle[v]] = [data[handle[v]] EXCEPT ![i] = h]
      /\ \A g \in Handle \ {h, handle[v]} : data'[g] = data[g]
      /\ handle' = handle /\ live' = live \cup {h} /\ h \notin live /\ h # Null
  BY DEF Reaches
<1>2. \A q \in Holder : Reaches(q)' = Reaches(q)
  BY <1>1 DEF Elements, Reaches
<1>3. \A q \in Holder, j \in Index :
        Elem(q, j)' = IF q = v /\ j = i THEN h ELSE Elem(q, j)
  BY <1>1, <1>2 DEF Elem, Elements, Reaches
<1>4. ArraysHeld'
  BY <1>1, <1>2
<1>5. Apart(P)'
  <2>1. /\ \A s \in Str : handle[s] # h
        /\ \A q \in P, j \in Index : Elem(q, j) # h
    BY <1>1
  <2> QED
    BY <1>1, <1>3, <2>1 DEF Apart
<1>6. Intact(P)'
  <2>1. \A g \in live : data[g] \in Text => data'[g] \in Text
    BY <1>1 DEF Reaches
  <2>2. \A q \in P, j \in Index :
          Elem(q, j)' # Null => Elem(q, j)' \in live' /\ data'[Elem(q, j)'] \in Text
    BY <1>1, <1>3, <2>1
  <2>3. \A s \in Str : handle'[s] # Null => handle'[s] \in live' /\ data'[handle'[s]] \in Text
    BY <1>1, <2>1
  <2> QED
    BY <2>2, <2>3
<1>7. Kept => Kept'
  BY <1>1, <1>3 DEF Kept
<1> QED
  BY <1>4, <1>5, <1>6, <1>7

(* LabVIEW frees an array and its strings: nobody relied upon reaches them. *)
LEMMA LVDisposeStep ==
  ASSUME TypeOK, NEW P \in SUBSET Holder, Good(P), Terminal \subseteq P,
         NEW v \in Terminal, LVDispose(v)
  PROVE  Good(P)' /\ (Kept => Kept')
<1> USE NestedAssumption, MemoryAssumption
    DEF TypeOK, Good, ArraysHeld, Intact, Place, Holder, LVDispose, history
<1> DEFINE gone == {handle[v]} \cup {Elem(v, i) : i \in Index}
<1>1. /\ live' = live \ gone
      /\ \A h \in Handle \ gone : data'[h] = data[h]
      /\ handle' = [handle EXCEPT ![v] = Null] /\ orphaned' = orphaned
  OBVIOUS
<1>2. /\ \A q \in Holder \ {v} : handle[q] # Null => handle[q] \notin gone
      /\ \A s \in Str : handle[s] # Null => handle[s] \notin gone
      /\ \A q \in P \ {v}, j \in Index : Elem(q, j) # Null => Elem(q, j) \notin gone
  <2>1. /\ \A q \in Holder \ {v} : handle[q] # Null => handle[q] # handle[v]
        /\ \A s \in Str : handle[s] # handle[v]
        /\ \A q \in P, j \in Index : Elem(q, j) # handle[v]
    BY KindsDiffer
  <2>2. ASSUME NEW i \in Index
        PROVE  /\ \A q \in Holder \ {v} : handle[q] # Null => handle[q] # Elem(v, i)
               /\ \A s \in Str : handle[s] # Null => handle[s] # Elem(v, i)
               /\ \A q \in P \ {v}, j \in Index : Elem(q, j) # Null => Elem(q, j) # Elem(v, i)
    <3>1. v \in P
      OBVIOUS
    <3>2. \A q \in Holder \ {v} : handle[q] # Null => handle[q] # Elem(v, i)
      BY <3>1, KindsDiffer
    <3>3. CASE Elem(v, i) = Null
      BY <3>3
    <3>4. CASE Elem(v, i) # Null
      <4>1. /\ \A s \in Str : handle[s] # Elem(v, i)
            /\ \A q \in P, j \in Index : Elem(q, j) = Elem(v, i) => q = v
        BY <3>1, <3>4, SoleOwner
      <4> QED
        BY <3>2, <4>1
    <3> QED
      BY <3>3, <3>4
  <2> QED
    BY <2>1, <2>2
<1>3. gone = {handle[v]} \cup {Elem(v, i) : i \in Index}
  OBVIOUS
<1> HIDE DEF gone
<1>4. /\ \A q \in Holder \ {v} : Reaches(q)' = Reaches(q)
      /\ ~Reaches(v)'
  BY <1>1, <1>2, Typed DEF Next, LabVIEW, Reaches
<1>5. /\ \A q \in P, j \in Index : Elem(q, j)' = IF q = v THEN Null ELSE Elem(q, j)
      /\ \A q \in Holder \ {v}, j \in Index : Elem(q, j)' = Elem(q, j)
  BY <1>1, <1>2, <1>4 DEF Elem, Reaches
<1>6. ArraysHeld'
  BY <1>1, <1>4
<1>7. Apart(P)'
  BY <1>1, <1>5 DEF Apart
<1>8. Intact(P)'
  BY <1>1, <1>2, <1>5, ElemTyped
<1>9. Kept => Kept'
  BY <1>1, <1>3, <1>5 DEF Kept
<1> QED
  BY <1>6, <1>7, <1>8, <1>9

LEMMA FromDataStep ==
  ASSUME TypeOK, NEW P \in SUBSET Holder, Good(P),
         NEW s \in Str, NEW h \in Handle, NEW d \in Text, FromData(s, h, d)
  PROVE  Good(P)' /\ (Kept => Kept')
<1> USE NestedAssumption, MemoryAssumption
    DEF TypeOK, Good, ArraysHeld, Intact, Place, Holder, FromData, Allocate, history
<1>1. \A q \in Holder : Reaches(q)' = Reaches(q)
  BY DEF Reaches
<1>2. \A q \in Holder, j \in Index : Elem(q, j)' = Elem(q, j)
  BY <1>1 DEF Elem, Reaches
<1>3. ArraysHeld'
  BY <1>1
<1>4. Apart(P)'
  BY <1>2 DEF Apart
<1>5. Intact(P)'
  BY <1>2
<1>6. Kept => Kept'
  BY <1>2 DEF Kept
<1> QED
  BY <1>3, <1>4, <1>5, <1>6

(* set_str writes into the block of a string. *)
LEMMA WriteStep ==
  ASSUME TypeOK, NEW P \in SUBSET Holder, Good(P), NEW h, NEW d \in Text,
         DSSetHandleSize(h, d), handle' = handle, orphaned' = orphaned,
         \A p \in Holder : handle[p] # Null => handle[p] # h
  PROVE  Good(P)' /\ (Kept => Kept')
<1> USE NestedAssumption, MemoryAssumption
    DEF TypeOK, Good, ArraysHeld, Intact, Place, Holder, DSSetHandleSize
<1>1. \A q \in Holder : Reaches(q)' = Reaches(q)
  BY DEF Reaches
<1>2. \A q \in Holder, j \in Index : Elem(q, j)' = Elem(q, j)
  BY <1>1 DEF Elem, Reaches
<1>3. ArraysHeld'
  BY <1>1
<1>4. Apart(P)'
  BY <1>2 DEF Apart
<1>5. Intact(P)'
  BY <1>2
<1>6. Kept => Kept'
  BY <1>2 DEF Kept
<1> QED
  BY <1>3, <1>4, <1>5, <1>6

(* The drop of a string: nobody relied upon owns it as well. *)
LEMMA DropStrStep ==
  ASSUME TypeOK, NEW P \in SUBSET Holder, Good(P), NEW x \in Str, Drop(x)
  PROVE  Good(P)' /\ (Kept => Kept')
<1> USE NestedAssumption, MemoryAssumption
    DEF TypeOK, Good, ArraysHeld, Intact, Place, Holder, Drop
<1> DEFINE h == handle[x]
<1>1. /\ h # Null /\ h \in live /\ orphaned' = orphaned
      /\ live' = live \ {h} /\ handle' = [handle EXCEPT ![x] = Null]
      /\ \A g \in Handle \ {h} : data'[g] = data[g]
  OBVIOUS
<1>2. \A q \in Holder : Reaches(q)' = Reaches(q) /\ (handle[q] # Null => handle[q] # h)
  BY KindsDiffer DEF Reaches
<1>3. \A q \in Holder, j \in Index : Elem(q, j)' = Elem(q, j)
  BY <1>1, <1>2 DEF Elem, Reaches
<1>4. /\ \A s \in Str \ {x} : handle[s] # h
      /\ \A q \in P, j \in Index : Elem(q, j) # h
  BY <1>1, SoleOwner
<1>5. ArraysHeld'
  BY <1>1, <1>2
<1>6. Apart(P)'
  BY <1>1, <1>3 DEF Apart
<1>7. Intact(P)'
  BY <1>1, <1>3, <1>4, ElemTyped
<1>8. Kept => Kept'
  BY <1>1, <1>3 DEF Kept
<1> QED
  BY <1>5, <1>6, <1>7, <1>8

(* The drop of an array frees its block and leaves its strings behind. *)
LEMMA DropArrStep ==
  ASSUME TypeOK, NEW P \in SUBSET Holder, Good(P), NEW x \in Arr, Drop(x)
  PROVE  Good(P)' /\ (Kept => Kept')
<1> USE NestedAssumption, MemoryAssumption
    DEF TypeOK, Good, ArraysHeld, Intact, Place, Holder, Drop
<1> DEFINE h == handle[x]
<1>1. /\ h # Null /\ h \in live /\ x \notin Str
      /\ live' = live \ {h} /\ handle' = [handle EXCEPT ![x] = Null]
      /\ \A g \in Handle \ {h} : data'[g] = data[g]
  BY DEF Reaches
<1>2. /\ \A q \in Holder \ {x} : handle[q] # Null => handle[q] # h
      /\ \A s \in Str : handle[s] # h
      /\ \A q \in P, j \in Index : Elem(q, j) # h
  BY <1>1, KindsDiffer
<1>3. ~Reaches(x)' /\ \A q \in Holder \ {x} : Reaches(q)' = Reaches(q)
  BY <1>1, <1>2 DEF Reaches
<1>4. \A q \in Holder, j \in Index : Elem(q, j)' = IF q = x THEN Null ELSE Elem(q, j)
  BY <1>1, <1>2, <1>3 DEF Elem, Reaches
<1>5. ArraysHeld'
  BY <1>1, <1>3
<1>6. Apart(P)'
  BY <1>1, <1>4 DEF Apart
<1>7. Intact(P)'
  BY <1>1, <1>2, <1>4, ElemTyped
<1>8. Kept => Kept'
  <2>1. orphaned' = orphaned \cup ({Elem(x, i) : i \in Index} \ {Null})
    BY <1>1
  <2>2. ASSUME Kept, NEW g \in live', NEW p \in Holder, NEW i \in Index, Elem(p, i) = g
        PROVE  g \in orphaned' \/ \E q \in Holder, j \in Index : Elem(q, j)' = g
    BY <1>1, <1>4, <2>1, <2>2
  <2> QED
    BY <1>1, <2>1, <2>2 DEF Kept
<1> QED
  BY <1>5, <1>6, <1>7, <1>8

(* A string moves into an element; the one it replaces has no other owner. *)
LEMMA AssignStep ==
  ASSUME TypeOK, NEW P \in SUBSET Holder, Good(P),
         NEW p \in P, NEW i \in Index, NEW s \in Str, Assign(p, i, s)
  PROVE  Good(P)' /\ (Kept => Kept')
<1> USE NestedAssumption, MemoryAssumption
    DEF TypeOK, Good, ArraysHeld, Intact, Place, Holder, Assign, Placed
<1> DEFINE old == Elem(p, i)
           new == handle[s]
<1>1. /\ handle[p] \in live /\ handle[p] \in Handle /\ data[handle[p]] \in Elements
      /\ handle[p] # new /\ handle[p] # old
      /\ old \in Handle \cup {Null} /\ new \in Handle \cup {Null}
      /\ new # Null => new \in live /\ data[new] \in Text
  BY KindsDiffer, ElemTyped DEF Reaches
<1>2. old # Null => /\ \A t \in Str : handle[t] # old
                    /\ \A q \in P, j \in Index : Elem(q, j) = old => q = p /\ j = i
                    /\ \A q \in Holder : handle[q] # Null => handle[q] # old
  BY KindsDiffer, SoleOwner
<1>3. /\ live' = live \ {old} /\ orphaned' = orphaned
      /\ data'[handle[p]] = [data[handle[p]] EXCEPT ![i] = new]
      /\ \A g \in Handle \ {handle[p], old} : data'[g] = data[g]
      /\ handle' = [handle EXCEPT ![s] = Null]
  BY <1>1
<1>4. \A q \in Holder : Reaches(q)' = Reaches(q)
  BY <1>1, <1>2, <1>3 DEF Reaches, Elements
<1>5. \A q \in Holder, j \in Index :
        Elem(q, j)' = IF q = p /\ j = i THEN new ELSE Elem(q, j)
  BY <1>1, <1>2, <1>3, <1>4 DEF Elem, Reaches, Elements
<1> HIDE DEF old, new
<1>6. ArraysHeld'
  BY <1>3, <1>4
<1>7. Apart(P)'
  <2>1. new = handle[s] /\ handle'[s] = Null /\ \A t \in Str \ {s} : handle'[t] = handle[t]
    BY <1>3 DEF new
  <2>2. new # Null => /\ \A t \in Str \ {s} : handle[t] # new
                      /\ \A q \in P, j \in Index : Elem(q, j) # new
    BY <2>1, SoleOwner
  <2> QED
    BY <1>5, <2>1, <2>2 DEF Apart
<1>8. Intact(P)'
  <2>1. new # Null => new # old
    BY <1>2 DEF new
  <2>2. new # Null => new \in live' /\ data'[new] \in Text
    BY <1>1, <1>3, <2>1
  <2>3. \A t \in Str : handle'[t] # Null => handle'[t] \in live' /\ data'[handle'[t]] \in Text
    <3>1. ASSUME NEW t \in Str, handle'[t] # Null
          PROVE  handle'[t] = handle[t] /\ handle[t] # handle[p] /\ handle[t] # old
      BY <1>1, <1>2, <1>3, <3>1, KindsDiffer
    <3> QED
      BY <1>3, <3>1
  <2>4. \A q \in P, j \in Index : Elem(q, j)' # Null =>
          Elem(q, j)' \in live' /\ data'[Elem(q, j)'] \in Text
    <3>1. ASSUME NEW q \in P, NEW j \in Index, Elem(q, j) # Null, ~(q = p /\ j = i)
          PROVE  /\ Elem(q, j) # handle[p] /\ Elem(q, j) # old
                 /\ Elem(q, j) \in live /\ data[Elem(q, j)] \in Text
      BY <1>1, <1>2, <3>1, KindsDiffer
    <3> QED
      BY <1>3, <1>5, <2>2, <3>1
  <2> QED
    BY <2>3, <2>4
<1>9. Kept => Kept'
  BY <1>3, <1>5 DEF Kept, old, new
<1> QED
  BY <1>6, <1>7, <1>8, <1>9

(* Two owners exchange what they own. *)
LEMMA SwapStep ==
  ASSUME TypeOK, NEW P \in SUBSET Holder, Good(P),
         NEW p \in P, NEW i \in Index, NEW s \in Str, Swap(p, i, s)
  PROVE  Good(P)' /\ (Kept => Kept')
<1> USE NestedAssumption, MemoryAssumption
    DEF TypeOK, Good, ArraysHeld, Intact, Place, Holder, Swap, Placed
<1> DEFINE old == Elem(p, i)
           new == handle[s]
<1>1. /\ handle[p] \in live /\ handle[p] \in Handle /\ data[handle[p]] \in Elements
      /\ handle[p] # new /\ handle[p] # old
      /\ old \in Handle \cup {Null} /\ new \in Handle \cup {Null}
  BY KindsDiffer, ElemTyped DEF Reaches
<1>2. /\ live' = live /\ orphaned' = orphaned
      /\ data'[handle[p]] = [data[handle[p]] EXCEPT ![i] = new]
      /\ \A g \in Handle \ {handle[p]} : data'[g] = data[g]
      /\ handle' = [handle EXCEPT ![s] = old]
  BY <1>1
<1>3. \A q \in Holder : Reaches(q)' = Reaches(q)
  BY <1>1, <1>2 DEF Reaches, Elements
<1>4. \A q \in Holder, j \in Index :
        Elem(q, j)' = IF q = p /\ j = i THEN new ELSE Elem(q, j)
  <2>1. \A j \in Index : Elem(p, j)' = IF j = i THEN new ELSE Elem(p, j)
    BY <1>1, <1>2, <1>3 DEF Elem, Reaches, Elements
  <2>2. ASSUME NEW q \in Holder \ {p} PROVE \A j \in Index : Elem(q, j)' = Elem(q, j)
    BY <1>1, <1>2, <1>3 DEF Elem, Reaches
  <2> QED
    BY <2>1, <2>2
<1>5. ArraysHeld'
  BY <1>2, <1>3
<1>6. Apart(P)'
  BY <1>2, <1>4 DEF Apart
<1>7. Intact(P)'
  <2>1. \A g \in Handle : g \in live /\ data[g] \in Text => g \in live' /\ data'[g] \in Text
    BY <1>1, <1>2
  <2>2. \A t \in Str : handle'[t] # Null => handle'[t] \in live' /\ data'[handle'[t]] \in Text
    BY <1>1, <1>2, <2>1
  <2>3. \A q \in P, j \in Index : Elem(q, j)' # Null =>
          Elem(q, j)' \in live' /\ data'[Elem(q, j)'] \in Text
    BY <1>1, <1>4, <2>1, ElemTyped
  <2> QED
    BY <2>2, <2>3
<1>8. Kept => Kept'
  <2>1. \A q \in Holder, j \in Index : Elem(q, j) = Elem(q, j)' \/ Elem(q, j) = handle'[s]
    BY <1>2, <1>4
  <2>2. \A q \in Place : handle[q] = handle'[q] \/ handle[q] = Elem(p, i)'
    BY <1>2, <1>4
  <2> QED
    BY <1>2, <2>1, <2>2 DEF Kept
<1> QED
  BY <1>5, <1>6, <1>7, <1>8

(* A clone gets a block of its own; its elements are nobody's business unless *)
(* they are empty.                                                            *)
LEMMA CloneStep ==
  ASSUME TypeOK, NEW P \in SUBSET Holder, Good(P),
         NEW p \in Holder, NEW a \in Arr, NEW h \in Handle, Clone(p, a, h),
         a \notin P \/ \A i \in Index : Elem(p, i) = Null
  PROVE  Good(P)' /\ (Kept => Kept')
<1> USE NestedAssumption, MemoryAssumption
    DEF TypeOK, Good, ArraysHeld, Intact, Place, Holder, Clone, Allocate
<1>1. /\ p # a /\ handle[p] \in live /\ data[handle[p]] \in Elements
      /\ \A q \in Place : handle[q] # Null => handle[q] # h
      /\ handle' = [handle EXCEPT ![a] = h] /\ orphaned' = orphaned
      /\ live' = live \cup {h} /\ h \notin live /\ h # Null
      /\ data'[h] = data[handle[p]]
      /\ \A g \in live : data'[g] = data[g]
  BY DEF Reaches
<1>2. Reaches(a)' /\ ~Reaches(a) /\ \A q \in Holder \ {a} : Reaches(q)' = Reaches(q)
  BY <1>1 DEF Reaches
<1>3. \A q \in Holder, j \in Index : Elem(q, j)' = IF q = a THEN Elem(p, j) ELSE Elem(q, j)
  BY <1>1, <1>2 DEF Elem, Reaches
<1>4. \A q \in P, j \in Index : Elem(q, j)' = Elem(q, j)
  BY <1>2, <1>3 DEF Elem
<1>5. ArraysHeld'
  BY <1>1, <1>2
<1>6. Apart(P)'
  BY <1>1, <1>4 DEF Apart
<1>7. Intact(P)'
  BY <1>1, <1>4
<1>8. Kept => Kept'
  BY <1>1, <1>2, <1>3 DEF Kept, Elem
<1> QED
  BY <1>5, <1>6, <1>7, <1>8

(* Nothing is copied when the element is the empty string. *)
LEMMA GetStep ==
  ASSUME TypeOK, NEW P \in SUBSET Holder, Good(P),
         NEW p \in Holder, NEW i \in Index, NEW s \in Str, Get(p, i, s), Elem(p, i) = Null
  PROVE  Good(P)' /\ (Kept => Kept')
<1>1. UNCHANGED <<live, data, handle, orphaned>>
  BY DEF Get, TypeOK, Place
<1>2. \A q \in Holder, j \in Index : Elem(q, j)' = Elem(q, j) /\ Reaches(q)' = Reaches(q)
  BY <1>1 DEF Elem, Reaches
<1>3. ArraysHeld'
  BY <1>1, <1>2 DEF Good, ArraysHeld
<1>4. Apart(P)'
  BY <1>1, <1>2 DEF Good, Apart
<1>5. Intact(P)'
  BY <1>1, <1>2 DEF Good, Intact
<1>6. Kept => Kept'
  BY <1>1, <1>2 DEF Kept
<1> QED
  BY <1>3, <1>4, <1>5, <1>6 DEF Good

LEMMA SetStep ==
  ASSUME TypeOK, NEW P \in SUBSET Holder, Good(P),
         NEW p \in Holder, NEW i \in Index, NEW s \in Str, Set(p, i, s), Elem(p, i) = Null
  PROVE  Good(P)' /\ (Kept => Kept')
<1> USE NestedAssumption, MemoryAssumption
    DEF TypeOK, Good, ArraysHeld, Intact, Place, Holder, Set, Placed
<1> DEFINE new == handle[s]
<1>1. /\ handle[p] \in live /\ handle[p] \in Handle /\ data[handle[p]] \in Elements
      /\ handle[p] # new /\ new \in Handle \cup {Null}
      /\ new # Null => new \in live /\ data[new] \in Text
  BY KindsDiffer DEF Reaches
<1>2. /\ live' = live /\ orphaned' = orphaned
      /\ data'[handle[p]] = [data[handle[p]] EXCEPT ![i] = new]
      /\ \A g \in Handle \ {handle[p]} : data'[g] = data[g]
      /\ handle' = [handle EXCEPT ![s] = Null]
  BY <1>1
<1>3. \A q \in Holder : Reaches(q)' = Reaches(q)
  BY <1>1, <1>2 DEF Reaches, Elements
<1>4. \A q \in Holder, j \in Index :
        Elem(q, j)' = IF q = p /\ j = i THEN new ELSE Elem(q, j)
  <2>1. \A j \in Index : Elem(p, j)' = IF j = i THEN new ELSE Elem(p, j)
    BY <1>1, <1>2, <1>3 DEF Elem, Reaches, Elements
  <2>2. ASSUME NEW q \in Holder \ {p} PROVE \A j \in Index : Elem(q, j)' = Elem(q, j)
    BY <1>1, <1>2, <1>3 DEF Elem, Reaches
  <2> QED
    BY <2>1, <2>2
<1>5. ArraysHeld'
  BY <1>2, <1>3
<1>6. Apart(P)'
  BY <1>2, <1>4 DEF Apart
<1>7. Intact(P)'
  <2>1. \A g \in Handle : g \in live /\ data[g] \in Text => g \in live' /\ data'[g] \in Text
    BY <1>1, <1>2
  <2>2. \A t \in Str : handle'[t] # Null => handle'[t] \in live' /\ data'[handle'[t]] \in Text
    BY <1>1, <1>2, <2>1
  <2>3. \A q \in P, j \in Index : Elem(q, j)' # Null =>
          Elem(q, j)' \in live' /\ data'[Elem(q, j)'] \in Text
    BY <1>1, <1>4, <2>1, ElemTyped
  <2> QED
    BY <2>2, <2>3
<1>8. Kept => Kept'
  BY <1>2, <1>4 DEF Kept
<1> QED
  BY <1>5, <1>6, <1>7, <1>8

-----------------------------------------------------------------------------
LEMMA InitHolds == Init => IInv
<1> SUFFICES ASSUME Init PROVE IInv
  OBVIOUS
<1> USE NestedAssumption, MemoryAssumption DEF Init
<1>1. TypeOK
  BY DEF TypeOK
<1>2. \A p \in Place : handle[p] = Null
  OBVIOUS
<1>3. \A p \in Holder, i \in Index : Elem(p, i) = Null
  BY <1>2 DEF Elem, Reaches, Place
<1>4. ASSUME NEW P \in SUBSET Holder PROVE Good(P)
  BY <1>2, <1>3 DEF Good, ArraysHeld, Apart, Intact, Place
<1>5. Kept
  BY DEF Kept
<1> QED
  BY <1>1, <1>4, <1>5 DEF IInv, Holder

(* What a step records tells whose strings it may have copied. *)
LEMMA Recorded ==
  ASSUME TypeOK, Next
  PROVE  /\ raw \subseteq raw'
         /\ \A p \in Holder, i \in Index, s \in Str :
              (Get(p, i, s) \/ Set(p, i, s)) /\ raw' \subseteq {"clone"} => Elem(p, i) = Null
         /\ \A p \in Holder, i \in Index, d \in Text :
              SetElem(p, i, d) /\ raw' \subseteq {"clone"} => raw' = {} \/ p \in Terminal
         /\ \A p \in Holder, i \in Index, s \in Str :
              (Assign(p, i, s) \/ Swap(p, i, s)) /\ raw' \subseteq {"clone"}
                => raw' = {} \/ p \in Terminal
         /\ \A p \in Holder, a \in Arr, h \in Handle :
              Clone(p, a, h) /\ raw' = {} => \A i \in Index : Elem(p, i) = Null
<1> USE DEF Record, Through, history
<1>1. raw \subseteq raw'
  BY DEF Next, LabVIEW, Rust, LVCreate, LVSet, LVDispose, FromData, SetText, SetElem,
         Drop, Assign, Swap, Clone, Get, Set
<1>2. ASSUME NEW p \in Holder, NEW i \in Index, NEW s \in Str, Get(p, i, s) \/ Set(p, i, s),
             raw' \subseteq {"clone"}
      PROVE  Elem(p, i) = Null
  BY <1>2 DEF Get, Set
<1>3. ASSUME NEW p \in Holder, Record("through", Through(p)), raw' \subseteq {"clone"}
      PROVE  raw' = {} \/ p \in Terminal
  BY <1>3 DEF Holder
<1>5. ASSUME NEW p \in Holder, NEW i \in Index, NEW d \in Text, SetElem(p, i, d),
             raw' \subseteq {"clone"}
      PROVE  raw' = {} \/ p \in Terminal
  BY <1>3, <1>5 DEF SetElem
<1>6. ASSUME NEW p \in Holder, NEW i \in Index, NEW s \in Str,
             Assign(p, i, s) \/ Swap(p, i, s), raw' \subseteq {"clone"}
      PROVE  raw' = {} \/ p \in Terminal
  BY <1>3, <1>6 DEF Assign, Swap
<1>4. ASSUME NEW p \in Holder, NEW a \in Arr, NEW h \in Handle, Clone(p, a, h), raw' = {}
      PROVE  \A i \in Index : Elem(p, i) = Null
  BY <1>4 DEF Clone
<1> QED
  BY ONLY <1>1, <1>2, <1>4, <1>5, <1>6, Zenon

(* One lemma for each action, for all holders while nothing is recorded and *)
(* for the terminals while only clones are.                                 *)
LEMMA GoodStep ==
  ASSUME TypeOK, Next, NEW P \in SUBSET Holder, Good(P),
         (raw' = {} /\ P = Holder) \/ (raw' = {"clone"} /\ P = Terminal)
  PROVE  Good(P)' /\ (P = Holder /\ Kept => Kept')
<1> USE NestedAssumption
<1>1. Terminal \subseteq P /\ Terminal \subseteq Holder /\ raw' \subseteq {"clone"}
  BY DEF Holder
<1>2. CASE LabVIEW
  BY <1>1, <1>2, LVCreateStep, LVSetStep, LVDisposeStep DEF LabVIEW
<1>3. ASSUME NEW s \in Str, NEW d \in Text, SetText(s, d)
      PROVE  Good(P)' /\ (P = Holder /\ Kept => Kept')
  <2>1. \A p \in Holder : handle[p] # Null => handle[p] # handle[s]
    BY KindsDiffer
  <2> QED
    BY <1>3, <2>1, WriteStep DEF SetText, history
<1>4. ASSUME NEW p \in Holder, NEW i \in Index, NEW d \in Text, SetElem(p, i, d)
      PROVE  Good(P)' /\ (P = Holder /\ Kept => Kept')
  <2>0. raw' = {} \/ p \in Terminal
    BY <1>1, <1>4, Recorded
  <2>1. p \in P
    BY <2>0
  <2>2. \A q \in Holder : handle[q] # Null => handle[q] # Elem(p, i)
    BY <2>1, KindsDiffer
  <2> QED
    BY <1>4, <2>2, WriteStep DEF SetElem
<1>5. ASSUME NEW x \in Arr \cup Str, Drop(x)
      PROVE  Good(P)' /\ (P = Holder /\ Kept => Kept')
  BY <1>5, DropStrStep, DropArrStep
<1>6. ASSUME NEW p \in Holder, NEW i \in Index, NEW s \in Str, Assign(p, i, s) \/ Swap(p, i, s)
      PROVE  Good(P)' /\ (P = Holder /\ Kept => Kept')
  <2>0. raw' = {} \/ p \in Terminal
    BY <1>1, <1>6, Recorded
  <2>1. p \in P
    BY <2>0
  <2> QED
    BY <1>6, <2>1, AssignStep, SwapStep
<1>7. ASSUME NEW p \in Holder, NEW a \in Arr, NEW h \in Handle, Clone(p, a, h)
      PROVE  Good(P)' /\ (P = Holder /\ Kept => Kept')
  <2>1. a \notin P \/ \A i \in Index : Elem(p, i) = Null
    BY <1>7, Recorded
  <2> QED
    BY <1>7, <2>1, CloneStep
<1>8. ASSUME NEW p \in Holder, NEW i \in Index, NEW s \in Str, Get(p, i, s) \/ Set(p, i, s)
      PROVE  Good(P)' /\ (P = Holder /\ Kept => Kept')
  <2>1. Elem(p, i) = Null
    BY <1>1, <1>8, Recorded
  <2> QED
    BY <1>8, <2>1, GetStep, SetStep
<1> QED
  BY <1>2, <1>3, <1>4, <1>5, <1>6, <1>7, <1>8, FromDataStep DEF Next, Rust

LEMMA StepHolds == IInv /\ [Next]_vars => IInv'
<1>1. CASE UNCHANGED vars
  BY <1>1 DEF vars, IInv, TypeOK, Good, ArraysHeld, Apart, Intact, Kept, Elem, Reaches
<1>2. ASSUME IInv, Next PROVE IInv'
  <2>1. TypeOK /\ TypeOK' /\ raw \subseteq raw'
    BY <1>2, Typed, Recorded DEF IInv
  <2>2. raw' = {} => Good(Holder)' /\ Kept'
    <3>1. ASSUME raw' = {} PROVE Good(Holder) /\ Kept
      BY <1>2, <2>1, <3>1 DEF IInv
    <3> QED
      BY <1>2, <2>1, <3>1, GoodStep
  <2>3. raw' \subseteq {"clone"} => Good(Terminal)'
    <3>1. CASE raw' = {}
      BY <2>2, <3>1 DEF Good, ArraysHeld, Apart, Intact, Holder
    <3>2. CASE raw' = {"clone"}
      <4>1. Good(Terminal)
        BY <1>2, <2>1, <3>2 DEF IInv
      <4> QED
        BY <1>2, <2>1, <3>2, <4>1, GoodStep DEF Holder
    <3> QED
      BY <3>1, <3>2
  <2> QED
    BY <2>1, <2>2, <2>3 DEF IInv
<1> QED
  BY <1>1, <1>2

(* What holders, elements and blocks agree on, in every reachable state. *)
THEOREM NestedInvariant == Spec => []IInv
BY InitHolds, StepHolds, PTL DEF Spec

(* Until a string is copied as plain bytes it has one owner, however strings *)
(* move in, out and between arrays.                                          *)
THEOREM NestedOwnedOnce == Spec => []OwnedOnce
<1>1. IInv => OwnedOnce
  BY DEF IInv, Good, OwnedOnce
<1> QED
  BY <1>1, NestedInvariant, PTL

(* Until then nobody holds a pointer to a block that somebody has freed. *)
THEOREM NestedOwnersUsable == Spec => []OwnersUsable
<1>1. IInv => OwnersUsable
  BY DEF IInv, Good, OwnersUsable
<1> QED
  BY <1>1, NestedInvariant, PTL

(* Until then the strings of dropped arrays are the only blocks lost. *)
THEOREM NestedLostOnlyWithArray == Spec => []LostOnlyWithArray
<1>1. IInv => LostOnlyWithArray
  BY DEF IInv, Kept, LostOnlyWithArray
<1> QED
  BY <1>1, NestedInvariant, PTL

(* Clones that are read, cloned and dropped leave every other owner its own. *)
THEOREM NestedSourceSurvivesClone == Spec => []SourceSurvivesClone
<1>1. IInv => SourceSurvivesClone
  BY DEF IInv, Good, SourceSurvivesClone
<1> QED
  BY <1>1, NestedInvariant, PTL
=============================================================================
