-------------------------- MODULE OwnedHandleProofs --------------------------
(***************************************************************************)
(* Proofs about OwnedHandle for every set of threads, places, handles and  *)
(* values.                                                                 *)
(*                                                                         *)
(* Neither Exclusive nor OwnedUsable is inductive: both rest on what the   *)
(* calls in progress have borrowed and on what they have already checked.  *)
(* IInv adds the shape of a frame, the borrow discipline between frames,   *)
(* and the state a frame has prepared.                                     *)
(*                                                                         *)
(* The refinement of ValueSemantics comes last.  IInv says which clones    *)
(* are running and that blocks are not shared; with it, each action is one *)
(* abstract action or none.                                                *)
(***************************************************************************)
EXTENDS OwnedHandleRefinement, TLAPS

(* What a frame says of itself, whatever the heap holds. *)
FrameShape ==
  \A t \in Thread :
    /\ call[t].pc = "idle" => call[t] = Idle
    /\ call[t].pc # "idle" => call[t].dst \in Place
    /\ call[t].pc = "set" =>
         call[t].src = Null /\ call[t].new \in Handle /\ call[t].arg \in Data
    /\ call[t].pc \in {"valid", "copy"} =>
         call[t].src \in Place /\ call[t].src # call[t].dst
    /\ call[t].new # Null => call[t].dst \in Slot

(* The borrow rules seen from the frames: a destination is nobody else's. *)
Borrows ==
  \A t, u \in Thread :
    t # u /\ call[t].dst # Null => call[t].dst \notin {call[u].src, call[u].dst}

(* What the steps of a call have prepared and nobody may have undone. *)
Prepared ==
  \A t \in Thread :
    /\ call[t].new # Null => call[t].new \in live /\ handle[call[t].dst] = Null
    /\ call[t].pc # "idle" /\ call[t].new = Null =>
         \/ handle[call[t].dst] \in live
         \/ call[t].dst \in Var /\ handle[call[t].dst] = Null
    /\ call[t].pc = "copy" => handle[call[t].src] \in live

(* Every manager handle a place holds is allocated and written. *)
PlacesUsable ==
  \A p \in Place :
    handle[p] \in Handle => handle[p] \in live /\ data[handle[p]] \in Data

(* Whoever owns or is about to own a block got it from a loaded API. *)
ApiLoaded ==
  (\E s \in Slot : handle[s] # Null) \/ (\E t \in Thread : call[t].pc # "idle")
     => api = "ok"

IInv ==
  /\ TypeOK
  /\ FrameShape
  /\ Borrows
  /\ Prepared
  /\ Exclusive
  /\ PlacesUsable
  /\ ApiLoaded

(* A call that returns Err at its entry disturbs nothing. *)
LEMMA CallFailsStep ==
  ASSUME IInv, NEW t \in Thread, CallFails(t)
  PROVE  IInv'
<1> USE MemoryAssumption, PlaceAssumption
    DEF IInv, TypeOK, Frame, Idle, Place, CanShare, CanMut, CallFails, MemoryApi
<1>1. TypeOK'
  OBVIOUS
<1>2. FrameShape'
  BY DEF FrameShape
<1>3. Borrows'
  BY DEF Borrows
<1>4. Prepared'
  BY DEF Prepared
<1>5. Exclusive'
  BY DEF Exclusive
<1>6. PlacesUsable'
  BY DEF PlacesUsable
<1>7. ApiLoaded'
  BY DEF ApiLoaded
<1> QED
  BY <1>1, <1>2, <1>3, <1>4, <1>5, <1>6, <1>7

(* OwnedUHandle::new hands out an address nobody holds, already written. *)
LEMMA NewStep ==
  ASSUME IInv, NEW t \in Thread, NEW s \in Slot, NEW h \in Handle, NEW d \in Data,
         New(t, s, h, d)
  PROVE  IInv'
<1> USE MemoryAssumption, PlaceAssumption
    DEF IInv, TypeOK, Frame, Idle, Place, CanShare, CanMut, New, Allocate, MemoryApi
<1>1. TypeOK'
  OBVIOUS
<1>2. FrameShape'
  BY DEF FrameShape
<1>3. Borrows'
  BY DEF Borrows
<1>4. Prepared'
  BY DEF Prepared
<1>5. Exclusive'
  BY DEF Prepared, Exclusive, PlacesUsable
<1>6. PlacesUsable'
  BY DEF PlacesUsable
<1>7. ApiLoaded'
  BY DEF ApiLoaded
<1> QED
  BY <1>1, <1>2, <1>3, <1>4, <1>5, <1>6, <1>7

(* The allocation of from_data: the fresh block belongs to this call alone. *)
LEMMA FromDataStep ==
  ASSUME IInv, NEW t \in Thread, NEW s \in Slot, NEW h \in Handle, NEW d \in Data,
         FromData(t, s, h, d)
  PROVE  IInv'
<1> USE MemoryAssumption, PlaceAssumption
    DEF IInv, TypeOK, Frame, Idle, Place, CanShare, CanMut, FromData, NewUnsized,
        DSNewHandle, Allocate, MemoryApi
<1>1. TypeOK'
  OBVIOUS
<1>2. FrameShape'
  BY DEF FrameShape
<1>3. Borrows'
  BY DEF Borrows
<1>4. Prepared'
  BY DEF Prepared
<1>5. Exclusive'
  BY DEF Prepared, Exclusive, PlacesUsable
<1>6. PlacesUsable'
  BY DEF PlacesUsable
<1>7. ApiLoaded'
  BY DEF ApiLoaded
<1> QED
  BY <1>1, <1>2, <1>3, <1>4, <1>5, <1>6, <1>7

(* The allocation of try_clone: the fresh block belongs to this call alone, *)
(* and the source is borrowed.                                              *)
LEMMA TryCloneStep ==
  ASSUME IInv, NEW t \in Thread, NEW p \in Place, NEW s \in Slot, NEW h \in Handle,
         TryClone(t, p, s, h)
  PROVE  IInv'
<1> USE MemoryAssumption, PlaceAssumption
    DEF IInv, TypeOK, Frame, Idle, Place, CanShare, CanMut, TryClone, NewUnsized,
        DSNewHandle, Allocate, MemoryApi
<1>1. TypeOK'
  OBVIOUS
<1>2. FrameShape'
  BY DEF FrameShape
<1>3. Borrows'
  BY DEF Borrows
<1>4. Prepared'
  BY DEF Prepared
<1>5. Exclusive'
  BY DEF Prepared, Exclusive, PlacesUsable
<1>6. PlacesUsable'
  BY DEF PlacesUsable
<1>7. ApiLoaded'
  BY DEF ApiLoaded
<1> QED
  BY <1>1, <1>2, <1>3, <1>4, <1>5, <1>6, <1>7

(* A direct clone_into_pointer starts from a destination that is null or *)
(* valid.                                                                *)
LEMMA CloneIntoPointerStep ==
  ASSUME IInv, NEW t \in Thread, NEW p \in Place, NEW q \in Place,
         CloneIntoPointer(t, p, q)
  PROVE  IInv'
<1> USE MemoryAssumption, PlaceAssumption
    DEF IInv, TypeOK, Frame, Idle, Place, CanShare, CanMut, CloneIntoPointer,
        MemoryApi
<1>1. TypeOK'
  OBVIOUS
<1>2. FrameShape'
  BY DEF FrameShape
<1>3. Borrows'
  BY DEF Borrows
<1>4. Prepared'
  BY DEF Prepared
<1>5. Exclusive'
  BY DEF Exclusive
<1>6. PlacesUsable'
  BY DEF PlacesUsable
<1>7. ApiLoaded'
  BY DEF ApiLoaded
<1> QED
  BY <1>1, <1>2, <1>3, <1>4, <1>5, <1>6, <1>7

(* The init routine binds its block written, or forgets it. *)
LEMMA InitSetStep ==
  ASSUME IInv, NEW t \in Thread, InitSet(t)
  PROVE  IInv'
<1> USE MemoryAssumption, PlaceAssumption
    DEF IInv, TypeOK, Frame, Idle, Place, CanShare, CanMut, InitSet, DSSetHandleSize,
        Return, Fail
<1>1. TypeOK'
  BY DEF FrameShape
<1>2. FrameShape'
  BY DEF FrameShape
<1>3. Borrows'
  BY DEF Borrows
<1>4. Prepared'
  BY DEF FrameShape, Borrows, Prepared
<1>5. Exclusive'
  BY DEF Exclusive
<1>6. PlacesUsable'
  BY DEF FrameShape, PlacesUsable
<1>7. ApiLoaded'
  BY DEF ApiLoaded
<1> QED
  BY <1>1, <1>2, <1>3, <1>4, <1>5, <1>6, <1>7

(* valid() makes sure of the source; the borrow then keeps it so. *)
LEMMA ValidateStep ==
  ASSUME IInv, NEW t \in Thread, Validate(t)
  PROVE  IInv'
<1> USE MemoryAssumption, PlaceAssumption
    DEF IInv, TypeOK, Frame, Idle, Place, CanShare, CanMut, Validate, Valid,
        DSCheckHandle, Fail
<1>1. TypeOK'
  OBVIOUS
<1>2. FrameShape'
  BY DEF FrameShape
<1>3. Borrows'
  BY DEF Borrows
<1>4. Prepared'
  BY DEF Prepared
<1>5. Exclusive'
  BY DEF Exclusive
<1>6. PlacesUsable'
  BY DEF PlacesUsable
<1>7. ApiLoaded'
  BY DEF ApiLoaded
<1> QED
  BY <1>1, <1>2, <1>3, <1>4, <1>5, <1>6, <1>7

(* copy_handle writes the destination this call alone may reach. *)
LEMMA CopyHandleStep ==
  ASSUME IInv, NEW t \in Thread, CopyHandle(t)
  PROVE  IInv'
<1> USE MemoryAssumption, PlaceAssumption
    DEF IInv, TypeOK, Frame, Idle, Place, CanShare, CanMut, CopyHandle, DSCopyHandle,
        Allocate, Return, Fail
<1>1. TypeOK'
  OBVIOUS
<1>2. FrameShape'
  BY DEF FrameShape
<1>3. Borrows'
  BY DEF Borrows
<1>4. Prepared'
  BY DEF FrameShape, Borrows, Prepared
<1>5. Exclusive'
  BY DEF Prepared, Exclusive, PlacesUsable
<1>6. PlacesUsable'
  BY DEF FrameShape, PlacesUsable
<1>7. ApiLoaded'
  BY DEF ApiLoaded
<1> QED
  BY <1>1, <1>2, <1>3, <1>4, <1>5, <1>6, <1>7

(* A write through &mut changes the content of one block. *)
LEMMA SetStep ==
  ASSUME IInv, NEW t \in Thread, NEW p \in Place, NEW d \in Data, Set(t, p, d)
  PROVE  IInv'
<1> USE MemoryAssumption, PlaceAssumption
    DEF IInv, TypeOK, Frame, Idle, Place, CanShare, CanMut, Set, MemoryApi,
        DSSetHandleSize
<1>1. TypeOK'
  OBVIOUS
<1>2. FrameShape'
  BY DEF FrameShape
<1>3. Borrows'
  BY DEF Borrows
<1>4. Prepared'
  BY DEF Prepared
<1>5. Exclusive'
  BY DEF Exclusive
<1>6. PlacesUsable'
  BY DEF PlacesUsable
<1>7. ApiLoaded'
  BY DEF ApiLoaded
<1> QED
  BY <1>1, <1>2, <1>3, <1>4, <1>5, <1>6, <1>7

(* Drop takes a block from a place nobody has borrowed. *)
LEMMA DropStep ==
  ASSUME IInv, NEW t \in Thread, NEW s \in Slot, Drop(t, s)
  PROVE  IInv'
<1> USE MemoryAssumption, PlaceAssumption
    DEF IInv, TypeOK, Frame, Idle, Place, CanShare, CanMut, Drop, MemoryApi,
        DSDisposeHandle
<1>1. TypeOK'
  OBVIOUS
<1>2. FrameShape'
  BY DEF FrameShape
<1>3. Borrows'
  BY DEF Borrows
<1>4. Prepared'
  BY DEF FrameShape, Prepared, Exclusive
<1>5. Exclusive'
  BY DEF Exclusive
<1>6. PlacesUsable'
  BY DEF Exclusive, PlacesUsable
<1>7. ApiLoaded'
  BY DEF ApiLoaded
<1> QED
  BY <1>1, <1>2, <1>3, <1>4, <1>5, <1>6, <1>7

(* LabVIEW creates a block no place holds. *)
LEMMA LVCreateStep ==
  ASSUME IInv, NEW v \in Var, NEW h \in Handle, NEW d \in Data, LVCreate(v, h, d)
  PROVE  IInv'
<1> USE MemoryAssumption, PlaceAssumption
    DEF IInv, TypeOK, Frame, Idle, Place, CanShare, CanMut, LVCreate, Allocate
<1>1. TypeOK'
  OBVIOUS
<1>2. FrameShape'
  BY DEF FrameShape
<1>3. Borrows'
  BY DEF Borrows
<1>4. Prepared'
  BY DEF Prepared
<1>5. Exclusive'
  BY DEF Prepared, Exclusive, PlacesUsable
<1>6. PlacesUsable'
  BY DEF PlacesUsable
<1>7. ApiLoaded'
  BY DEF ApiLoaded
<1> QED
  BY <1>1, <1>2, <1>3, <1>4, <1>5, <1>6, <1>7

(* LabVIEW disposes only of what a terminal nobody borrows holds. *)
LEMMA LVDisposeStep ==
  ASSUME IInv, NEW v \in Var, LVDispose(v)
  PROVE  IInv'
<1> USE MemoryAssumption, PlaceAssumption
    DEF IInv, TypeOK, Frame, Idle, Place, CanShare, CanMut, LVDispose, DSDisposeHandle
<1>1. TypeOK'
  OBVIOUS
<1>2. FrameShape'
  BY DEF FrameShape
<1>3. Borrows'
  BY DEF Borrows
<1>4. Prepared'
  BY DEF FrameShape, Prepared, Exclusive
<1>5. Exclusive'
  BY DEF Exclusive
<1>6. PlacesUsable'
  BY DEF Exclusive, PlacesUsable
<1>7. ApiLoaded'
  BY DEF ApiLoaded
<1> QED
  BY <1>1, <1>2, <1>3, <1>4, <1>5, <1>6, <1>7

(* A foreign pointer in a terminal is nobody's block. *)
LEMMA LVForeignStep ==
  ASSUME IInv, NEW v \in Var, NEW f \in Foreign \cup {Null}, LVForeign(v, f)
  PROVE  IInv'
<1> USE MemoryAssumption, PlaceAssumption
    DEF IInv, TypeOK, Frame, Idle, Place, CanShare, CanMut, LVForeign
<1>1. TypeOK'
  OBVIOUS
<1>2. FrameShape'
  BY DEF FrameShape
<1>3. Borrows'
  BY DEF Borrows
<1>4. Prepared'
  BY DEF Prepared
<1>5. Exclusive'
  BY DEF Exclusive
<1>6. PlacesUsable'
  BY DEF PlacesUsable
<1>7. ApiLoaded'
  BY DEF ApiLoaded
<1> QED
  BY <1>1, <1>2, <1>3, <1>4, <1>5, <1>6, <1>7

(* The state before the first call satisfies the inductive invariant. *)
LEMMA InitIInv == Init => IInv
BY MemoryAssumption, PlaceAssumption
DEF Init, CellInit, IInv, TypeOK, Frame, Idle, Place, FrameShape, Borrows, Prepared,
    Exclusive, PlacesUsable, ApiLoaded

(* Next, one disjunct at a time. *)
LEMMA NextCases ==
  ASSUME Next
  PROVE
    \/ \E t \in Thread : CallFails(t)
    \/ \E t \in Thread, s \in Slot, h \in Handle, d \in Data : New(t, s, h, d)
    \/ \E t \in Thread, s \in Slot, h \in Handle, d \in Data : FromData(t, s, h, d)
    \/ \E t \in Thread, p \in Place, s \in Slot, h \in Handle : TryClone(t, p, s, h)
    \/ \E t \in Thread, p \in Place, q \in Place : CloneIntoPointer(t, p, q)
    \/ \E t \in Thread : InitSet(t)
    \/ \E t \in Thread : Validate(t)
    \/ \E t \in Thread : CopyHandle(t)
    \/ \E t \in Thread, p \in Place, d \in Data : Set(t, p, d)
    \/ \E t \in Thread, s \in Slot : Drop(t, s)
    \/ \E v \in Var, h \in Handle, d \in Data : LVCreate(v, h, d)
    \/ \E v \in Var : LVDispose(v)
    \/ \E v \in Var, f \in Foreign \cup {Null} : LVForeign(v, f)
BY DEF Next, Start, Continue, LabVIEW

(* Every step of every thread, and of LabVIEW, preserves the inductive *)
(* invariant.                                                          *)
LEMMA StepIInv == IInv /\ [Next]_vars => IInv'
<1> SUFFICES ASSUME IInv, [Next]_vars PROVE IInv'
  OBVIOUS
<1>1. CASE UNCHANGED vars
  BY <1>1 DEF vars, IInv, TypeOK, FrameShape, Borrows, Prepared, Exclusive,
     PlacesUsable,
     ApiLoaded
<1>2. CASE Next
  <2>1. ASSUME NEW t \in Thread, CallFails(t) PROVE IInv'
    BY <2>1, CallFailsStep
  <2>2. ASSUME NEW t \in Thread, NEW s \in Slot, NEW h \in Handle, NEW d \in Data,
               New(t, s, h, d)
        PROVE IInv'
    BY <2>2, NewStep
  <2>3. ASSUME NEW t \in Thread, NEW s \in Slot, NEW h \in Handle, NEW d \in Data,
               FromData(t, s, h, d)
        PROVE IInv'
    BY <2>3, FromDataStep
  <2>4. ASSUME NEW t \in Thread, NEW p \in Place, NEW s \in Slot, NEW h \in Handle,
               TryClone(t, p, s, h)
        PROVE IInv'
    BY <2>4, TryCloneStep
  <2>5. ASSUME NEW t \in Thread, NEW p \in Place, NEW q \in Place,
               CloneIntoPointer(t, p, q)
        PROVE IInv'
    BY <2>5, CloneIntoPointerStep
  <2>6. ASSUME NEW t \in Thread, InitSet(t) PROVE IInv'
    BY <2>6, InitSetStep
  <2>7. ASSUME NEW t \in Thread, Validate(t) PROVE IInv'
    BY <2>7, ValidateStep
  <2>8. ASSUME NEW t \in Thread, CopyHandle(t) PROVE IInv'
    BY <2>8, CopyHandleStep
  <2>9. ASSUME NEW t \in Thread, NEW p \in Place, NEW d \in Data, Set(t, p, d)
        PROVE IInv'
    BY <2>9, SetStep
  <2>10. ASSUME NEW t \in Thread, NEW s \in Slot, Drop(t, s) PROVE IInv'
    BY <2>10, DropStep
  <2>11. ASSUME NEW v \in Var, NEW h \in Handle, NEW d \in Data, LVCreate(v, h, d)
         PROVE IInv'
    BY <2>11, LVCreateStep
  <2>12. ASSUME NEW v \in Var, LVDispose(v) PROVE IInv'
    BY <2>12, LVDisposeStep
  <2>13. ASSUME NEW v \in Var, NEW f \in Foreign \cup {Null}, LVForeign(v, f)
         PROVE IInv'
    BY <2>13, LVForeignStep
  <2> QED
    BY <1>2, NextCases, <2>1, <2>2, <2>3, <2>4, <2>5, <2>6, <2>7, <2>8, <2>9, <2>10,
       <2>11, <2>12, <2>13
<1> QED
  BY <1>1, <1>2

(* The inductive invariant holds in every reachable state. *)
THEOREM Invariance == Spec => []IInv
BY InitIInv, StepIInv, PTL DEF Spec

(* A slot never holds a pointer the manager did not issue, and a call is *)
(* always in one of the stages of the code.                              *)
THEOREM TypeCorrect == Spec => []TypeOK
<1>1. IInv => TypeOK
  BY DEF IInv
<1> QED
  BY <1>1, Invariance, PTL

(* However the threads clone, write and drop, a block has one holder: no two *)
(* OwnedUHandles, and no OwnedUHandle and terminal, can free the same        *)
(* handle.                                                                   *)
THEOREM ExclusiveHandles == Spec => []Exclusive
<1>1. IInv => Exclusive
  BY DEF IInv
<1> QED
  BY <1>1, Invariance, PTL

(* Whatever an owned handle dereferences to is allocated and initialised, *)
(* also after failures and with recycled addresses.                       *)
THEOREM OwnedAreUsable == Spec => []OwnedUsable
<1>1. IInv => OwnedUsable
  BY MemoryAssumption DEF IInv, TypeOK, PlacesUsable, OwnedUsable, Place
<1> QED
  BY <1>1, Invariance, PTL

(* Between the check and the copy of clone_into_pointer nothing frees or *)
(* replaces the handles involved: the borrow of the source is enough.    *)
THEOREM ValidatedStaysValid == Spec => []CopyTargetsLive
<1>1. IInv => CopyTargetsLive
  BY DEF IInv, Prepared, CopyTargetsLive
<1> QED
  BY <1>1, Invariance, PTL

(* The step relation of DropFrees. *)
SlotsFreed ==
  \A s \in Slot : handle[s] # Null /\ handle'[s] # handle[s] => handle[s] \notin live'

(* The Drop of OwnedUHandle always returns its block: its two silent error *)
(* branches (no API, handle refused) are unreachable.                      *)
THEOREM DroppedAreFreed == Spec => DropFrees
<1>1. ASSUME IInv, [Next]_vars PROVE SlotsFreed
  <2> USE MemoryAssumption, PlaceAssumption, <1>1 DEF IInv, TypeOK, Place, SlotsFreed
  <2>1. CASE UNCHANGED vars
    BY <2>1 DEF vars
  <2>2. CASE Next
    <3>1. ASSUME NEW t \in Thread, CallFails(t) PROVE SlotsFreed
      BY <3>1 DEF CallFails
    <3>2. ASSUME NEW t \in Thread, NEW s \in Slot, NEW h \in Handle, NEW d \in Data,
                 New(t, s, h, d)
          PROVE SlotsFreed
      BY <3>2 DEF New
    <3>3. ASSUME NEW t \in Thread, NEW s \in Slot, NEW h \in Handle, NEW d \in Data,
                 FromData(t, s, h, d)
          PROVE SlotsFreed
      BY <3>3 DEF FromData, NewUnsized
    <3>4. ASSUME NEW t \in Thread, NEW p \in Place, NEW s \in Slot, NEW h \in
                 Handle, TryClone(t, p, s, h)
          PROVE SlotsFreed
      BY <3>4 DEF TryClone, NewUnsized
    <3>5. ASSUME NEW t \in Thread, NEW p \in Place, NEW q \in Place,
                 CloneIntoPointer(t, p, q)
          PROVE SlotsFreed
      BY <3>5 DEF CloneIntoPointer
    <3>6. ASSUME NEW t \in Thread, InitSet(t) PROVE SlotsFreed
      BY <3>6 DEF InitSet, Return, Fail, Prepared, FrameShape
    <3>7. ASSUME NEW t \in Thread, Validate(t) PROVE SlotsFreed
      BY <3>7 DEF Validate, Fail
    <3>8. ASSUME NEW t \in Thread, CopyHandle(t) PROVE SlotsFreed
      BY <3>8 DEF CopyHandle, DSCopyHandle, Return, Fail, Prepared
    <3>9. ASSUME NEW t \in Thread, NEW p \in Place, NEW d \in Data, Set(t, p, d)
          PROVE SlotsFreed
      BY <3>9 DEF Set
    <3>10. ASSUME NEW t \in Thread, NEW s \in Slot, Drop(t, s) PROVE SlotsFreed
      BY <3>10 DEF Drop, MemoryApi, DSDisposeHandle, ApiLoaded
    <3>11. ASSUME NEW v \in Var, NEW h \in Handle, NEW d \in Data, LVCreate(v, h, d)
           PROVE SlotsFreed
      BY <3>11 DEF LVCreate
    <3>12. ASSUME NEW v \in Var, LVDispose(v) PROVE SlotsFreed
      BY <3>12 DEF LVDispose
    <3>13. ASSUME NEW v \in Var, NEW f \in Foreign \cup {Null}, LVForeign(v, f)
           PROVE SlotsFreed
      BY <3>13 DEF LVForeign
    <3> QED
      BY <2>2, NextCases, <3>1, <3>2, <3>3, <3>4, <3>5, <3>6, <3>7, <3>8, <3>9,
         <3>10, <3>11, <3>12, <3>13
  <2> QED
    BY <2>1, <2>2
<1>2. IInv /\ [Next]_vars => [SlotsFreed]_vars
  BY <1>1
<1> QED
  BY <1>2, Invariance, PTL DEF Spec, DropFrees, SlotsFreed

(* The step relation of LeaksOnlyFromFailedInit. *)
NoStranding ==
  \A h \in Handle : Strands(h) => \E t \in Thread : call[t].new = h /\ call'[t] = Idle

(* The ? in new_unsized is the only exit of this code that loses memory. *)
THEOREM OnlyFailedInitLeaks == Spec => LeaksOnlyFromFailedInit
<1>1. ASSUME IInv, [Next]_vars PROVE NoStranding
  <2> USE MemoryAssumption, PlaceAssumption, <1>1
      DEF IInv, TypeOK, Place, NoStranding, Strands, Held, InFlight
  <2>1. CASE UNCHANGED vars
    BY <2>1 DEF vars
  <2>2. CASE Next
    <3>1. ASSUME NEW t \in Thread, CallFails(t) PROVE NoStranding
      BY <3>1 DEF CallFails
    <3>2. ASSUME NEW t \in Thread, NEW s \in Slot, NEW h \in Handle, NEW d \in Data,
                 New(t, s, h, d)
          PROVE NoStranding
      BY <3>2 DEF New
    <3>3. ASSUME NEW t \in Thread, NEW s \in Slot, NEW h \in Handle, NEW d \in Data,
                 FromData(t, s, h, d)
          PROVE NoStranding
      BY <3>3 DEF FromData, NewUnsized, Idle
    <3>4. ASSUME NEW t \in Thread, NEW p \in Place, NEW s \in Slot, NEW h \in
                 Handle, TryClone(t, p, s, h)
          PROVE NoStranding
      BY <3>4 DEF TryClone, NewUnsized, Idle
    <3>5. ASSUME NEW t \in Thread, NEW p \in Place, NEW q \in Place,
                 CloneIntoPointer(t, p, q)
          PROVE NoStranding
      BY <3>5 DEF CloneIntoPointer, Idle
    <3>6. ASSUME NEW t \in Thread, InitSet(t) PROVE NoStranding
      BY <3>6 DEF InitSet, Return, Fail, Prepared, FrameShape
    <3>7. ASSUME NEW t \in Thread, Validate(t) PROVE NoStranding
      BY <3>7 DEF Validate, Fail, Frame
    <3>8. ASSUME NEW t \in Thread, CopyHandle(t) PROVE NoStranding
      BY <3>8 DEF CopyHandle, DSCopyHandle, Return, Fail, Prepared
    <3>9. ASSUME NEW t \in Thread, NEW p \in Place, NEW d \in Data, Set(t, p, d)
          PROVE NoStranding
      BY <3>9 DEF Set
    <3>10. ASSUME NEW t \in Thread, NEW s \in Slot, Drop(t, s) PROVE NoStranding
      BY <3>10 DEF Drop, MemoryApi, DSDisposeHandle, ApiLoaded
    <3>11. ASSUME NEW v \in Var, NEW h \in Handle, NEW d \in Data, LVCreate(v, h, d)
           PROVE NoStranding
      BY <3>11 DEF LVCreate
    <3>12. ASSUME NEW v \in Var, LVDispose(v) PROVE NoStranding
      BY <3>12 DEF LVDispose, DSDisposeHandle
    <3>13. ASSUME NEW v \in Var, NEW f \in Foreign \cup {Null}, LVForeign(v, f)
           PROVE NoStranding
      BY <3>13 DEF LVForeign
    <3> QED
      BY <2>2, NextCases, <3>1, <3>2, <3>3, <3>4, <3>5, <3>6, <3>7, <3>8, <3>9,
         <3>10, <3>11, <3>12, <3>13
  <2> QED
    BY <2>1, <2>2
<1>2. IInv /\ [Next]_vars => [NoStranding]_vars
  BY <1>1
<1> QED
  BY <1>2, Invariance, PTL DEF Spec, LeaksOnlyFromFailedInit, NoStranding

-----------------------------------------------------------------------------
(* OwnedUHandle::new assigns a value to its variable. *)
LEMMA NewRefines ==
  ASSUME IInv, NEW t \in Thread, NEW s \in Slot, NEW h \in Handle, NEW d \in Data,
         New(t, s, h, d)
  PROVE  [Abstract!Next]_(Abstract!vars)
<1> USE MemoryAssumption, PlaceAssumption
    DEF IInv, TypeOK, Frame, Idle, Place, CanShare, CanMut, New, Allocate, MemoryApi
<1>1. ~Abstract!Source(s) /\ ~Abstract!Destination(s)
  BY DEF Abstract!Source, Abstract!Destination, Clones, Cloning
<1>2. Values' = [Values EXCEPT ![s] = d]
  <2>1. \A r \in Place : ValueOf(r)' = IF r = s THEN d ELSE ValueOf(r)
    BY DEF ValueOf, PlacesUsable
  <2> QED
    BY <2>1 DEF Values
<1>3. Clones' = Clones
  BY DEF Clones, Cloning
<1>4. Abstract!Assign(s, d)
  BY <1>1, <1>2, <1>3 DEF Abstract!Assign
<1> QED
  BY <1>4 DEF Abstract!Next

(* A write through &mut assigns one place; sharing a block would change two. *)
LEMMA SetRefines ==
  ASSUME IInv, NEW t \in Thread, NEW p \in Place, NEW d \in Data, Set(t, p, d)
  PROVE  [Abstract!Next]_(Abstract!vars)
<1> USE MemoryAssumption, PlaceAssumption
    DEF IInv, TypeOK, Frame, Idle, Place, CanShare, CanMut, Set, MemoryApi,
        DSSetHandleSize
<1>1. ~Abstract!Source(p) /\ ~Abstract!Destination(p)
  BY DEF Abstract!Source, Abstract!Destination, Clones, Cloning
<1>2. Values' = [Values EXCEPT ![p] = d]
  <2>1. \A r \in Place : ValueOf(r)' = IF r = p THEN d ELSE ValueOf(r)
    BY DEF ValueOf, Exclusive
  <2> QED
    BY <2>1 DEF Values
<1>3. Clones' = Clones
  BY DEF Clones, Cloning
<1>4. Abstract!Assign(p, d)
  BY <1>1, <1>2, <1>3 DEF Abstract!Assign
<1> QED
  BY <1>4 DEF Abstract!Next

(* A drop leaves its variable without a value and no other. *)
LEMMA DropRefines ==
  ASSUME IInv, NEW t \in Thread, NEW s \in Slot, Drop(t, s)
  PROVE  [Abstract!Next]_(Abstract!vars)
<1> USE MemoryAssumption, PlaceAssumption
    DEF IInv, TypeOK, Frame, Idle, Place, CanShare, CanMut, Drop, MemoryApi,
        DSDisposeHandle
<1>1. ~Abstract!Source(s) /\ ~Abstract!Destination(s)
  BY DEF Abstract!Source, Abstract!Destination, Clones, Cloning
<1>2. Values' = [Values EXCEPT ![s] = Null]
  <2>1. \A r \in Place : handle'[r] = IF r = s THEN Null ELSE handle[r]
    OBVIOUS
  <2>2. \A r \in Place : r # s /\ handle[r] = handle[s] => handle[r] \notin live
    BY DEF Exclusive
  <2>3. api = "ok"
    BY DEF ApiLoaded
  <2>4. \/ /\ handle[s] \in live /\ live' = live \ {handle[s]}
           /\ data' = [data EXCEPT ![handle[s]] = Uninit]
        \/ UNCHANGED <<live, data>>
    OBVIOUS
  <2>5. Null \notin live'
    BY <2>4
  <2>6. ASSUME NEW r \in Place
        PROVE  ValueOf(r)' = IF r = s THEN Null ELSE ValueOf(r)
    <3>1. CASE r = s
      BY <2>1, <2>5, <3>1 DEF ValueOf
    <3>2. CASE r # s
      BY <2>1, <2>2, <2>4, <3>2 DEF ValueOf
    <3> QED
      BY <3>1, <3>2
  <2> QED
    BY <2>6 DEF Values
<1>3. Clones' = Clones
  BY DEF Clones, Cloning
<1>4. Abstract!Assign(s, Null)
  BY <1>1, <1>2, <1>3 DEF Abstract!Assign
<1> QED
  BY <1>4 DEF Abstract!Next

(* LabVIEW giving a terminal a block assigns it a value. *)
LEMMA LVCreateRefines ==
  ASSUME IInv, NEW v \in Var, NEW h \in Handle, NEW d \in Data, LVCreate(v, h, d)
  PROVE  [Abstract!Next]_(Abstract!vars)
<1> USE MemoryAssumption, PlaceAssumption
    DEF IInv, TypeOK, Frame, Idle, Place, CanShare, CanMut, LVCreate, Allocate
<1>1. ~Abstract!Source(v) /\ ~Abstract!Destination(v)
  BY DEF Abstract!Source, Abstract!Destination, Clones, Cloning
<1>2. Values' = [Values EXCEPT ![v] = d]
  <2>1. \A r \in Place : ValueOf(r)' = IF r = v THEN d ELSE ValueOf(r)
    BY DEF ValueOf, PlacesUsable
  <2> QED
    BY <2>1 DEF Values
<1>3. Clones' = Clones
  BY DEF Clones, Cloning
<1>4. Abstract!Assign(v, d)
  BY <1>1, <1>2, <1>3 DEF Abstract!Assign
<1> QED
  BY <1>4 DEF Abstract!Next

(* LabVIEW disposing of a terminal's block takes that value away and no *)
(* other.                                                               *)
LEMMA LVDisposeRefines ==
  ASSUME IInv, NEW v \in Var, LVDispose(v)
  PROVE  [Abstract!Next]_(Abstract!vars)
<1> USE MemoryAssumption, PlaceAssumption
    DEF IInv, TypeOK, Frame, Idle, Place, CanShare, CanMut, LVDispose, DSDisposeHandle
<1>1. ~Abstract!Source(v) /\ ~Abstract!Destination(v)
  BY DEF Abstract!Source, Abstract!Destination, Clones, Cloning
<1>2. Values' = [Values EXCEPT ![v] = Null]
  <2>1. \A r \in Place : ValueOf(r)' = IF r = v THEN Null ELSE ValueOf(r)
    BY DEF ValueOf, Exclusive
  <2> QED
    BY <2>1 DEF Values
<1>3. Clones' = Clones
  BY DEF Clones, Cloning
<1>4. Abstract!Assign(v, Null)
  BY <1>1, <1>2, <1>3 DEF Abstract!Assign
<1> QED
  BY <1>4 DEF Abstract!Next

(* try_clone begins a clone of its source; the fresh block is nobody's value *)
(* yet.                                                                      *)
LEMMA TryCloneRefines ==
  ASSUME IInv, NEW t \in Thread, NEW p \in Place, NEW s \in Slot, NEW h \in Handle,
         TryClone(t, p, s, h)
  PROVE  [Abstract!Next]_(Abstract!vars)
<1> USE MemoryAssumption, PlaceAssumption
    DEF IInv, TypeOK, Frame, Idle, Place, CanShare, CanMut, TryClone, NewUnsized,
        DSNewHandle, Allocate, MemoryApi
<1>1. p # s /\ ~Abstract!Destination(p) /\ ~Abstract!Source(s) /\ ~Abstract!Destination(s)
  BY DEF Abstract!Source, Abstract!Destination, Clones, Cloning
<1>2. Values' = Values
  BY DEF Values, ValueOf, PlacesUsable
<1>3. Clones' = Clones \cup {<<p, s>>}
  BY DEF Clones, Cloning
<1>4. Abstract!BeginClone(p, s)
  BY <1>1, <1>2, <1>3 DEF Abstract!BeginClone
<1> QED
  BY <1>4 DEF Abstract!Next

(* clone_into_pointer begins a clone into its destination. *)
LEMMA CloneIntoPointerRefines ==
  ASSUME IInv, NEW t \in Thread, NEW p \in Place, NEW q \in Place,
         CloneIntoPointer(t, p, q)
  PROVE  [Abstract!Next]_(Abstract!vars)
<1> USE MemoryAssumption, PlaceAssumption
    DEF IInv, TypeOK, Frame, Idle, Place, CanShare, CanMut, CloneIntoPointer,
        MemoryApi
<1>1. p # q /\ ~Abstract!Destination(p) /\ ~Abstract!Source(q) /\ ~Abstract!Destination(q)
  BY DEF Abstract!Source, Abstract!Destination, Clones, Cloning
<1>2. Values' = Values
  BY DEF Values, ValueOf
<1>3. Clones' = Clones \cup {<<p, q>>}
  BY DEF Clones, Cloning
<1>4. Abstract!BeginClone(p, q)
  BY <1>1, <1>2, <1>3 DEF Abstract!BeginClone
<1> QED
  BY <1>4 DEF Abstract!Next

(* A call that fails at its entry changes no value. *)
LEMMA CallFailsRefines ==
  ASSUME IInv, NEW t \in Thread, CallFails(t)
  PROVE  [Abstract!Next]_(Abstract!vars)
<1> USE MemoryAssumption, PlaceAssumption
    DEF IInv, TypeOK, Frame, Idle, Place, CanShare, CanMut, CallFails, MemoryApi
<1>1. Values' = Values
  BY DEF Values, ValueOf
<1>2. Clones' = Clones
  BY DEF Clones, Cloning
<1> QED
  BY <1>1, <1>2 DEF Abstract!vars

(* Allocating zero bytes gives nobody a value. *)
LEMMA FromDataRefines ==
  ASSUME IInv, NEW t \in Thread, NEW s \in Slot, NEW h \in Handle, NEW d \in Data,
         FromData(t, s, h, d)
  PROVE  [Abstract!Next]_(Abstract!vars)
<1> USE MemoryAssumption, PlaceAssumption
    DEF IInv, TypeOK, Frame, Idle, Place, CanShare, CanMut, FromData, NewUnsized,
        DSNewHandle, Allocate, MemoryApi
<1>1. Values' = Values
  BY DEF Values, ValueOf, PlacesUsable
<1>2. Clones' = Clones
  BY DEF Clones, Cloning
<1> QED
  BY <1>1, <1>2 DEF Abstract!vars

(* A foreign pointer stands for no value. *)
LEMMA LVForeignRefines ==
  ASSUME IInv, NEW v \in Var, NEW f \in Foreign \cup {Null}, LVForeign(v, f)
  PROVE  [Abstract!Next]_(Abstract!vars)
<1> USE MemoryAssumption, PlaceAssumption
    DEF IInv, TypeOK, Frame, Idle, Place, CanShare, CanMut, LVForeign
<1>1. Values' = Values
  BY DEF Values, ValueOf
<1>2. Clones' = Clones
  BY DEF Clones, Cloning
<1> QED
  BY <1>1, <1>2 DEF Abstract!vars

(* The init routine of from_data assigns the value, or, failing, nothing. *)
LEMMA InitSetRefines ==
  ASSUME IInv, NEW t \in Thread, InitSet(t)
  PROVE  [Abstract!Next]_(Abstract!vars)
<1> USE MemoryAssumption, PlaceAssumption
    DEF IInv, TypeOK, Frame, Idle, Place, CanShare, CanMut, InitSet, DSSetHandleSize,
        Return, Fail
<1> DEFINE p == call[t].dst
             x == call[t].arg
<1>1. CASE Fail(t)
  <2>1. Values' = Values
    BY <1>1 DEF Values, ValueOf
  <2>2. Clones' = Clones
    BY <1>1 DEF Clones, Cloning, FrameShape
  <2> QED
    BY <2>1, <2>2 DEF Abstract!vars
<1>2. CASE DSSetHandleSize(call[t].new, x) /\ Return(t, call[t].new)
  <2>1. ~Abstract!Source(p) /\ ~Abstract!Destination(p)
    BY DEF Abstract!Source, Abstract!Destination, Clones, Cloning, FrameShape, Borrows
  <2>2. Values' = [Values EXCEPT ![p] = x]
    <3>1. \A r \in Place : ValueOf(r)' = IF r = p THEN x ELSE ValueOf(r)
      BY <1>2 DEF ValueOf, Exclusive
    <3> QED
      BY <3>1 DEF Values
  <2>3. Clones' = Clones
    BY <1>2 DEF Clones, Cloning, FrameShape
  <2>4. Abstract!Assign(p, x)
    BY <2>1, <2>2, <2>3 DEF Abstract!Assign
  <2> QED
    BY <2>4 DEF Abstract!Next, FrameShape
<1> QED
  BY <1>1, <1>2

(* A source that passes valid() changes no value; one that does not aborts *)
(* the clone.                                                              *)
LEMMA ValidateRefines ==
  ASSUME IInv, NEW t \in Thread, Validate(t)
  PROVE  [Abstract!Next]_(Abstract!vars)
<1> USE MemoryAssumption, PlaceAssumption
    DEF IInv, TypeOK, Frame, Idle, Place, CanShare, CanMut, Validate, Valid,
        DSCheckHandle, Fail
<1> DEFINE c == <<call[t].src, call[t].dst>>
<1>1. CASE Valid(handle[call[t].src])
  <2>1. Values' = Values
    BY <1>1 DEF Values, ValueOf
  <2>2. Clones' = Clones
    BY <1>1 DEF Clones, Cloning
  <2> QED
    BY <2>1, <2>2 DEF Abstract!vars
<1>2. CASE ~Valid(handle[call[t].src])
  <2>1. Values' = Values
    BY <1>2 DEF Values, ValueOf
  <2>2. Clones' = Clones \ {c}
    BY <1>2 DEF Clones, Cloning, Borrows, FrameShape
  <2>3. c \in Clones
    BY DEF Clones, Cloning, FrameShape
  <2>4. Abstract!AbortClone(c)
    BY <2>1, <2>2 DEF Abstract!AbortClone
  <2> QED
    BY <2>3, <2>4 DEF Abstract!Next
<1> QED
  BY <1>1, <1>2

(* copy_handle ends the clone: the destination gets the value the source has *)
(* at this moment; failing, it aborts the clone.                             *)
LEMMA CopyHandleRefines ==
  ASSUME IInv, NEW t \in Thread, CopyHandle(t)
  PROVE  [Abstract!Next]_(Abstract!vars)
<1> USE MemoryAssumption, PlaceAssumption
    DEF IInv, TypeOK, Frame, Idle, Place, CanShare, CanMut, CopyHandle, DSCopyHandle,
        Allocate, Return, Fail
<1> DEFINE c == <<call[t].src, call[t].dst>>
             ph == IF call[t].new # Null THEN call[t].new ELSE handle[call[t].dst]
<1>1. CASE Fail(t)
  <2>1. Values' = Values
    BY <1>1 DEF Values, ValueOf
  <2>2. Clones' = Clones \ {c}
    BY <1>1 DEF Clones, Cloning, Borrows, FrameShape
  <2>3. c \in Clones
    BY DEF Clones, Cloning, FrameShape
  <2>4. Abstract!AbortClone(c)
    BY <2>1, <2>2 DEF Abstract!AbortClone
  <2> QED
    BY <2>3, <2>4 DEF Abstract!Next
<1>2. ASSUME NEW out \in Handle, DSCopyHandle(ph, handle[call[t].src], out), Return(t, out)
      PROVE  [Abstract!Next]_(Abstract!vars)
  <2>1. Values[c[1]] # Null
    BY DEF Values, ValueOf, FrameShape, Prepared, PlacesUsable
  <2>2. Values' = [Values EXCEPT ![c[2]] = Values[c[1]]]
    <3>1. \A r \in Place : ValueOf(r)' = IF r = c[2] THEN Values[c[1]] ELSE ValueOf(r)
      BY <1>2 DEF Values, ValueOf, FrameShape, Exclusive, PlacesUsable
    <3> QED
      BY <3>1 DEF Values
  <2>3. Clones' = Clones \ {c}
    BY <1>2 DEF Clones, Cloning, Borrows, FrameShape
  <2>4. c \in Clones
    BY DEF Clones, Cloning, FrameShape
  <2>5. Abstract!EndClone(c)
    BY <2>1, <2>2, <2>3 DEF Abstract!EndClone
  <2> QED
    BY <2>4, <2>5 DEF Abstract!Next
<1> QED
  BY <1>1, <1>2

(* Initially nobody has a value and no clone is running. *)
LEMMA RefineInit == Init => Abstract!Init
BY MemoryAssumption DEF Init, Idle, Abstract!Init, Values, ValueOf, Clones, Cloning

(* Every step of the handles is a step of the abstract program or a stutter. *)
LEMMA RefineStep == IInv /\ [Next]_vars => [Abstract!Next]_(Abstract!vars)
<1> SUFFICES ASSUME IInv, [Next]_vars PROVE [Abstract!Next]_(Abstract!vars)
  OBVIOUS
<1>1. CASE UNCHANGED vars
  BY <1>1 DEF vars, Abstract!vars, Values, ValueOf, Clones, Cloning
<1>2. CASE Next
  <2>1. ASSUME NEW t \in Thread, CallFails(t)
       PROVE  [Abstract!Next]_(Abstract!vars)
    BY <2>1, CallFailsRefines
  <2>2. ASSUME NEW t \in Thread, NEW s \in Slot, NEW h \in Handle, NEW d \in Data, New(t, s, h, d)
       PROVE  [Abstract!Next]_(Abstract!vars)
    BY <2>2, NewRefines
  <2>3. ASSUME NEW t \in Thread, NEW s \in Slot, NEW h \in Handle, NEW d \in Data, FromData(t, s, h, d)
       PROVE  [Abstract!Next]_(Abstract!vars)
    BY <2>3, FromDataRefines
  <2>4. ASSUME NEW t \in Thread, NEW p \in Place, NEW s \in Slot, NEW h \in Handle, TryClone(t, p, s, h)
       PROVE  [Abstract!Next]_(Abstract!vars)
    BY <2>4, TryCloneRefines
  <2>5. ASSUME NEW t \in Thread, NEW p \in Place, NEW q \in Place, CloneIntoPointer(t, p, q)
       PROVE  [Abstract!Next]_(Abstract!vars)
    BY <2>5, CloneIntoPointerRefines
  <2>6. ASSUME NEW t \in Thread, InitSet(t)
       PROVE  [Abstract!Next]_(Abstract!vars)
    BY <2>6, InitSetRefines
  <2>7. ASSUME NEW t \in Thread, Validate(t)
       PROVE  [Abstract!Next]_(Abstract!vars)
    BY <2>7, ValidateRefines
  <2>8. ASSUME NEW t \in Thread, CopyHandle(t)
       PROVE  [Abstract!Next]_(Abstract!vars)
    BY <2>8, CopyHandleRefines
  <2>9. ASSUME NEW t \in Thread, NEW p \in Place, NEW d \in Data, Set(t, p, d)
       PROVE  [Abstract!Next]_(Abstract!vars)
    BY <2>9, SetRefines
  <2>10. ASSUME NEW t \in Thread, NEW s \in Slot, Drop(t, s)
       PROVE  [Abstract!Next]_(Abstract!vars)
    BY <2>10, DropRefines
  <2>11. ASSUME NEW v \in Var, NEW h \in Handle, NEW d \in Data, LVCreate(v, h, d)
       PROVE  [Abstract!Next]_(Abstract!vars)
    BY <2>11, LVCreateRefines
  <2>12. ASSUME NEW v \in Var, LVDispose(v)
       PROVE  [Abstract!Next]_(Abstract!vars)
    BY <2>12, LVDisposeRefines
  <2>13. ASSUME NEW v \in Var, NEW f \in Foreign \cup {Null}, LVForeign(v, f)
       PROVE  [Abstract!Next]_(Abstract!vars)
    BY <2>13, LVForeignRefines
  <2> QED
    BY <1>2, NextCases, <2>1, <2>2, <2>3, <2>4, <2>5, <2>6, <2>7, <2>8, <2>9, <2>10,
       <2>11, <2>12, <2>13
<1> QED
  BY <1>1, <1>2

(* The handles of every thread implement value semantics: an owner or a     *)
(* terminal can use its handle as if it held the value itself, a clone is a *)
(* copy, and no operation on one place changes another.                     *)
THEOREM HandlesAreValues == Spec => RefinesValues
BY RefineInit, RefineStep, Invariance, PTL DEF Spec, RefinesValues, Abstract!Spec
=============================================================================
