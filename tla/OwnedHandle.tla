----------------------------- MODULE OwnedHandle -----------------------------
(***************************************************************************)
(* Handles to LabVIEW memory and the owner Rust wraps around them:         *)
(* UHandle (memory/uhandle.rs) and OwnedUHandle (memory/owned_handle.rs).  *)
(*                                                                         *)
(* A Slot is a Rust variable of type Option<OwnedUHandle<T>>, a Var is a   *)
(* terminal of a LabVIEW diagram that reaches Rust as a UHandle<T>.  Both  *)
(* hold one pointer.  Threads run the operations concurrently.  A clone is *)
(* three steps, as in the code: allocate, validate the source, copy; and   *)
(* LStrOwned::from_data is two: allocate, then set.  What happens between  *)
(* the steps of one thread is whatever the borrow rules let others do.     *)
(*                                                                         *)
(* The feature "link" is on; without it there is no OwnedUHandle.          *)
(***************************************************************************)
EXTENDS MemoryManager, LazyCell

CONSTANTS Thread, Slot, Var

Place == Slot \cup Var

ASSUME PlaceAssumption == Slot \cap Var = {} /\ Null \notin Place

VARIABLES
  handle,    \* the pointer each place holds
  call       \* the operation each thread is in the middle of

vars == <<live, data, handle, call, api>>

(* A call in progress: src is borrowed shared, dst is borrowed mutably (or is *)
(* about to be bound), new is the handle new_unsized allocated, arg the bytes  *)
(* that its init routine will set.                                             *)
Frame == [pc: {"idle", "set", "valid", "copy"},
          src: Place \cup {Null}, dst: Place \cup {Null},
          new: Handle \cup {Null}, arg: Data \cup {Null}]

Idle == [pc |-> "idle", src |-> Null, dst |-> Null, new |-> Null, arg |-> Null]

TypeOK ==
  /\ live \subseteq Handle
  /\ data \in [Handle -> Data \cup {Uninit}]
  /\ handle \in [Place -> Handle \cup Foreign \cup {Null}]
  /\ \A s \in Slot : handle[s] \notin Foreign
  /\ call \in [Thread -> Frame]
  /\ api \in {"unset", "ok", "err"}

Init ==
  /\ live = {}
  /\ data = [h \in Handle |-> Uninit]
  /\ handle = [p \in Place |-> Null]
  /\ call = [t \in Thread |-> Idle]
  /\ CellInit

-----------------------------------------------------------------------------
(* Rust's borrow rules over the calls in progress: &self needs CanShare, *)
(* &mut self, a move or a drop needs CanMut.  LabVIEW keeps its side: it *)
(* does not touch a terminal it has passed to a call that is running.    *)
CanShare(p) == \A t \in Thread : call[t].dst # p
CanMut(p) == \A t \in Thread : p \notin {call[t].src, call[t].dst}

(* Faulty variants of the operations stand beside them; Next uses none. *)

(* A call that returns Err before it changed anything: no API, new_handle *)
(* returned NULL, or resize reported mFullErr or mZoneErr.                *)
CallFails(t) ==
  /\ call[t] = Idle
  /\ \E r \in {"ok", "err"} : MemoryApi(r)
  /\ UNCHANGED <<live, data, handle, call>>

(* OwnedUHandle::new: allocate, write the value, wrap the handle. *)
New(t, s, h, d) ==
  /\ call[t] = Idle
  /\ handle[s] = Null /\ CanMut(s)
  /\ MemoryApi("ok")
  /\ Allocate(h, d)
  /\ handle' = [handle EXCEPT ![s] = h]
  /\ UNCHANGED call

(* The first half of new_unsized: allocate zero bytes, enter init_routine. *)
NewUnsized(t, s, h, frame) ==
  /\ call[t] = Idle
  /\ handle[s] = Null /\ CanMut(s)
  /\ MemoryApi("ok")
  /\ DSNewHandle(h)
  /\ call' = [call EXCEPT ![t] = frame]
  /\ UNCHANGED handle

(* LStrOwned::from_data and empty_string: new_unsized(|handle| handle.set(data)). *)
FromData(t, s, h, d) ==
  NewUnsized(t, s, h, [pc |-> "set", src |-> Null, dst |-> s, new |-> h, arg |-> d])

TryCloneWraps(t, p, s, h) ==
  /\ call[t] = Idle
  /\ handle[s] = Null /\ p # s /\ CanShare(p) /\ CanMut(s)
  /\ MemoryApi("ok")
  /\ handle' = [handle EXCEPT ![s] = handle[p]]
  /\ UNCHANGED <<live, data, call>>
(* try_clone and try_to_owned: new_unsized(|handle| self.clone_into_pointer(handle)). *)
TryClone(t, p, s, h) ==
  /\ p # s /\ CanShare(p)
  /\ NewUnsized(t, s, h, [pc |-> "valid", src |-> p, dst |-> s, new |-> h, arg |-> Null])

(* clone_into_pointer called directly, into a terminal or into the handle that *)
(* handle_to_inner lends out of an owned value.  Its safety section asks the   *)
(* caller for a destination that is null or valid.                             *)
CloneIntoPointer(t, p, q) ==
  /\ call[t] = Idle
  /\ p # q /\ CanShare(p) /\ CanMut(q)
  /\ handle[q] \in live \/ (q \in Var /\ handle[q] = Null)
  /\ MemoryApi("ok")
  /\ call' = [call EXCEPT ![t] =
                [pc |-> "valid", src |-> p, dst |-> q, new |-> Null, arg |-> Null]]
  /\ UNCHANGED <<live, data, handle>>

-----------------------------------------------------------------------------
(* The call returns Err.  new_unsized leaves through the ? of line 92, so a *)
(* handle it allocated is forgotten: new_value is a UHandle, without Drop.  *)
Fail(t) ==
  /\ call' = [call EXCEPT ![t] = Idle]
  /\ UNCHANGED <<live, data, handle, api>>

(* The call returns Ok and dst holds h. *)
Return(t, h) ==
  /\ handle' = [handle EXCEPT ![call[t].dst] = h]
  /\ call' = [call EXCEPT ![t] = Idle]
  /\ UNCHANGED api

ValidUnlessNull(h) == h # Null /\ api = "ok"
(* UHandle::valid: not null, and the memory manager knows it. *)
Valid(h) == h # Null /\ api = "ok" /\ DSCheckHandle(h)

InitSetIgnoresError(t) ==
  /\ call[t].pc = "set"
  /\ \/ DSSetHandleSize(call[t].new, call[t].arg) /\ Return(t, call[t].new)
     \/ Return(t, call[t].new) /\ UNCHANGED <<live, data>>
(* The second half of from_data: set resizes the new block and fills it. *)
InitSet(t) ==
  /\ call[t].pc = "set"
  /\ \/ DSSetHandleSize(call[t].new, call[t].arg) /\ Return(t, call[t].new)
     \/ Fail(t)

(* clone_into_pointer, lines 246-248. *)
Validate(t) ==
  /\ call[t].pc = "valid"
  /\ IF Valid(handle[call[t].src])
     THEN /\ call' = [call EXCEPT ![t].pc = "copy"]
          /\ UNCHANGED <<live, data, handle, api>>
     ELSE Fail(t)

CopyHandleShares(t) ==
  /\ call[t].pc = "copy"
  /\ Return(t, handle[call[t].src])
  /\ UNCHANGED <<live, data>>
(* clone_into_pointer, lines 249-250: the manager checks nothing more. *)
CopyHandle(t) ==
  LET f == call[t]
      ph == IF f.new # Null THEN f.new ELSE handle[f.dst]
  IN  /\ f.pc = "copy"
      /\ \/ \E out \in Handle : DSCopyHandle(ph, handle[f.src], out) /\ Return(t, out)
         \/ Fail(t)

-----------------------------------------------------------------------------
SetShared(t, p, d) ==
  /\ call[t] = Idle
  /\ CanShare(p)
  /\ MemoryApi("ok")
  /\ DSSetHandleSize(handle[p], d)
  /\ UNCHANGED <<handle, call>>
(* LStrHandle::set, and a write through DerefMut: p is borrowed mutably. *)
Set(t, p, d) ==
  /\ call[t] = Idle
  /\ CanMut(p)
  /\ MemoryApi("ok")
  /\ DSSetHandleSize(handle[p], d)
  /\ UNCHANGED <<handle, call>>

DropForgets(t, s) ==
  /\ call[t] = Idle
  /\ handle[s] # Null /\ CanMut(s)
  /\ handle' = [handle EXCEPT ![s] = Null]
  /\ UNCHANGED <<live, data, call, api>>
(* Drop for OwnedUHandle: without the API, or if the manager refuses the *)
(* handle, it prints and forgets the block.                              *)
Drop(t, s) ==
  /\ call[t] = Idle
  /\ handle[s] # Null /\ CanMut(s)
  /\ \E r \in {"ok", "err"} :
       /\ MemoryApi(r)
       /\ IF r = "ok" /\ handle[s] \in live
          THEN DSDisposeHandle(handle[s])
          ELSE UNCHANGED <<live, data>>
  /\ handle' = [handle EXCEPT ![s] = Null]
  /\ UNCHANGED call

(* The LabVIEW side of a terminal: it holds no handle, an initialised block, *)
(* or a pointer that is not one of the manager's.                            *)
LVCreate(v, h, d) ==
  /\ handle[v] = Null /\ CanMut(v)
  /\ Allocate(h, d)
  /\ handle' = [handle EXCEPT ![v] = h]
  /\ UNCHANGED <<call, api>>

LVDispose(v) ==
  /\ CanMut(v)
  /\ DSDisposeHandle(handle[v])
  /\ handle' = [handle EXCEPT ![v] = Null]
  /\ UNCHANGED <<call, api>>

LVForeign(v, f) ==
  /\ handle[v] \in Foreign \cup {Null} /\ CanMut(v)
  /\ handle' = [handle EXCEPT ![v] = f]
  /\ UNCHANGED <<live, data, call, api>>

-----------------------------------------------------------------------------
Start(t) ==
  \/ CallFails(t)
  \/ \E s \in Slot, h \in Handle, d \in Data : New(t, s, h, d) \/ FromData(t, s, h, d)
  \/ \E p \in Place, s \in Slot, h \in Handle : TryClone(t, p, s, h)
  \/ \E p, q \in Place : CloneIntoPointer(t, p, q)
  \/ \E p \in Place, d \in Data : Set(t, p, d)
  \/ \E s \in Slot : Drop(t, s)

Continue(t) == InitSet(t) \/ Validate(t) \/ CopyHandle(t)

LabVIEW ==
  \E v \in Var :
    \/ \E h \in Handle, d \in Data : LVCreate(v, h, d)
    \/ LVDispose(v)
    \/ \E f \in Foreign \cup {Null} : LVForeign(v, f)

Next == LabVIEW \/ \E t \in Thread : Start(t) \/ Continue(t)

Spec == Init /\ [][Next]_vars

-----------------------------------------------------------------------------
(* The blocks somebody answers for: held by a place, or by a call about to *)
(* bind them.                                                              *)
InFlight == {call[t].new : t \in Thread}
Held == {handle[p] : p \in Place} \cup InFlight

(* "This needs to take a mutable reference ... to avoid creating multiple   *)
(* UHandles": a block is held by one place or one running call, never two,  *)
(* whatever the threads clone into what.  Two owners would free it twice.   *)
Exclusive ==
  /\ \A p, q \in Place : p # q /\ handle[p] = handle[q] => handle[p] \notin Handle
  /\ \A t, u \in Thread : t # u /\ call[t].new = call[u].new => call[t].new = Null
  /\ \A p \in Place, t \in Thread : handle[p] # Null => handle[p] # call[t].new

(* "The initialisation function will initialise the data or error", so an   *)
(* owned value that Deref reaches is allocated and written, for as long as  *)
(* it is owned, whatever failed on the way and whichever address is reused. *)
OwnedUsable ==
  \A s \in Slot : handle[s] # Null => handle[s] \in live /\ data[handle[s]] \in Data

(* clone_into_pointer validates, then copies: the handle it validated is still *)
(* a live block when copy_handle reads it, and so is the one it writes.        *)
CopyTargetsLive ==
  \A t \in Thread : call[t].pc = "copy" =>
     /\ handle[call[t].src] \in live
     /\ {call[t].new, handle[call[t].dst]} \subseteq live \cup {Null}

(* "This will manage the lifetime and free the handle on drop": whenever a *)
(* slot gives up its block, on whatever thread and however long after it   *)
(* was made, the block is returned to the manager in that same step.       *)
DropFrees ==
  [][\A s \in Slot :
       handle[s] # Null /\ handle'[s] # handle[s] => handle[s] \notin live']_vars

(* A step strands a live block only when it is the init routine of new_unsized *)
(* that fails; no other error path, drop or overwrite loses memory.            *)
Strands(h) == h \in live' \cap Held /\ h \notin Held'
LeaksOnlyFromFailedInit ==
  [][\A h \in Handle : Strands(h) =>
       \E t \in Thread : call[t].new = h /\ call'[t] = Idle]_vars

(* "A value allocated in the LabVIEW memory managed by Rust.  This will     *)
(* manage the lifetime and free the handle": no allocated block without a   *)
(* holder.  A failed init_routine refutes it.                               *)
NoLeak == live \subseteq Held
=============================================================================
