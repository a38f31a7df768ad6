---------------------------- MODULE NestedHandles ----------------------------
(***************************************************************************)
(* Arrays whose elements own a handle: LVArray<1, LStrOwned>, in a LabVIEW *)
(* terminal or behind an OwnedUHandle (types/array/mod.rs, over            *)
(* memory/owned_handle.rs).  The block of such an array holds pointers to  *)
(* other blocks, and the manager copies and frees it without looking at    *)
(* them; of the crate's operations, clones, drops and the two raw accesses *)
(* look at them no more than it does.  Nothing counts the owners of a      *)
(* string: every drop frees the block its pointer leads to, whoever else   *)
(* holds that pointer and whatever lies there by now.                      *)
(*                                                                         *)
(* The null handle is an empty string, which owns nothing; a variable that *)
(* holds it stands for None as well.  The API is loaded and every call is  *)
(* one step: OwnedHandle has the steps of a call, its failures and the     *)
(* threads.                                                                *)
(***************************************************************************)
EXTENDS MemoryManager

CONSTANTS
  Text,        \* the contents of a string
  Index,       \* the positions of an array
  Terminal,    \* array terminals of LabVIEW, UHandle<LVArray<1, LStrOwned>>
  Arr,         \* Rust variables, Option<LVArrayOwned<1, LStrOwned>>
  Str          \* Rust variables, Option<LStrOwned>

Elements == [Index -> Handle \cup {Null}]
Holder == Terminal \cup Arr                  \* what holds an array
Place == Holder \cup Str

ASSUME NestedAssumption ==
  /\ Data = Text \cup Elements
  /\ Text \cap Elements = {}
  /\ Uninit \notin Text \cup Elements
  /\ Terminal \cap Arr = {} /\ Holder \cap Str = {}

VARIABLES
  handle,    \* the pointer each place holds
  raw,       \* history: what the program has done to strings as to plain bytes
  orphaned   \* history: the strings that were elements of a dropped array

vars == <<live, data, handle, raw, orphaned>>
history == <<raw, orphaned>>

(* A string was copied with its array, read out of an element that keeps it, *)
(* or written over; and, once there was a clone, a string was set, assigned  *)
(* or moved through an owned array.                                          *)
Raw == {"clone", "get", "set", "through"}

TypeOK ==
  /\ live \subseteq Handle
  /\ data \in [Handle -> Data \cup {Uninit}]
  /\ handle \in [Place -> Handle \cup {Null}]
  /\ raw \subseteq Raw
  /\ orphaned \subseteq Handle

Init ==
  /\ live = {}
  /\ data = [h \in Handle |-> Uninit]
  /\ handle = [p \in Place |-> Null]
  /\ raw = {}
  /\ orphaned = {}

(* Where Deref of the array finds its elements, and data_as_slice one of them. *)
Reaches(p) == handle[p] \in live /\ data[handle[p]] \in Elements
Elem(p, i) == IF Reaches(p) THEN data[handle[p]][i] ELSE Null

Record(what, happens) == raw' = IF happens THEN raw \cup {what} ELSE raw
Through(p) == p \in Arr /\ "clone" \in raw

-----------------------------------------------------------------------------
(* LabVIEW creates an array of empty strings, sets a string in one, and      *)
(* disposes of the array with everything in it.                              *)
LVCreate(v, h) ==
  /\ handle[v] = Null
  /\ Allocate(h, [i \in Index |-> Null])
  /\ handle' = [handle EXCEPT ![v] = h]
  /\ UNCHANGED history

LVSet(v, i, h, d) ==
  /\ Reaches(v) /\ Elem(v, i) = Null /\ h \in Handle \ live
  /\ live' = live \cup {h}
  /\ data' = [data EXCEPT ![handle[v]][i] = h, ![h] = d]
  /\ UNCHANGED <<handle, history>>

LVDispose(v) ==
  /\ handle[v] # Null
  /\ LET gone == {handle[v]} \cup {Elem(v, i) : i \in Index} IN
       /\ live' = live \ gone
       /\ data' = [h \in Handle |-> IF h \in gone THEN Uninit ELSE data[h]]
  /\ handle' = [handle EXCEPT ![v] = Null]
  /\ UNCHANGED history

-----------------------------------------------------------------------------
(* LStrOwned::from_data. *)
FromData(s, h, d) ==
  /\ handle[s] = Null
  /\ Allocate(h, d)
  /\ handle' = [handle EXCEPT ![s] = h]
  /\ UNCHANGED history

(* set_str on a variable, and on an element of data_as_slice_mut. *)
SetText(s, d) ==
  /\ DSSetHandleSize(handle[s], d)
  /\ UNCHANGED <<handle, history>>

SetElem(p, i, d) ==
  /\ DSSetHandleSize(Elem(p, i), d)
  /\ Record("through", Through(p))
  /\ UNCHANGED <<handle, orphaned>>

(* Faulty variant: the elements are dropped with the array. *)
DropDeep(x) ==
  /\ handle[x] # Null
  /\ LET gone == {handle[x]} \cup {IF x \in Arr THEN Elem(x, i) ELSE Null : i \in Index} IN
       /\ live' = live \ gone
       /\ data' = [h \in Handle |-> IF h \in gone THEN Uninit ELSE data[h]]
  /\ handle' = [handle EXCEPT ![x] = Null]
  /\ UNCHANGED history

(* Drop for OwnedUHandle: the manager is handed one pointer, so the elements *)
(* of an array are not dropped.  Where nothing is allocated it reports an    *)
(* error, which is printed.                                                  *)
Drop(x) ==
  /\ handle[x] # Null
  /\ live' = live \ {handle[x]}
  /\ data' = [data EXCEPT ![handle[x]] = Uninit]
  /\ handle' = [handle EXCEPT ![x] = Null]
  /\ orphaned' = orphaned \cup
       (IF x \in Arr THEN {Elem(x, i) : i \in Index} \ {Null} ELSE {})
  /\ UNCHANGED raw

(* The blocks after new was put into element i, and the block old was freed. *)
Placed(p, i, new, old) ==
  [h \in Handle |-> IF h = handle[p] THEN [data[h] EXCEPT ![i] = new]
                    ELSE IF h = old THEN Uninit ELSE data[h]]

(* Faulty variant: the string is copied into the array, not moved. *)
AssignCopies(p, i, s) ==
  /\ Reaches(p)
  /\ live' = live \ {Elem(p, i)}
  /\ data' = Placed(p, i, handle[s], Elem(p, i))
  /\ Record("through", Through(p))
  /\ UNCHANGED <<handle, orphaned>>

(* Faulty variant: the old element is written over, not dropped. *)
AssignForgets(p, i, s) ==
  /\ Reaches(p)
  /\ data' = Placed(p, i, handle[s], Null)
  /\ handle' = [handle EXCEPT ![s] = Null]
  /\ Record("through", Through(p))
  /\ UNCHANGED <<live, orphaned>>

(* data_as_slice_mut()[i] = s: the old element is dropped, s moves in. *)
Assign(p, i, s) ==
  /\ Reaches(p)
  /\ live' = live \ {Elem(p, i)}
  /\ data' = Placed(p, i, handle[s], Elem(p, i))
  /\ handle' = [handle EXCEPT ![s] = Null]
  /\ Record("through", Through(p))
  /\ UNCHANGED orphaned

(* Faulty variant: the old string moves out and is dropped as well. *)
SwapDrops(p, i, s) ==
  /\ Reaches(p)
  /\ live' = live \ {Elem(p, i)}
  /\ data' = Placed(p, i, handle[s], Elem(p, i))
  /\ handle' = [handle EXCEPT ![s] = Elem(p, i)]
  /\ Record("through", Through(p))
  /\ UNCHANGED orphaned

(* mem::swap or mem::replace on an element: the old string moves out. *)
Swap(p, i, s) ==
  /\ Reaches(p)
  /\ data' = Placed(p, i, handle[s], Null)
  /\ handle' = [handle EXCEPT ![s] = Elem(p, i)]
  /\ Record("through", Through(p))
  /\ UNCHANGED <<live, orphaned>>

-----------------------------------------------------------------------------
(* try_to_owned, try_clone and clone of the array: LVArray is LVCopy whatever *)
(* its elements are, and copy_handle copies the block.                        *)
Clone(p, a, h) ==
  /\ Reaches(p) /\ handle[a] = Null
  /\ Allocate(h, data[handle[p]])
  /\ handle' = [handle EXCEPT ![a] = h]
  /\ Record("clone", \E i \in Index : Elem(p, i) # Null)
  /\ UNCHANGED orphaned

(* get_value_unchecked: a T read out of the block, which stays where it was. *)
Get(p, i, s) ==
  /\ Reaches(p) /\ handle[s] = Null
  /\ handle' = [handle EXCEPT ![s] = Elem(p, i)]
  /\ Record("get", Elem(p, i) # Null)
  /\ UNCHANGED <<live, data, orphaned>>

(* set_value_unchecked: a T moved into the block without a drop. *)
Set(p, i, s) ==
  /\ Reaches(p)
  /\ data' = Placed(p, i, handle[s], Null)
  /\ handle' = [handle EXCEPT ![s] = Null]
  /\ Record("set", Elem(p, i) # Null)
  /\ UNCHANGED <<live, orphaned>>

-----------------------------------------------------------------------------
LabVIEW ==
  \E v \in Terminal :
    \/ \E h \in Handle : LVCreate(v, h)
    \/ \E i \in Index, h \in Handle, d \in Text : LVSet(v, i, h, d)
    \/ LVDispose(v)

Rust ==
  \/ \E s \in Str, h \in Handle, d \in Text : FromData(s, h, d)
  \/ \E s \in Str, d \in Text : SetText(s, d)
  \/ \E p \in Holder, i \in Index, d \in Text : SetElem(p, i, d)
  \/ \E x \in Arr \cup Str : Drop(x)
  \/ \E p \in Holder, i \in Index, s \in Str : Assign(p, i, s) \/ Swap(p, i, s)
  \/ \E p \in Holder, a \in Arr, h \in Handle : Clone(p, a, h)
  \/ \E p \in Holder, i \in Index, s \in Str : Get(p, i, s) \/ Set(p, i, s)

Next == LabVIEW \/ Rust

Spec == Init /\ [][Next]_vars

-----------------------------------------------------------------------------
(* The owners among the elements of some holders P and the variables: no two  *)
(* of them own one block.                                                     *)
Apart(P) ==
  /\ \A s, t \in Str : s # t /\ handle[s] = handle[t] => handle[s] = Null
  /\ \A p, q \in P, i, j \in Index :
       <<p, i>> # <<q, j>> /\ Elem(p, i) = Elem(q, j) => Elem(p, i) = Null
  /\ \A p \in P, i \in Index, s \in Str : Elem(p, i) = handle[s] => handle[s] = Null

(* What they point to is allocated and is a string. *)
Intact(P) ==
  /\ \A s \in Str : handle[s] # Null => handle[s] \in live /\ data[handle[s]] \in Text
  /\ \A p \in P, i \in Index :
       Elem(p, i) # Null => Elem(p, i) \in live /\ data[Elem(p, i)] \in Text

(* Nobody but its holder has an array, and the holder finds it there. *)
ArraysHeld ==
  /\ \A p, q \in Holder : p # q /\ handle[p] = handle[q] => handle[p] = Null
  /\ \A p \in Holder : handle[p] # Null => Reaches(p)

(* "This will manage the lifetime and free the handle on drop": of every   *)
(* string there is one owner, be it a variable or an element of an array,  *)
(* however strings move in, out and between arrays, until one is copied as *)
(* plain bytes.                                                            *)
OwnedOnce == raw = {} => Apart(Holder)

(* Until then whatever a variable or an element points to is allocated and *)
(* is a string, and an array is an array, after any sequence of moves,     *)
(* drops, disposals by LabVIEW and recycled addresses.                     *)
OwnersUsable == raw = {} => ArraysHeld /\ Intact(Holder)

(* "Free the handle on drop" is not so for what an array holds: Drop looks  *)
(* at one pointer.  These are the only blocks lost: every other one that is *)
(* allocated has an owner that can still drop it.                           *)
LostOnlyWithArray ==
  raw = {} =>
    live \subseteq orphaned \cup {handle[p] : p \in Place}
                            \cup {Elem(p, i) : p \in Holder, i \in Index}

(* A clone that is only read, cloned again and dropped harms nobody: the   *)
(* terminals and the variables keep what they own and own it alone, though *)
(* the clone may point to freed or recycled blocks and never knows it.     *)
SourceSurvivesClone ==
  raw \subseteq {"clone"} => ArraysHeld /\ Apart(Terminal) /\ Intact(Terminal)

(* "The type must be LVCopy to ensure it is safe to clone", and LVArray is  *)
(* LVCopy: a program that clones arrays and leaves the unsafe accesses      *)
(* alone has no element or variable that points to a freed or foreign block. *)
CloneIsSafe == raw \subseteq {"clone", "through"} => ArraysHeld /\ Intact(Holder)
=============================================================================
