---------------------------- MODULE MemoryManager ----------------------------
(***************************************************************************)
(* The LabVIEW memory manager, as the crate sees it through the function   *)
(* table MemoryApi (labview.rs).  It is not part of the repository: every  *)
(* operator below states what the doc comment of the table's entry says    *)
(* the function does, restricted to what the crate relies on.              *)
(*                                                                         *)
(* A handle is the address of a relocatable block.  The manager is thread  *)
(* safe (uhandle.rs, the comment on the Send and Sync impls), so each      *)
(* function is one atomic step.  A function that reports mFullErr or       *)
(* mZoneErr, or returns NULL, leaves live and data unchanged.              *)
(***************************************************************************)
CONSTANTS
  Handle,    \* the addresses DSNewHandle can return
  Foreign,   \* non-null double pointers the manager never issued
  Data,      \* the values a block can be initialised with
  Uninit,    \* the content of a block nobody has written yet
  Null       \* the null handle

ASSUME MemoryAssumption ==
  /\ Null \notin Handle \cup Foreign \cup Data
  /\ Handle \cap Foreign = {}
  /\ Uninit \notin Data

VARIABLES
  live,      \* the handles that are allocated
  data       \* the content of every block; Uninit where nothing is allocated

(* Allocate a block whose first content is d; the address may be a recycled one. *)
Allocate(h, d) ==
  /\ h \in Handle \ live
  /\ live' = live \cup {h}
  /\ data' = [data EXCEPT ![h] = d]

(* "Creates a new handle ...  The allocated memory is uninitialized." *)
DSNewHandle(h) == Allocate(h, Uninit)

(* "Verifies that the specified handle is a handle." *)
DSCheckHandle(h) == h \in live

(* "Changes the size of the block": noErr only for a handle of the manager. *)
(* The caller writes the new content d before anybody else can see the block. *)
DSSetHandleSize(h, d) ==
  /\ h \in live
  /\ data' = [data EXCEPT ![h] = d]
  /\ UNCHANGED live

(* "Copies the data referenced by hsrc into the handle pointed to by ph or *)
(* a new handle if ph points to NULL."  out is what ph points to afterwards. *)
DSCopyHandle(ph, hsrc, out) ==
  /\ hsrc \in live
  /\ \/ ph = Null /\ Allocate(out, data[hsrc])
     \/ /\ ph \in live
        /\ out = ph
        /\ data' = [data EXCEPT ![ph] = data[hsrc]]
        /\ UNCHANGED live

(* "Releases the memory referenced by the specified handle." *)
DSDisposeHandle(h) ==
  /\ h \in live
  /\ live' = live \ {h}
  /\ data' = [data EXCEPT ![h] = Uninit]
=============================================================================
