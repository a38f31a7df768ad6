------------------------------ MODULE LazyCell ------------------------------
(***************************************************************************)
(* What memory_api() and sync_api() promise to the rest of the crate: the  *)
(* first call decides, and every later call gets the answer it cached.     *)
(***************************************************************************)
VARIABLE api    \* "unset", or the result of the first call: "ok" or "err"

CellInit == api = "unset"

(* Faulty variant: a static that runs its initialiser on every call. *)
MemoryApiRetried(r) == r \in {"ok", "err"} /\ api' = r

(* memory_api() returns r. *)
MemoryApi(r) ==
  /\ r \in {"ok", "err"}
  /\ api \in {"unset", r}
  /\ api' = r

CellSpec == CellInit /\ [][\E r \in {"ok", "err"} : MemoryApi(r)]_api
=============================================================================
