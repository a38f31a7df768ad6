------------------------ MODULE OwnedHandleRefinement ------------------------
(***************************************************************************)
(* The handles of OwnedHandle, pointers into one shared heap, implement    *)
(* the separate values of ValueSemantics.                                  *)
(***************************************************************************)
EXTENDS OwnedHandle

(* What Deref shows through the pointer of a place. *)
ValueOf(p) == IF handle[p] \in live THEN data[handle[p]] ELSE Null
Values == [p \in Place |-> ValueOf(p)]

(* The clones some thread has begun and not finished. *)
Cloning == {t \in Thread : call[t].src # Null}
Clones == {<<call[t].src, call[t].dst>> : t \in Cloning}

Abstract == INSTANCE ValueSemantics WITH None <- Null, value <- Values, pending <- Clones

(* OwnedUHandle "is transparent with the handle data" and try_clone gives a *)
(* handle with a copy: pointers, shared allocation and steps interleaved    *)
(* between threads never show through the values.                           *)
RefinesValues == Abstract!Spec
=============================================================================
