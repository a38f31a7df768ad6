----------------------------- MODULE StatusCodes -----------------------------
(***************************************************************************)
(* Status codes and errors (errors.rs, types/lv_status.rs).  LabVIEW       *)
(* reports with an i32, Rust with a Result whose error is one of three     *)
(* kinds; both directions of the conversion are below.                     *)
(***************************************************************************)
EXTENDS Integers

CONSTANT Code    \* the i32 values that occur

SUCCESS == 0

(* enum MgError: what the memory manager may return. *)
MgCode ==
  (1..2) \cup (4..76) \cup (81..85) \cup (87..97) \cup (102..103) \cup (108..113) \cup
  (116..122)
BogusError == 42

(* enum InternalError. *)
InvalidMgErrorCode == 542006
InternalCode == 542000..542006

ASSUME CodeAssumption == Code \subseteq Int /\ {SUCCESS, InvalidMgErrorCode} \subseteq Code

(* enum LVInteropError: an error of the manager, of the crate, or any code. *)
LVInteropError ==
  [kind : {"mg"}, code : Code \cap MgCode] \cup
  [kind : {"internal"}, code : Code \cap InternalCode] \cup
  [kind : {"lv"}, code : Code]

(* A Result: Ok carries nothing the conversions look at. *)
Ok == <<>>
Err(e) == <<e>>
IsOk(r) == r = Ok
Result == {Ok} \cup {Err(e) : e \in LVInteropError}

(* Faulty variant: SUCCESS stands in for a code the enum does not have. *)
MgErrorOrSuccess(c) ==
  IF c \in MgCode THEN [kind |-> "mg", code |-> c] ELSE [kind |-> "lv", code |-> SUCCESS]

(* impl TryFrom<LVStatusCode> for MgError, as the error to_specific_result makes. *)
MgErrorOf(c) ==
  IF c \in MgCode THEN [kind |-> "mg", code |-> c]
  ELSE [kind |-> "internal", code |-> InvalidMgErrorCode]

to_specific_result(c) == IF c = SUCCESS THEN Ok ELSE Err(MgErrorOf(c))

to_generic_result(c) == IF c = SUCCESS THEN Ok ELSE Err([kind |-> "lv", code |-> c])

(* The Results a status can be handed on as. *)
Converted(c) == {to_specific_result(c), to_generic_result(c)}

(* impl From<&LVInteropError> for LVStatusCode. *)
CodeOf(e) == e.code

(* impl From<Result<T>> for LVStatusCode. *)
StatusOf(r) == IF IsOk(r) THEN SUCCESS ELSE CodeOf(r[1])
=============================================================================
