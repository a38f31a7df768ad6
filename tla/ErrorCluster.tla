---------------------------- MODULE ErrorCluster ----------------------------
(***************************************************************************)
(* Error clusters (types/lv_errors.rs).  One cluster travels along a       *)
(* LabVIEW wire through a chain of calls into Rust.  A call goes through   *)
(* wrap_function or wrap_return_status around a closure, or writes the     *)
(* cluster itself with write_error.  Between two calls LabVIEW may put     *)
(* anything into the cluster.                                              *)
(*                                                                         *)
(* A closure often makes one call of the memory manager and hands its      *)
(* status on as a Result, with to_specific_result(())? or the generic one; *)
(* a function without a cluster turns such a Result into the status it     *)
(* returns.                                                                *)
(*                                                                         *)
(* A closure's outcome is Ok, or an error that implements ToLvError: its   *)
(* code(), is_error() and the text that source() and description() give.   *)
(* The text is opaque; format_error_source only lays it out.               *)
(***************************************************************************)
EXTENDS StatusCodes

CONSTANTS
  Text,      \* the texts an error or LabVIEW can put into source
  Byte       \* the values of a LabVIEW Boolean: 0 is false, any other is true

ASSUME ClusterAssumption == {0, 1} \subseteq Byte /\ BogusError \in Code

VARIABLES
  cluster,   \* the ErrorCluster: status, code, source
  last,      \* the last call: which operation, did its closure run, what it
             \* returned, and the status the memory manager gave it
  first      \* history: the first error a closure returned since LabVIEW wrote

vars == <<cluster, last, first>>

LV_FALSE == 0

(* Faulty variant: the true of a COM VARIANT_BOOL. *)
VARIANT_TRUE == -1

LV_TRUE == 1
ToBool(b) == b # LV_FALSE

Cluster == [status : Byte, code : Code, source : Text]

(* A value of a type that implements ToLvError. *)
ToLvError == [code : Code, is_error : BOOLEAN, text : Text]
(* impl ToLvError for LVInteropError: always an error, with the code of the enum. *)
Reported(r, text) ==
  IF IsOk(r) THEN Ok ELSE Err([code |-> CodeOf(r[1]), is_error |-> TRUE, text |-> text])

Outcome == {Ok} \cup {Err(e) : e \in ToLvError}

IsErr(c) == ToBool(c.status)

NoCall == [op |-> "none", ran |-> FALSE, outcome |-> Ok, fallback |-> FALSE,
           status |-> SUCCESS, manager |-> SUCCESS]

Call == [op : {"none", "labview", "wrap", "status", "write", "result"},
         ran : BOOLEAN, outcome : Outcome, fallback : BOOLEAN,
         status : Code, manager : Code]

TypeOK ==
  /\ cluster \in Cluster
  /\ last \in Call
  /\ first \in Outcome

Init ==
  /\ cluster \in Cluster
  /\ last = NoCall
  /\ first = Ok

-----------------------------------------------------------------------------
(* Faulty variant: set_source first, and out through ? when it fails. *)
WrittenSourceFirst(c, e, stored) ==
  IF stored
  THEN [status |-> IF e.is_error THEN LV_TRUE ELSE LV_FALSE, code |-> e.code, source |-> e.text]
  ELSE c

(* write_error by way of set_error or set_warning: code and status first, then *)
(* set_source, which resizes the source string and may fail.                   *)
Written(c, e, stored) ==
  [status |-> IF e.is_error THEN LV_TRUE ELSE LV_FALSE,
   code   |-> e.code,
   source |-> IF stored THEN e.text ELSE c.source]

(* What a wrapped call leaves in last: its closure ran and the cluster is now c, *)
(* or it returned at once.  wrap_return_status hands back the code it finds.     *)
Ran(op, outcome, m, c) ==
  [op |-> op, ran |-> TRUE, outcome |-> outcome, fallback |-> ~IsOk(outcome),
   status |-> IF op = "status" THEN c.code ELSE SUCCESS, manager |-> m]
Skipped(op) ==
  [op |-> op, ran |-> FALSE, outcome |-> Ok, fallback |-> TRUE,
   status |-> IF op = "status" THEN cluster.code ELSE SUCCESS, manager |-> SUCCESS]

(* Faulty variants: no look at the error coming in; a clean code after Ok. *)
RunAlways(op, outcome, m, stored) ==
  /\ cluster' = IF IsOk(outcome) THEN cluster ELSE Written(cluster, outcome[1], stored)
  /\ last' = Ran(op, outcome, m, cluster')
RunClears(op, outcome, m, stored) ==
  /\ ~IsErr(cluster)
  /\ cluster' = IF IsOk(outcome) THEN [cluster EXCEPT !.code = SUCCESS]
                ELSE Written(cluster, outcome[1], stored)
  /\ last' = Ran(op, outcome, m, cluster')

(* The closure is called, and the result of write_error is dropped. *)
Run(op, outcome, m, stored) ==
  /\ ~IsErr(cluster)
  /\ cluster' = IF IsOk(outcome) THEN cluster ELSE Written(cluster, outcome[1], stored)
  /\ last' = Ran(op, outcome, m, cluster')

(* wrap_function ("wrap") or wrap_return_status ("status") on a closure with *)
(* this outcome; stored tells whether the source string can be resized.      *)
Wrap(op, outcome, m, stored) ==
  \/ /\ IsErr(cluster)
     /\ last' = Skipped(op)
     /\ UNCHANGED <<cluster, first>>
  \/ /\ Run(op, outcome, m, stored)
     /\ first' = IF IsOk(first) /\ ~IsOk(outcome) /\ outcome[1].is_error
                 THEN outcome ELSE first

(* The closure makes a call of the memory manager, which answers m, and hands *)
(* on the Result r it is converted to.                                        *)
WrapManagerCall(op, m, r, text, stored) ==
  Wrap(op, Reported(r, text), m, stored)

(* A function without error cluster: its Result becomes its status.  It is what *)
(* became of the manager's status m, or an error of its own (m is SUCCESS).     *)
ReturnResult(m, r) ==
  /\ last' = [NoCall EXCEPT !.op = "result", !.status = StatusOf(r), !.manager = m]
  /\ UNCHANGED <<cluster, first>>

(* write_error called by the library itself, whatever the cluster holds. *)
WriteError(e, stored) ==
  /\ cluster' = Written(cluster, e, stored)
  /\ last' = [NoCall EXCEPT !.op = "write"]
  /\ first' = Ok

(* LabVIEW passes on, clears or replaces the cluster. *)
LabVIEW(c) ==
  /\ cluster' = c
  /\ last' = [NoCall EXCEPT !.op = "labview"]
  /\ first' = Ok

Next ==
  \/ \E op \in {"wrap", "status"}, outcome \in Outcome, stored \in BOOLEAN :
       Wrap(op, outcome, SUCCESS, stored)
  \/ \E op \in {"wrap", "status"}, m \in Code, text \in Text, stored \in BOOLEAN :
       \E r \in Converted(m) : WrapManagerCall(op, m, r, text, stored)
  \/ \E m \in Code : \E r \in Converted(m) : ReturnResult(m, r)
  \/ \E r \in Result : ReturnResult(SUCCESS, r)
  \/ \E e \in ToLvError, stored \in BOOLEAN : WriteError(e, stored)
  \/ \E c \in Cluster : LabVIEW(c)

Spec == Init /\ [][Next]_vars

-----------------------------------------------------------------------------
(* "No execution on error in": along a chain of wrapped calls the cluster  *)
(* goes on reporting the first error of the chain, whatever the later      *)
(* closures would have returned and whether or not its text could be kept. *)
FirstErrorWins ==
  ~IsOk(first) => IsErr(cluster) /\ cluster.code = first[1].code

(* "Convert return errors into error cluster": when a closure fails, the   *)
(* caller gets the fallback and the cluster holds its code and severity,   *)
(* also when there is no memory for the text and write_error's Err is lost. *)
FailureIsRecorded ==
  last.ran /\ ~IsOk(last.outcome) =>
    /\ last.fallback
    /\ cluster.code = last.outcome[1].code
    /\ IsErr(cluster) = last.outcome[1].is_error

(* A failure the memory manager reports reaches LabVIEW as a failure, under *)
(* its own code if MgError has it, through whichever of the return paths.   *)
ManagerFailureVisible ==
  last.manager # SUCCESS =>
    LET c == IF last.op = "result" THEN last.status ELSE cluster.code
    IN  /\ c # SUCCESS
        /\ last.manager \in MgCode => c = last.manager
        /\ last.op # "result" => IsErr(cluster)

(* A wrapped call changes the cluster only to record a failure of its own: *)
(* errors and warnings that come in pass through untouched.                *)
UntouchedUnlessFailed ==
  [][last'.op \in {"wrap", "status"} /\ cluster' # cluster =>
       last'.ran /\ ~IsOk(last'.outcome)]_vars
=============================================================================
