---------------------------- MODULE SharedCluster ----------------------------
(***************************************************************************)
(* One error cluster and the threads that hold a pointer to it             *)
(* (memory/uptr.rs, types/lv_errors.rs).  ErrorCluster takes a wrapped     *)
(* call as one step; here it is the steps of the code: the checks, the     *)
(* closure, and the three writes of set_error or set_warning, the last of  *)
(* which resizes the source string.  The cluster of ErrorCluster is the    *)
(* one that a caller is shown when its call returns; memory is the one     *)
(* that the steps in between write.                                        *)
(*                                                                         *)
(* A call borrows its UPtr mutably, so two calls through one UPtr never    *)
(* overlap.  But UPtr is Copy, Send and Sync: a thread, or the closure of  *)
(* a call, may as well have a copy, which is a UPtr of its own and which   *)
(* nothing keeps apart from the others.                                    *)
(***************************************************************************)
EXTENDS ErrorCluster

CONSTANTS
  Thread,    \* those who call: threads, or a closure within its caller's thread
  Via        \* Via[t]: the UPtr t calls through, to the one cluster there is

VARIABLES
  memory,    \* the ErrorCluster in LabVIEW's memory
  frame,     \* the call each thread is in
  offered,   \* history: the errors whose writing has begun, and LabVIEW's own
  overlap    \* history: a code was written over that of a call yet to write status

sharedVars == <<memory, frame, offered, overlap, cluster, last, first>>
shown == <<cluster, last, first>>

(* err is the outcome of the closure, or the error to write. *)
Frame == [pc : {"idle", "again", "skipped", "run", "code", "status", "source", "return"},
          op : {"none", "wrap", "status", "write"}, err : Outcome]

Idle == [pc |-> "idle", op |-> "none", err |-> Ok]

(* What a reader makes of a cluster, and of an error. *)
Reads(c) == [code |-> c.code, is_error |-> IsErr(c)]
Tells(e) == [code |-> e.code, is_error |-> e.is_error]

SharedTypeOK ==
  /\ memory \in Cluster
  /\ frame \in [Thread -> Frame]
  /\ \A t \in Thread : frame[t].pc = "idle" => frame[t] = Idle
  /\ overlap \in BOOLEAN
  /\ TypeOK

SharedInit ==
  /\ Init
  /\ memory = cluster
  /\ frame = [t \in Thread |-> Idle]
  /\ offered = {Reads(cluster)}
  /\ overlap = FALSE

Quiet == \A t \in Thread : frame[t].pc = "idle"

(* The &mut self of a call: it has the one UPtr to itself, not its copies. *)
Borrow(t) == \A u \in Thread : Via[u] = Via[t] => frame[u].pc = "idle"

Goto(t, pc) == frame' = [frame EXCEPT ![t].pc = pc]

-----------------------------------------------------------------------------
(* wrap_function, or wrap_return_status, which looks at the cluster and calls *)
(* wrap_function, which looks again: an error there ends the call.            *)
Enter(t, op) ==
  /\ frame[t].pc = "idle" /\ Borrow(t)
  /\ frame' = [frame EXCEPT ![t] =
                 [pc  |-> IF IsErr(memory) THEN "skipped"
                          ELSE IF op = "status" THEN "again" ELSE "run",
                  op  |-> op,
                  err |-> Ok]]
  /\ UNCHANGED <<memory, offered, overlap, shown>>

LookAgain(t) ==
  /\ frame[t].pc = "again"
  /\ Goto(t, IF IsErr(memory) THEN "skipped" ELSE "run")
  /\ UNCHANGED <<memory, offered, overlap, shown>>

(* write_error called by the library itself. *)
EnterWrite(t, e) ==
  /\ frame[t].pc = "idle" /\ Borrow(t)
  /\ frame' = [frame EXCEPT ![t] = [pc |-> "code", op |-> "write", err |-> Err(e)]]
  /\ UNCHANGED <<memory, offered, overlap, shown>>

(* The closure runs and has this outcome. *)
Closure(t, outcome) ==
  /\ frame[t].pc = "run"
  /\ frame' = [frame EXCEPT ![t] = [pc |-> IF IsOk(outcome) THEN "return" ELSE "code",
                                    op |-> frame[t].op, err |-> outcome]]
  /\ UNCHANGED <<memory, offered, overlap, shown>>

(* set_error and set_warning. *)
Error(t) == frame[t].err[1]

SetCode(t) ==
  /\ frame[t].pc = "code"
  /\ memory' = [memory EXCEPT !.code = Error(t).code]
  /\ Goto(t, "status")
  /\ offered' = offered \cup {Tells(Error(t))}
  /\ overlap' = (overlap \/ \E u \in Thread : frame[u].pc = "status")
  /\ UNCHANGED shown

SetStatus(t) ==
  /\ frame[t].pc = "status"
  /\ memory' = [memory EXCEPT !.status =
                   IF Error(t).is_error THEN LV_TRUE ELSE LV_FALSE]
  /\ Goto(t, "source")
  /\ UNCHANGED <<offered, overlap, shown>>

(* set_source: without memory for the text the old one stays, and the Err of *)
(* set_str is handed to the caller of write_error.                           *)
SetSource(t, stored) ==
  /\ frame[t].pc = "source"
  /\ memory' = IF stored THEN [memory EXCEPT !.source = Error(t).text] ELSE memory
  /\ Goto(t, "return")
  /\ UNCHANGED <<offered, overlap, shown>>

Leave(t) == frame' = [frame EXCEPT ![t] = Idle]

(* The call returns: the fallback or the closure's value, for *)
(* wrap_return_status the code the cluster holds by now.      *)
ReturnSkipped(t) ==
  /\ frame[t].pc = "skipped"
  /\ cluster' = memory
  /\ last' = [Skipped(frame[t].op) EXCEPT !.status =
                IF frame[t].op = "status" THEN memory.code ELSE SUCCESS]
  /\ Leave(t)
  /\ UNCHANGED <<memory, offered, overlap, first>>

Return(t) ==
  LET f == frame[t] IN
  /\ f.pc = "return"
  /\ cluster' = memory
  /\ IF f.op = "write"
     THEN /\ last' = [NoCall EXCEPT !.op = "write"]
          /\ first' = Ok
     ELSE /\ last' = Ran(f.op, f.err, SUCCESS, memory)
          /\ first' = IF IsOk(first) /\ ~IsOk(f.err) /\ f.err[1].is_error THEN f.err ELSE first
  /\ Leave(t)
  /\ UNCHANGED <<memory, offered, overlap>>

(* The calls of a node have returned and LabVIEW writes the cluster. *)
LabVIEWReplaces(c) ==
  /\ Quiet
  /\ memory' = c /\ cluster' = c
  /\ offered' = {Reads(c)}
  /\ overlap' = FALSE
  /\ UNCHANGED frame
  /\ last' = [NoCall EXCEPT !.op = "labview"]
  /\ first' = Ok

-----------------------------------------------------------------------------
Start(t) ==
  \/ \E op \in {"wrap", "status"} : Enter(t, op)
  \/ \E e \in ToLvError : EnterWrite(t, e)

Continue(t) ==
  \/ LookAgain(t)
  \/ \E outcome \in Outcome : Closure(t, outcome)
  \/ SetCode(t) \/ SetStatus(t)
  \/ \E stored \in BOOLEAN : SetSource(t, stored)
  \/ ReturnSkipped(t) \/ Return(t)

SharedNext ==
  \/ \E t \in Thread : Start(t) \/ Continue(t)
  \/ \E c \in Cluster : LabVIEWReplaces(c)

SharedSpec == SharedInit /\ [][SharedNext]_sharedVars

-----------------------------------------------------------------------------
OnePointer == \A t, u \in Thread : Via[t] = Via[u]

(* "No execution on error in, convert return errors into error cluster": a *)
(* call taken in its steps is the single step of ErrorCluster, with all     *)
(* that is proved of it, where everybody calls through one UPtr.            *)
RefinesErrorCluster == Spec

(* "UPtr memory is managed by the Labview Memory Manager, which is thread  *)
(* safe": once the calls have returned, the code and the severity in the   *)
(* cluster are those of one error that was to be written, or LabVIEW's.    *)
OneError == Quiet => Reads(memory) \in offered

(* For that it takes a call that writes its code while another is between  *)
(* its own code and its own status: closures that overlap, and calls that  *)
(* overlap without failing, do no harm.                                    *)
TornOnlyByOverlap == overlap \/ OneError
=============================================================================
