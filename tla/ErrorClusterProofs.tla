------------------------- MODULE ErrorClusterProofs -------------------------
(***************************************************************************)
(* Proofs about ErrorCluster for every set of codes, texts and bytes, and  *)
(* about SharedCluster for every set of threads and of copies besides.     *)
(*                                                                         *)
(* FirstErrorWins, FailureIsRecorded and ManagerFailureVisible are state   *)
(* predicates over the history variables last and first; together with     *)
(* the types they are inductive (IInv).                                    *)
(*                                                                         *)
(* OneError does not hold of calls through copies.  TornOnlyByOverlap      *)
(* does; it says nothing while a call is under way, and Whole adds what    *)
(* the cluster then is.  The refinement needs to know at Return what the   *)
(* cluster was at Enter: Progress says so for every place a call can be    *)
(* at, where Alone holds, which is what a single pointer gives.            *)
(***************************************************************************)
EXTENDS SharedCluster, TLAPS

(* A status the manager returns becomes an error exactly when it is not    *)
(* SUCCESS; that error's code is never SUCCESS again, and it is the        *)
(* manager's own when the enum MgError has it.                             *)
LEMMA ConvertedCode ==
  ASSUME NEW m \in Code, NEW r \in Converted(m)
  PROVE  /\ m = SUCCESS => r = Ok
         /\ m # SUCCESS =>
              /\ ~IsOk(r)
              /\ CodeOf(r[1]) \in Code \ {SUCCESS}
              /\ m \in MgCode => CodeOf(r[1]) = m
<1> USE CodeAssumption DEF Converted, to_specific_result, to_generic_result
<1>1. CASE m = SUCCESS
  BY <1>1
<1>2. CASE m # SUCCESS /\ r = to_generic_result(m)
  BY <1>2 DEF Ok, Err, IsOk, CodeOf
<1>3. CASE m # SUCCESS /\ r = to_specific_result(m) /\ m \in MgCode
  BY <1>3 DEF Ok, Err, IsOk, CodeOf, MgErrorOf
<1>4. CASE m # SUCCESS /\ r = to_specific_result(m) /\ m \notin MgCode
  BY <1>4 DEF Ok, Err, IsOk, CodeOf, MgErrorOf, SUCCESS, InvalidMgErrorCode
<1> QED
  BY <1>1, <1>2, <1>3, <1>4

(* The status a function without error cluster returns is a failure exactly *)
(* when the manager reported one.                                           *)
LEMMA StatusOfConverted ==
  ASSUME NEW m \in Code, NEW r \in Converted(m)
  PROVE  /\ StatusOf(r) \in Code
         /\ m # SUCCESS => StatusOf(r) # SUCCESS
         /\ m \in MgCode /\ m # SUCCESS => StatusOf(r) = m
<1>1. CASE m = SUCCESS
  BY <1>1, ConvertedCode, CodeAssumption DEF StatusOf, IsOk
<1>2. CASE m # SUCCESS
  BY <1>2, ConvertedCode DEF StatusOf
<1> QED
  BY <1>1, <1>2

(* Any Result has a status, of its own kind of error or SUCCESS. *)
LEMMA StatusOfResult ==
  ASSUME NEW r \in Result
  PROVE  StatusOf(r) \in Code
BY CodeAssumption DEF Result, LVInteropError, StatusOf, CodeOf, IsOk, Ok, Err

(* Through ToLvError a Result of the library is an outcome, and an error of *)
(* the library is always reported as an error, never as a warning.          *)
LEMMA ReportedOutcome ==
  ASSUME NEW m \in Code, NEW r \in Converted(m), NEW text \in Text
  PROVE  /\ m = SUCCESS => Reported(r, text) = Ok
         /\ m # SUCCESS => \E e \in ToLvError :
              /\ Reported(r, text) = Err(e)
              /\ e.is_error /\ e.code # SUCCESS
              /\ m \in MgCode => e.code = m
<1>1. CASE m = SUCCESS
  BY <1>1, ConvertedCode DEF Reported, IsOk
<1>2. CASE m # SUCCESS
  <2> DEFINE e == [code |-> CodeOf(r[1]), is_error |-> TRUE, text |-> text]
  <2>1. Reported(r, text) = Err(e)
    BY <1>2, ConvertedCode DEF Reported
  <2>2. /\ e \in ToLvError /\ e.code # SUCCESS
        /\ m \in MgCode => e.code = m
    BY <1>2, ConvertedCode DEF ToLvError
  <2> HIDE DEF e
  <2>3. e.is_error
    BY DEF e
  <2> QED
    BY <1>2, <2>1, <2>2, <2>3
<1> QED
  BY <1>1, <1>2

(* write_error leaves a well-formed cluster with the code and the severity *)
(* of the error, whether or not its text could be stored.                  *)
LEMMA WrittenCluster ==
  ASSUME NEW c \in Cluster, NEW e \in ToLvError, NEW stored \in BOOLEAN
  PROVE  /\ Written(c, e, stored) \in Cluster
         /\ Written(c, e, stored).code = e.code
         /\ IsErr(Written(c, e, stored)) = e.is_error
BY ClusterAssumption DEF Written, Cluster, ToLvError, IsErr, ToBool, LV_TRUE, LV_FALSE

IInv ==
  /\ TypeOK
  /\ FirstErrorWins
  /\ FailureIsRecorded
  /\ ManagerFailureVisible

(* The error e a closure returned accounts for the status m of the manager. *)
Stands(m, e) ==
  m # SUCCESS =>
    /\ e.is_error /\ e.code # SUCCESS
    /\ m \in MgCode => e.code = m

(* The types of what a call leaves in last. *)
LEMMA CallType ==
  ASSUME NEW op \in {"wrap", "status"}, NEW outcome \in Outcome, NEW m \in Code,
         NEW c \in Cluster, cluster \in Cluster
  PROVE  Ran(op, outcome, m, c) \in Call /\ Skipped(op) \in Call
BY CodeAssumption DEF Call, Ran, Skipped, Cluster, Outcome, IsOk

(* A wrapped call whose closure returns Ok changes nothing that is recorded. *)
LEMMA WrapOkStep ==
  ASSUME IInv, NEW op \in {"wrap", "status"}, NEW stored \in BOOLEAN,
         Wrap(op, Ok, SUCCESS, stored)
  PROVE  IInv'
<1> USE CodeAssumption DEF IInv, Wrap, Run, IsOk
<1>1. cluster' = cluster /\ first' = first
  OBVIOUS
<1>2. last' \in {Ran(op, Ok, SUCCESS, cluster), Skipped(op)}
  OBVIOUS
<1>3. Ran(op, Ok, SUCCESS, cluster) \in Call /\ Skipped(op) \in Call
  BY CallType DEF TypeOK, Outcome
<1>4. TypeOK'
  BY <1>1, <1>2, <1>3 DEF TypeOK
<1>5. FirstErrorWins'
  BY <1>1 DEF FirstErrorWins
<1>6. FailureIsRecorded'
  BY <1>1, <1>2 DEF FailureIsRecorded, Ran, Skipped
<1>7. ManagerFailureVisible'
  BY <1>1, <1>2 DEF ManagerFailureVisible, Ran, Skipped
<1> QED
  BY <1>4, <1>5, <1>6, <1>7

(* A wrapped call whose closure fails records its error, unless an error *)
(* that came in kept the closure from running.                           *)
LEMMA WrapErrStep ==
  ASSUME IInv, NEW op \in {"wrap", "status"}, NEW e \in ToLvError, NEW m \in Code,
         NEW stored \in BOOLEAN, Stands(m, e),
         NEW outcome, outcome = Err(e), Wrap(op, outcome, m, stored)
  PROVE  IInv'
<1> USE CodeAssumption DEF IInv
<1>1. outcome \in Outcome /\ outcome[1] = e /\ ~IsOk(outcome)
  BY DEF Outcome, Err, IsOk, Ok
<1>2. CASE last' = Skipped(op) /\ UNCHANGED <<cluster, first>>
  <2>1. TypeOK'
    BY <1>1, <1>2, CallType DEF TypeOK
  <2>2. FirstErrorWins'
    BY <1>2 DEF FirstErrorWins
  <2>3. FailureIsRecorded' /\ ManagerFailureVisible'
    BY <1>2 DEF FailureIsRecorded, ManagerFailureVisible, Skipped
  <2> QED
    BY <2>1, <2>2, <2>3
<1>3. CASE Run(op, outcome, m, stored) /\ first' = IF IsOk(first) /\ e.is_error
                                                  THEN outcome ELSE first
  <2>1. cluster' = Written(cluster, e, stored) /\ ~IsErr(cluster)
    BY <1>1, <1>3 DEF Run
  <2>2. /\ cluster' \in Cluster /\ cluster'.code = e.code
        /\ IsErr(cluster') = e.is_error
    BY <2>1, WrittenCluster DEF TypeOK
  <2>3. last' = Ran(op, outcome, m, cluster')
    BY <1>3 DEF Run
  <2>4. TypeOK'
    BY <1>1, <1>3, <2>2, <2>3, CallType DEF TypeOK
  <2>5. FirstErrorWins'
    <3>1. IsOk(first)
      BY <2>1 DEF FirstErrorWins
    <3>2. (first' = outcome /\ e.is_error) \/ IsOk(first')
      BY <1>3, <3>1
    <3> QED
      BY <1>1, <2>2, <3>2 DEF FirstErrorWins, IsErr
  <2>6. FailureIsRecorded'
    BY <1>1, <2>2, <2>3 DEF FailureIsRecorded, Ran, IsErr
  <2>7. ManagerFailureVisible'
    BY <1>1, <2>2, <2>3 DEF ManagerFailureVisible, Ran, Stands, IsErr
  <2> QED
    BY <2>4, <2>5, <2>6, <2>7
<1>4. (last' = Skipped(op) /\ UNCHANGED <<cluster, first>>) \/
      (Run(op, outcome, m, stored) /\ first' = IF IsOk(first) /\ e.is_error
                                                  THEN outcome ELSE first)
  BY <1>1 DEF Wrap
<1> QED
  BY <1>2, <1>3, <1>4

(* Between calls, write_error and LabVIEW replace the cluster and forget its *)
(* history; a function without cluster leaves it alone.                      *)
LEMMA OtherStep ==
  ASSUME IInv,
         \/ \E m \in Code : \E r \in Converted(m) : ReturnResult(m, r)
         \/ \E r \in Result : ReturnResult(SUCCESS, r)
         \/ \E e \in ToLvError, stored \in BOOLEAN : WriteError(e, stored)
         \/ \E c \in Cluster : LabVIEW(c)
  PROVE  IInv'
<1> USE CodeAssumption DEF IInv, FirstErrorWins, FailureIsRecorded, ManagerFailureVisible,
        NoCall, IsOk
<1>1. ASSUME NEW m \in Code, NEW r \in Converted(m), ReturnResult(m, r)
      PROVE  IInv'
  <2>1. TypeOK'
    BY <1>1, StatusOfConverted DEF TypeOK, Call, ReturnResult, Outcome
  <2> QED
    BY <1>1, <2>1, StatusOfConverted DEF ReturnResult
<1>2. ASSUME NEW r \in Result, ReturnResult(SUCCESS, r)
      PROVE  IInv'
  <2>1. TypeOK'
    BY <1>2, StatusOfResult DEF TypeOK, Call, ReturnResult, Outcome
  <2> QED
    BY <1>2, <2>1 DEF ReturnResult
<1>3. ASSUME NEW e \in ToLvError, NEW stored \in BOOLEAN, WriteError(e, stored)
      PROVE  IInv'
  <2>1. TypeOK'
    BY <1>3, WrittenCluster DEF TypeOK, Call, WriteError, Outcome
  <2> QED
    BY <1>3, <2>1 DEF WriteError
<1>4. ASSUME NEW c \in Cluster, LabVIEW(c)
      PROVE  IInv'
  <2>1. TypeOK'
    BY <1>4 DEF TypeOK, Call, LabVIEW, Outcome
  <2> QED
    BY <1>4, <2>1 DEF LabVIEW
<1> QED
  BY <1>1, <1>2, <1>3, <1>4

(* Every step preserves the inductive invariant. *)
LEMMA StepIInv == IInv /\ [Next]_vars => IInv'
<1> SUFFICES ASSUME IInv, [Next]_vars PROVE IInv'
  OBVIOUS
<1>1. CASE UNCHANGED vars
  BY <1>1 DEF vars, IInv, TypeOK, FirstErrorWins, FailureIsRecorded, ManagerFailureVisible
<1>2. ASSUME NEW op \in {"wrap", "status"}, NEW outcome \in Outcome,
             NEW stored \in BOOLEAN, Wrap(op, outcome, SUCCESS, stored)
      PROVE  IInv'
  <2>1. CASE outcome = Ok
    BY <1>2, <2>1, WrapOkStep
  <2>2. ASSUME NEW e \in ToLvError, outcome = Err(e)
        PROVE  IInv'
    BY <1>2, <2>2, CodeAssumption, WrapErrStep DEF Stands
  <2> QED
    BY <2>1, <2>2 DEF Outcome
<1>3. ASSUME NEW op \in {"wrap", "status"}, NEW m \in Code, NEW text \in Text,
             NEW stored \in BOOLEAN, NEW r \in Converted(m),
             WrapManagerCall(op, m, r, text, stored)
      PROVE  IInv'
  <2>1. Wrap(op, Reported(r, text), m, stored)
    BY <1>3 DEF WrapManagerCall
  <2>2. CASE m = SUCCESS
    BY <2>1, <2>2, ReportedOutcome, WrapOkStep
  <2>3. CASE m # SUCCESS
    <3>1. PICK e \in ToLvError : Reported(r, text) = Err(e) /\ Stands(m, e)
      BY <2>3, ReportedOutcome DEF Stands
    <3> QED
      BY <2>1, <3>1, WrapErrStep
  <2> QED
    BY <2>2, <2>3
<1> QED
  BY <1>1, <1>2, <1>3, OtherStep DEF Next

(* The inductive invariant holds in every reachable state. *)
LEMMA Invariance == Spec => []IInv
<1>1. Init => IInv
  BY CodeAssumption DEF Init, IInv, TypeOK, FirstErrorWins, FailureIsRecorded,
     ManagerFailureVisible, NoCall, Call, Outcome, IsOk
<1> QED
  BY <1>1, StepIInv, PTL DEF Spec

(* Whatever closures return and whatever can be stored, the cluster keeps *)
(* its layout: a Boolean LabVIEW can read, a code, a text.                *)
THEOREM ClusterTyped == Spec => []TypeOK
<1>1. IInv => TypeOK
  BY DEF IInv
<1> QED
  BY <1>1, Invariance, PTL

(* wrap_function and wrap_return_status keep the first error of a chain of *)
(* calls, of any length, for any codes and texts.                          *)
THEOREM ChainKeepsFirstError == Spec => []FirstErrorWins
<1>1. IInv => FirstErrorWins
  BY DEF IInv
<1> QED
  BY <1>1, Invariance, PTL

(* A closure that fails has its code and severity in the cluster, although *)
(* wrap_function drops the Result of write_error.                          *)
THEOREM FailuresAreRecorded == Spec => []FailureIsRecorded
<1>1. IInv => FailureIsRecorded
  BY DEF IInv
<1> QED
  BY <1>1, Invariance, PTL

(* A failure of the memory manager is never turned into success on its way *)
(* through Result, ToLvError and the cluster or the returned status.       *)
THEOREM ManagerFailuresAreVisible == Spec => []ManagerFailureVisible
<1>1. IInv => ManagerFailureVisible
  BY DEF IInv
<1> QED
  BY <1>1, Invariance, PTL

(* The step relation of UntouchedUnlessFailed. *)
Untouched ==
  last'.op \in {"wrap", "status"} /\ cluster' # cluster => last'.ran /\ ~IsOk(last'.outcome)

(* Errors and warnings that come in pass through a wrapped call untouched. *)
THEOREM IncomingPassesThrough == Spec => UntouchedUnlessFailed
<1>1. ASSUME NEW op, NEW outcome, NEW m, NEW stored, Wrap(op, outcome, m, stored)
      PROVE  Untouched
  <2>1. CASE cluster' = cluster
    BY <2>1 DEF Untouched
  <2>2. CASE cluster' # cluster
    <3>1. ~IsOk(outcome) /\ last' = Ran(op, outcome, m, cluster')
      BY <1>1, <2>2 DEF Wrap, Run
    <3> QED
      BY <3>1 DEF Untouched, Ran
  <2> QED
    BY <2>1, <2>2
<1>2. ASSUME NEW m, NEW r, ReturnResult(m, r)
      PROVE  Untouched
  BY <1>2 DEF ReturnResult, Untouched
<1>3. ASSUME NEW e, NEW stored, WriteError(e, stored)
      PROVE  Untouched
  BY <1>3 DEF WriteError, NoCall, Untouched
<1>4. ASSUME NEW c, LabVIEW(c)
      PROVE  Untouched
  BY <1>4 DEF LabVIEW, NoCall, Untouched
<1>5. Next => Untouched
  BY <1>1, <1>2, <1>3, <1>4 DEF Next, WrapManagerCall
<1> QED
  BY <1>5, PTL DEF Spec, UntouchedUnlessFailed, Untouched

-----------------------------------------------------------------------------
(* The steps of SharedCluster: what a thread's frame can be. *)
Fits(f) ==
  /\ f \in Frame
  /\ f.pc = "idle" => f = Idle
  /\ f.pc # "idle" => f.op \in {"wrap", "status", "write"}
  /\ f.pc \in {"again", "skipped", "run"} => f.op # "write" /\ f.err = Ok
  /\ f.pc \in {"code", "status", "source"} => ~IsOk(f.err)
  /\ f.op = "write" => ~IsOk(f.err)

Shape == SharedTypeOK /\ \A t \in Thread : Fits(frame[t])

(* An outcome is Ok or carries the error it was made from. *)
LEMMA Outcomes ==
  /\ Ok \in Outcome /\ IsOk(Ok)
  /\ \A e \in ToLvError : Err(e) \in Outcome
  /\ \A e : ~IsOk(Err(e)) /\ Err(e)[1] = e
  /\ \A o \in Outcome : ~IsOk(o) => o[1] \in ToLvError
<1>1. Ok \in Outcome /\ \A e \in ToLvError : Err(e) \in Outcome
  BY DEF Outcome
<1>2. \A e : ~IsOk(Err(e)) /\ Err(e)[1] = e
  BY DEF IsOk, Ok, Err
<1>3. IsOk(Ok)
  BY DEF IsOk
<1>4. ASSUME NEW o \in Outcome, ~IsOk(o)
      PROVE  o[1] \in ToLvError
  <2>1. PICK e \in ToLvError : o = Err(e)
    BY <1>4 DEF Outcome, IsOk
  <2> QED
    BY <1>2, <2>1
<1> QED
  BY <1>1, <1>2, <1>3, <1>4

(* What a wrapped call leaves in last is well typed. *)
LEMMA LastTyped ==
  /\ \A op \in {"none", "labview", "write"} : [NoCall EXCEPT !.op = op] \in Call
  /\ \A op \in {"wrap", "status"}, o \in Outcome, c \in Cluster :
       Ran(op, o, SUCCESS, c) \in Call
  /\ cluster \in Cluster => \A op \in {"wrap", "status"} : Skipped(op) \in Call
<1> USE CodeAssumption, Outcomes
<1>1. \A op \in {"none", "labview", "write"} : [NoCall EXCEPT !.op = op] \in Call
  BY DEF NoCall, Call
<1>2. \A op \in {"wrap", "status"}, o \in Outcome, c \in Cluster :
        Ran(op, o, SUCCESS, c) \in Call
  BY DEF Ran, Call, Cluster
<1>3. cluster \in Cluster => \A op \in {"wrap", "status"} : Skipped(op) \in Call
  BY DEF Skipped, Call, Cluster
<1> QED
  BY <1>1, <1>2, <1>3

(* A step of a thread replaces its own frame and no other. *)
LEMMA OwnFrame ==
  ASSUME Shape, NEW t \in Thread, NEW f, Fits(f), frame' = [frame EXCEPT ![t] = f]
  PROVE  /\ frame'[t] = f
         /\ \A u \in Thread : u # t => frame'[u] = frame[u]
         /\ frame' \in [Thread -> Frame]
         /\ \A u \in Thread : Fits(frame'[u])
<1>1. frame \in [Thread -> Frame] /\ \A u \in Thread : Fits(frame[u])
  BY DEF Shape, SharedTypeOK
<1>2. f \in Frame
  BY DEF Fits
<1>3. frame'[t] = f /\ frame' \in [Thread -> Frame]
      /\ \A u \in Thread : u # t => frame'[u] = frame[u]
  BY <1>1, <1>2
<1> QED
  BY <1>1, <1>3

(* What is left of Shape once the frames are known to fit. *)
LEMMA ShapeFrom ==
  ASSUME frame' \in [Thread -> Frame], \A u \in Thread : Fits(frame'[u]),
         memory' \in Cluster, overlap' \in BOOLEAN,
         cluster' \in Cluster, last' \in Call, first' \in Outcome
  PROVE  Shape'
BY DEF Shape, SharedTypeOK, TypeOK, Fits

(* Where the program counter of a frame leads it. *)
LEMMA Goes ==
  ASSUME Shape, NEW t \in Thread, NEW pc, Goto(t, pc),
         \/ frame[t].pc = "again" /\ pc \in {"skipped", "run"}
         \/ frame[t].pc = "code" /\ pc = "status"
         \/ frame[t].pc = "status" /\ pc = "source"
         \/ frame[t].pc = "source" /\ pc = "return"
  PROVE  /\ frame'[t] = [pc |-> pc, op |-> frame[t].op, err |-> frame[t].err]
         /\ \A u \in Thread : u # t => frame'[u] = frame[u]
         /\ frame' \in [Thread -> Frame]
         /\ \A u \in Thread : Fits(frame'[u])
<1> DEFINE f == [pc |-> pc, op |-> frame[t].op, err |-> frame[t].err]
<1>1. frame \in [Thread -> Frame] /\ Fits(frame[t])
  BY DEF Shape, SharedTypeOK
<1>2. f = [frame[t] EXCEPT !.pc = pc]
  BY <1>1 DEF Frame
<1>3. frame' = [frame EXCEPT ![t] = f]
  BY <1>1, <1>2 DEF Goto
<1>4. Fits(f)
  BY <1>1 DEF Fits, Frame
<1> HIDE DEF f
<1>5. /\ frame'[t] = f
      /\ \A u \in Thread : u # t => frame'[u] = frame[u]
      /\ frame' \in [Thread -> Frame]
      /\ \A u \in Thread : Fits(frame'[u])
  BY <1>3, <1>4, OwnFrame
<1> QED
  BY <1>5 DEF f

(* Where a call is after each of its steps; nobody else moves. *)
LEMMA Starts ==
  ASSUME Shape, NEW t \in Thread, Start(t)
  PROVE  /\ Shape'
         /\ frame'[t].pc \in {"skipped", "again", "run", "code"}
         /\ frame'[t].pc = "skipped" => IsErr(memory)
         /\ frame'[t].pc \in {"again", "run"} => ~IsErr(memory)
         /\ frame'[t].pc = "code" => frame'[t].op = "write"
         /\ frame[t].pc = "idle" /\ Borrow(t)
         /\ \A u \in Thread : u # t => frame'[u] = frame[u]
         /\ UNCHANGED <<memory, offered, overlap, shown>>
<1>1. PICK f : /\ frame' = [frame EXCEPT ![t] = f]
               /\ \/ /\ f.pc = "skipped" /\ IsErr(memory)
                     /\ \E op \in {"wrap", "status"} : f = [pc |-> "skipped", op |-> op, err |-> Ok]
                  \/ /\ f.pc \in {"again", "run"} /\ ~IsErr(memory)
                     /\ \E op \in {"wrap", "status"} : f = [pc |-> f.pc, op |-> op, err |-> Ok]
                  \/ \E e \in ToLvError : f = [pc |-> "code", op |-> "write", err |-> Err(e)]
  <2>1. CASE \E op \in {"wrap", "status"} : Enter(t, op)
    <3>1. PICK op \in {"wrap", "status"} : Enter(t, op)
      BY <2>1
    <3> DEFINE pc == IF IsErr(memory) THEN "skipped"
                     ELSE IF op = "status" THEN "again" ELSE "run"
               f == [pc |-> pc, op |-> op, err |-> Ok]
    <3>2. frame' = [frame EXCEPT ![t] = f]
      BY <3>1 DEF Enter
    <3>3. f.pc = pc /\ pc \in {"skipped", "again", "run"} /\ (pc = "skipped" <=> IsErr(memory))
      OBVIOUS
    <3> QED
      BY <3>2, <3>3
  <2>2. CASE \E e \in ToLvError : EnterWrite(t, e)
    BY <2>2 DEF EnterWrite
  <2> QED
    BY <2>1, <2>2 DEF Start
<1>2. Fits(f)
  BY <1>1, Outcomes DEF Fits, Frame
<1>3. /\ frame'[t] = f /\ frame' \in [Thread -> Frame]
      /\ \A u \in Thread : Fits(frame'[u])
      /\ \A u \in Thread : u # t => frame'[u] = frame[u]
  BY <1>1, <1>2, OwnFrame
<1>4. /\ frame[t].pc = "idle" /\ Borrow(t)
      /\ UNCHANGED <<memory, offered, overlap, shown>>
  BY DEF Start, Enter, EnterWrite
<1>5. Shape'
  BY <1>3, <1>4, ShapeFrom DEF Shape, SharedTypeOK, TypeOK, shown
<1>6. f.pc = "code" => f.op = "write"
  BY <1>1
<1> QED
  BY <1>1, <1>3, <1>4, <1>5, <1>6

LEMMA LooksAgain ==
  ASSUME Shape, NEW t \in Thread, LookAgain(t)
  PROVE  /\ Shape'
         /\ frame'[t] = [pc |-> IF IsErr(memory) THEN "skipped" ELSE "run",
                         op |-> frame[t].op, err |-> frame[t].err]
         /\ \A u \in Thread : u # t => frame'[u] = frame[u]
<1>1. /\ frame'[t] = [pc |-> IF IsErr(memory) THEN "skipped" ELSE "run",
                      op |-> frame[t].op, err |-> frame[t].err]
      /\ \A u \in Thread : u # t => frame'[u] = frame[u]
      /\ frame' \in [Thread -> Frame]
      /\ \A u \in Thread : Fits(frame'[u])
  BY Goes DEF LookAgain
<1>2. Shape'
  BY <1>1, ShapeFrom DEF LookAgain, Shape, SharedTypeOK, TypeOK, shown
<1> QED
  BY <1>1, <1>2

LEMMA ClosureRuns ==
  ASSUME Shape, NEW t \in Thread, NEW outcome \in Outcome, Closure(t, outcome)
  PROVE  /\ Shape'
         /\ frame'[t] = [pc |-> IF IsOk(outcome) THEN "return" ELSE "code",
                         op |-> frame[t].op, err |-> outcome]
         /\ \A u \in Thread : u # t => frame'[u] = frame[u]
<1> DEFINE f == [pc |-> IF IsOk(outcome) THEN "return" ELSE "code",
                 op |-> frame[t].op, err |-> outcome]
<1>1. frame' = [frame EXCEPT ![t] = f]
  BY DEF Closure
<1>2. Fits(frame[t]) /\ frame[t].pc = "run"
  BY DEF Shape, Closure
<1>3. Fits(f)
  BY <1>2 DEF Fits, Frame
<1> HIDE DEF f
<1>4. /\ frame'[t] = f /\ frame' \in [Thread -> Frame]
      /\ \A u \in Thread : Fits(frame'[u])
      /\ \A u \in Thread : u # t => frame'[u] = frame[u]
  BY <1>1, <1>3, OwnFrame
<1>5. Shape'
  BY <1>4, ShapeFrom DEF Closure, Shape, SharedTypeOK, TypeOK, shown
<1> QED
  BY <1>4, <1>5 DEF f

(* The writes of set_error and set_warning, wherever the others are. *)
LEMMA Writes ==
  ASSUME Shape, NEW t \in Thread,
         \/ SetCode(t) \/ SetStatus(t)
         \/ \E stored \in BOOLEAN : SetSource(t, stored)
  PROVE  /\ Shape'
         /\ frame'[t] = [pc  |-> IF frame[t].pc = "code" THEN "status"
                                 ELSE IF frame[t].pc = "status" THEN "source" ELSE "return",
                         op  |-> frame[t].op,
                         err |-> frame[t].err]
         /\ \A u \in Thread : u # t => frame'[u] = frame[u]
         /\ Error(t) \in ToLvError
<1> DEFINE pc == IF frame[t].pc = "code" THEN "status"
                 ELSE IF frame[t].pc = "status" THEN "source" ELSE "return"
<1>1. /\ Goto(t, pc)
      /\ frame[t].pc \in {"code", "status", "source"}
      /\ UNCHANGED shown
  BY DEF SetCode, SetStatus, SetSource
<1>2. /\ frame'[t] = [pc |-> pc, op |-> frame[t].op, err |-> frame[t].err]
      /\ \A u \in Thread : u # t => frame'[u] = frame[u]
      /\ frame' \in [Thread -> Frame]
      /\ \A u \in Thread : Fits(frame'[u])
  BY <1>1, Goes
<1>3. Error(t) \in ToLvError
  BY <1>1, Outcomes DEF Shape, Fits, Frame, Error
<1>4. memory' \in Cluster
  BY <1>3, ClusterAssumption
     DEF Shape, SharedTypeOK, SetCode, SetStatus, SetSource, Cluster, ToLvError, LV_TRUE, LV_FALSE
<1>5. overlap' \in BOOLEAN
  BY DEF Shape, SharedTypeOK, SetCode, SetStatus, SetSource
<1>6. Shape'
  BY <1>1, <1>2, <1>4, <1>5, ShapeFrom DEF Shape, SharedTypeOK, TypeOK, shown
<1> QED
  BY <1>2, <1>3, <1>6

LEMMA Returns ==
  ASSUME Shape, NEW t \in Thread, ReturnSkipped(t) \/ Return(t)
  PROVE  /\ Shape'
         /\ frame'[t] = Idle
         /\ \A u \in Thread : u # t => frame'[u] = frame[u]
<1>1. frame' = [frame EXCEPT ![t] = Idle] /\ cluster' = memory
      /\ UNCHANGED <<memory, offered, overlap>>
  BY DEF ReturnSkipped, Return, Leave
<1>2. Fits(Idle)
  BY Outcomes DEF Fits, Idle, Frame
<1>3. /\ frame'[t] = Idle /\ frame' \in [Thread -> Frame]
      /\ \A u \in Thread : Fits(frame'[u])
      /\ \A u \in Thread : u # t => frame'[u] = frame[u]
  BY <1>1, <1>2, OwnFrame
<1>4. /\ Fits(frame[t]) /\ frame[t].pc # "idle" /\ memory \in Cluster /\ cluster \in Cluster
      /\ first \in Outcome
  BY DEF Shape, SharedTypeOK, TypeOK, ReturnSkipped, Return
<1>5. last' \in Call /\ first' \in Outcome
  <2>1. CASE ReturnSkipped(t)
    <3>1. /\ frame[t].op \in {"wrap", "status"}
          /\ first' = first
          /\ last' = [Skipped(frame[t].op) EXCEPT !.status =
                        IF frame[t].op = "status" THEN memory.code ELSE SUCCESS]
      BY <1>4, <2>1 DEF ReturnSkipped, Fits
    <3>2. Skipped(frame[t].op) \in Call
      BY <1>4, <3>1, LastTyped
    <3>3. memory.code \in Code /\ SUCCESS \in Code
      BY <1>4, CodeAssumption DEF Cluster
    <3>4. last' \in Call
      BY <3>1, <3>2, <3>3 DEF Call
    <3> QED
      BY <1>4, <3>1, <3>4
  <2>2. CASE Return(t)
    <3>1. frame[t].op \in {"wrap", "status", "write"} /\ frame[t].err \in Outcome
      BY <1>4 DEF Fits, Frame
    <3>2. CASE frame[t].op = "write"
      BY <2>2, <3>2, LastTyped, Outcomes DEF Return
    <3>3. CASE frame[t].op # "write"
      BY <1>4, <2>2, <3>1, <3>3, LastTyped DEF Return
    <3> QED
      BY <3>2, <3>3
  <2> QED
    BY <2>1, <2>2
<1>6. Shape'
  BY <1>1, <1>3, <1>4, <1>5, ShapeFrom DEF Shape, SharedTypeOK
<1> QED
  BY <1>3, <1>6

LEMMA Replaces ==
  ASSUME Shape, NEW c \in Cluster, LabVIEWReplaces(c)
  PROVE  Shape'
<1>1. last' \in Call /\ first' \in Outcome
  BY LastTyped, Outcomes DEF LabVIEWReplaces
<1> QED
  BY <1>1, ShapeFrom DEF LabVIEWReplaces, Shape, SharedTypeOK

LEMMA ShapeInit == SharedInit => Shape
<1> SUFFICES ASSUME SharedInit PROVE Shape
  OBVIOUS
<1>1. Fits(Idle)
  BY Outcomes DEF Fits, Idle, Frame
<1>2. TypeOK
  BY CodeAssumption, Outcomes DEF SharedInit, Init, TypeOK, NoCall, Call
<1>3. \A t \in Thread : frame[t] = Idle
  BY DEF SharedInit
<1> QED
  BY <1>1, <1>2, <1>3 DEF SharedInit, Shape, SharedTypeOK, TypeOK, Fits

-----------------------------------------------------------------------------
(* Calls through any number of copies.  As long as no code was written over *)
(* that of a call yet to write its status, one call at most is between the  *)
(* two; the code is that call's, or else the cluster reads as one error.    *)
Whole ==
  ~overlap =>
    /\ \A t, u \in Thread : frame[t].pc = "status" /\ frame[u].pc = "status" => t = u
    /\ \A t \in Thread : frame[t].pc = "status" =>
         memory.code = Error(t).code /\ Tells(Error(t)) \in offered
    /\ (\A t \in Thread : frame[t].pc # "status") => Reads(memory) \in offered

(* A step outside the writes leaves all of that as it is. *)
LEMMA WholeElsewhere ==
  ASSUME Shape, Whole, NEW t \in Thread,
         UNCHANGED <<memory, offered, overlap>>,
         frame[t].pc # "status", frame'[t].pc # "status",
         \A u \in Thread : u # t => frame'[u] = frame[u]
  PROVE  Whole'
<1>1. \A u \in Thread : /\ frame'[u].pc = "status" <=> frame[u].pc = "status"
                        /\ frame[u].pc = "status" => Error(u)' = Error(u)
  BY DEF Error
<1> QED
  BY <1>1 DEF Whole, Reads, Tells, IsErr

LEMMA WholeSetCode ==
  ASSUME Shape, Whole, NEW t \in Thread, SetCode(t)
  PROVE  Whole'
<1> SUFFICES ASSUME ~overlap' PROVE Whole'
  BY DEF Whole
<1>1. /\ frame[t].pc = "code" /\ Error(t) \in ToLvError
      /\ frame'[t] = [pc |-> "status", op |-> frame[t].op, err |-> frame[t].err]
      /\ \A u \in Thread : u # t => frame'[u] = frame[u]
  BY Writes DEF SetCode
<1>2. \A u \in Thread : frame[u].pc # "status"
  BY DEF SetCode, Shape, SharedTypeOK
<1>3. \A u \in Thread : frame'[u].pc = "status" => u = t
  BY <1>1, <1>2
<1>4. Error(t)' = Error(t)
  BY <1>1 DEF Error
<1>5. memory'.code = Error(t).code /\ Tells(Error(t)) \in offered'
  BY <1>1 DEF SetCode, Shape, SharedTypeOK, Cluster
<1>6. frame'[t].pc = "status"
  BY <1>1
<1> QED
  BY <1>3, <1>4, <1>5, <1>6 DEF Whole, Tells

LEMMA WholeSetStatus ==
  ASSUME Shape, Whole, NEW t \in Thread, SetStatus(t)
  PROVE  Whole'
<1> SUFFICES ASSUME ~overlap' PROVE Whole'
  BY DEF Whole
<1>1. /\ frame[t].pc = "status" /\ Error(t) \in ToLvError
      /\ frame'[t] = [pc |-> "source", op |-> frame[t].op, err |-> frame[t].err]
      /\ \A u \in Thread : u # t => frame'[u] = frame[u]
      /\ ~overlap /\ offered' = offered
  BY Writes DEF SetStatus
<1>2. \A u \in Thread : frame'[u].pc # "status"
  BY <1>1 DEF Whole
<1>3. memory.code = Error(t).code /\ Tells(Error(t)) \in offered
  BY <1>1 DEF Whole
<1>4. /\ memory'.code = memory.code
      /\ memory'.status = IF Error(t).is_error THEN LV_TRUE ELSE LV_FALSE
  BY DEF SetStatus, Shape, SharedTypeOK, Cluster
<1>5. IsErr(memory') = Error(t).is_error
  BY <1>1, <1>4 DEF IsErr, ToBool, LV_TRUE, LV_FALSE, ToLvError
<1>6. Reads(memory)' = Tells(Error(t))
  BY <1>3, <1>4, <1>5 DEF Reads, Tells
<1> QED
  BY <1>1, <1>2, <1>3, <1>6 DEF Whole

LEMMA WholeSetSource ==
  ASSUME Shape, Whole, NEW t \in Thread, NEW stored \in BOOLEAN, SetSource(t, stored)
  PROVE  Whole'
<1>1. /\ frame[t].pc = "source"
      /\ frame'[t] = [pc |-> "return", op |-> frame[t].op, err |-> frame[t].err]
      /\ \A u \in Thread : u # t => frame'[u] = frame[u]
      /\ UNCHANGED <<offered, overlap>>
  BY Writes DEF SetSource
<1>2. memory'.code = memory.code /\ memory'.status = memory.status
  BY DEF SetSource, Shape, SharedTypeOK, Cluster
<1>3. \A u \in Thread : /\ frame'[u].pc = "status" <=> frame[u].pc = "status"
                        /\ frame[u].pc = "status" => Error(u)' = Error(u)
  BY <1>1 DEF Error
<1>4. Reads(memory)' = Reads(memory)
  BY <1>2 DEF Reads, IsErr
<1> QED
  BY <1>1, <1>2, <1>3, <1>4 DEF Whole, Tells

(* Every step of every thread, and of LabVIEW between the calls. *)
LEMMA WholeStep == Shape /\ Whole /\ [SharedNext]_sharedVars => Shape' /\ Whole'
<1> SUFFICES ASSUME Shape, Whole, [SharedNext]_sharedVars PROVE Shape' /\ Whole'
  OBVIOUS
<1>1. CASE UNCHANGED sharedVars
  BY <1>1 DEF sharedVars, Shape, Fits, SharedTypeOK, TypeOK, Whole, Error, Reads, Tells, IsErr
<1>2. ASSUME NEW t \in Thread, Start(t)
      PROVE  Shape' /\ Whole'
  BY <1>2, Starts, WholeElsewhere DEF shown
<1>3. ASSUME NEW t \in Thread, Continue(t)
      PROVE  Shape' /\ Whole'
  <2>1. CASE LookAgain(t)
    <3>1. frame[t].pc # "status" /\ UNCHANGED <<memory, offered, overlap>>
      BY <2>1 DEF LookAgain
    <3>2. /\ Shape' /\ \A u \in Thread : u # t => frame'[u] = frame[u]
          /\ frame'[t] = [pc |-> IF IsErr(memory) THEN "skipped" ELSE "run",
                          op |-> frame[t].op, err |-> frame[t].err]
      BY <2>1, LooksAgain
    <3>3. frame'[t].pc # "status"
      BY <3>2
    <3> QED
      BY <3>1, <3>2, <3>3, WholeElsewhere
  <2>2. CASE \E outcome \in Outcome : Closure(t, outcome)
    <3>1. PICK outcome \in Outcome : Closure(t, outcome)
      BY <2>2
    <3>2. /\ frame[t].pc # "status" /\ frame'[t].pc # "status"
          /\ UNCHANGED <<memory, offered, overlap>>
      BY <3>1, ClosureRuns DEF Closure
    <3> QED
      BY <3>1, <3>2, ClosureRuns, WholeElsewhere
  <2>3. CASE SetCode(t)
    BY <2>3, Writes, WholeSetCode
  <2>4. CASE SetStatus(t)
    BY <2>4, Writes, WholeSetStatus
  <2>5. CASE \E stored \in BOOLEAN : SetSource(t, stored)
    BY <2>5, Writes, WholeSetSource
  <2>6. CASE ReturnSkipped(t) \/ Return(t)
    <3>1. /\ frame[t].pc # "status" /\ frame'[t].pc # "status"
          /\ UNCHANGED <<memory, offered, overlap>>
      BY <2>6, Returns DEF ReturnSkipped, Return, Idle
    <3> QED
      BY <2>6, <3>1, Returns, WholeElsewhere
  <2> QED
    BY <1>3, <2>1, <2>2, <2>3, <2>4, <2>5, <2>6 DEF Continue
<1>4. ASSUME NEW c \in Cluster, LabVIEWReplaces(c)
      PROVE  Shape' /\ Whole'
  <2>1. \A t \in Thread : frame'[t].pc # "status"
    BY <1>4 DEF LabVIEWReplaces, Quiet
  <2>2. Reads(memory)' \in offered'
    BY <1>4 DEF LabVIEWReplaces, Reads, IsErr
  <2> QED
    BY <1>4, <2>1, <2>2, Replaces DEF Whole
<1> QED
  BY <1>1, <1>2, <1>3, <1>4 DEF SharedNext

(* However many threads call through however many copies of the pointer, the *)
(* code and the severity the calls leave behind belong together, unless a    *)
(* code was written between the code and the status of another error.        *)
THEOREM SharedTornOnlyByOverlap == SharedSpec => []TornOnlyByOverlap
<1>1. SharedInit => Shape /\ Whole
  <2>1. SharedInit => Whole
    BY DEF SharedInit, Whole, Idle
  <2> QED
    BY <2>1, ShapeInit
<1>2. Whole => TornOnlyByOverlap
  BY DEF Whole, TornOnlyByOverlap, OneError, Quiet
<1> QED
  BY <1>1, <1>2, WholeStep, PTL DEF SharedSpec

-----------------------------------------------------------------------------
(* Calls through one pointer: at most one is under way. *)
Alone == \A t, u \in Thread : frame[t].pc # "idle" /\ frame[u].pc # "idle" => t = u

Severity(e) == IF e.is_error THEN LV_TRUE ELSE LV_FALSE

(* The cluster in memory when one call has come this far, f being its frame. *)
Reached(f) ==
  /\ f.pc \in {"again", "skipped", "run", "code"} => memory = cluster
  /\ f.pc = "skipped" => IsErr(cluster)
  /\ f.pc \notin {"idle", "skipped"} /\ f.op # "write" => ~IsErr(cluster)
  /\ f.pc = "status" =>
       memory = [status |-> cluster.status, code |-> f.err[1].code, source |-> cluster.source]
  /\ f.pc = "source" =>
       memory = [status |-> Severity(f.err[1]), code |-> f.err[1].code, source |-> cluster.source]
  /\ f.pc = "return" =>
       IF IsOk(f.err) THEN memory = cluster
       ELSE \E stored \in BOOLEAN : memory = Written(cluster, f.err[1], stored)

(* Otherwise it is the one that was shown last. *)
Progress ==
  /\ Quiet => memory = cluster
  /\ \A t \in Thread : Reached(frame[t])

OneIInv == Shape /\ Alone /\ Progress

(* Inside a call everybody else is idle, so that what there is to show of the *)
(* next state is where this call then is.                                     *)
LEMMA OnlyOne ==
  ASSUME OneIInv, NEW t \in Thread, Shape',
         \A u \in Thread : u # t => frame'[u] = frame[u] /\ frame[u].pc = "idle",
         frame'[t].pc # "idle", Reached(frame[t])'
  PROVE  OneIInv'
<1>1. \A u \in Thread : u # t => frame'[u].pc = "idle"
  OBVIOUS
<1>2. Alone'
  BY <1>1 DEF Alone
<1>3. ~Quiet'
  BY DEF Quiet
<1>4. \A u \in Thread : u # t => Reached(frame[u])'
  BY <1>1 DEF Reached
<1> QED
  BY <1>2, <1>3, <1>4 DEF OneIInv, Progress

(* A call that ends leaves nobody inside. *)
LEMMA NoneLeft ==
  ASSUME OneIInv, NEW t \in Thread, Shape',
         \A u \in Thread : u # t => frame'[u] = frame[u] /\ frame[u].pc = "idle",
         frame'[t] = Idle, memory' = cluster'
  PROVE  OneIInv'
<1>1. \A u \in Thread : frame'[u].pc = "idle"
  BY DEF Idle
<1> QED
  BY <1>1 DEF OneIInv, Progress, Alone, Reached

(* While nobody is in a call, one may come in. *)
LEMMA StartAlone ==
  ASSUME OnePointer, OneIInv, NEW t \in Thread, Start(t)
  PROVE  OneIInv' /\ UNCHANGED vars
<1> USE DEF OneIInv
<1>1. /\ Shape'
      /\ frame'[t].pc \in {"skipped", "again", "run", "code"}
      /\ frame'[t].pc = "skipped" => IsErr(memory)
      /\ frame'[t].pc \in {"again", "run"} => ~IsErr(memory)
      /\ frame'[t].pc = "code" => frame'[t].op = "write"
      /\ \A u \in Thread : u # t => frame'[u] = frame[u]
      /\ UNCHANGED <<memory, offered, overlap, shown>>
      /\ Borrow(t)
  BY Starts
<1>2. Quiet
  BY <1>1 DEF Borrow, OnePointer, Quiet
<1>3. memory = cluster
  BY <1>2 DEF Progress
<1>4. memory' = memory /\ cluster' = cluster
  BY <1>1 DEF shown
<1>5. Reached(frame[t])'
  BY <1>1, <1>3, <1>4 DEF Reached, IsErr
<1>6. \A u \in Thread : frame[u].pc = "idle"
  BY <1>2 DEF Quiet
<1>7. OneIInv'
  BY <1>1, <1>5, <1>6, OnlyOne
<1> QED
  BY <1>1, <1>7 DEF shown, vars

LEMMA OthersIdle ==
  ASSUME OneIInv, NEW t \in Thread, frame[t].pc # "idle"
  PROVE  \A u \in Thread : u # t => frame[u].pc = "idle"
BY DEF OneIInv, Alone

(* The steps inside the call show nothing to its caller. *)
LEMMA LookAgainAlone ==
  ASSUME OneIInv, NEW t \in Thread, LookAgain(t)
  PROVE  OneIInv' /\ UNCHANGED vars
<1>1. /\ frame[t].pc = "again" /\ UNCHANGED <<memory, shown>>
      /\ Reached(frame[t])
      /\ Fits(frame[t])
  BY DEF LookAgain, OneIInv, Progress, Shape
<1>2. /\ Shape'
      /\ frame'[t] = [pc |-> IF IsErr(memory) THEN "skipped" ELSE "run",
                      op |-> frame[t].op, err |-> frame[t].err]
      /\ \A u \in Thread : u # t => frame'[u] = frame[u]
  BY LooksAgain DEF OneIInv
<1>3. memory' = cluster /\ cluster' = cluster /\ memory = cluster /\ ~IsErr(cluster)
  BY <1>1 DEF Reached, shown, Fits
<1>4. frame'[t].pc = "run"
  BY <1>2, <1>3
<1>5. Reached(frame[t])'
  BY <1>3, <1>4 DEF Reached, IsErr
<1>6. OneIInv'
  BY <1>1, <1>2, <1>4, <1>5, OnlyOne, OthersIdle
<1> QED
  BY <1>1, <1>6 DEF shown, vars

LEMMA ClosureAlone ==
  ASSUME OneIInv, NEW t \in Thread, NEW outcome \in Outcome, Closure(t, outcome)
  PROVE  OneIInv' /\ UNCHANGED vars
<1>1. /\ frame[t].pc = "run" /\ UNCHANGED <<memory, shown>>
      /\ Reached(frame[t])
      /\ Fits(frame[t])
  BY DEF Closure, OneIInv, Progress, Shape
<1>2. /\ Shape'
      /\ frame'[t] = [pc |-> IF IsOk(outcome) THEN "return" ELSE "code",
                      op |-> frame[t].op, err |-> outcome]
      /\ \A u \in Thread : u # t => frame'[u] = frame[u]
  BY ClosureRuns DEF OneIInv
<1>3. memory' = cluster /\ cluster' = cluster /\ ~IsErr(cluster)
  BY <1>1 DEF Reached, shown, Fits
<1>4. Reached(frame[t])'
  BY <1>2, <1>3 DEF Reached, IsErr
<1>5. frame'[t].pc # "idle"
  BY <1>2
<1>6. OneIInv'
  BY <1>1, <1>2, <1>4, <1>5, OnlyOne, OthersIdle
<1> QED
  BY <1>1, <1>6 DEF shown, vars

LEMMA WritesAlone ==
  ASSUME OneIInv, NEW t \in Thread,
         \/ SetCode(t) \/ SetStatus(t)
         \/ \E stored \in BOOLEAN : SetSource(t, stored)
  PROVE  OneIInv' /\ UNCHANGED vars
<1> DEFINE e == frame[t].err[1]
<1>1. /\ Shape'
      /\ frame'[t] = [pc  |-> IF frame[t].pc = "code" THEN "status"
                              ELSE IF frame[t].pc = "status" THEN "source" ELSE "return",
                      op  |-> frame[t].op,
                      err |-> frame[t].err]
      /\ \A u \in Thread : u # t => frame'[u] = frame[u]
      /\ e \in ToLvError
  BY Writes DEF OneIInv, Error
<1>2. Reached(frame[t]) /\ Fits(frame[t]) /\ cluster \in Cluster /\ memory \in Cluster
  BY DEF OneIInv, Progress, Shape, SharedTypeOK, TypeOK
<1>3. UNCHANGED shown /\ cluster' = cluster
  BY DEF SetCode, SetStatus, SetSource, shown
<1>4. /\ frame[t].pc \in {"code", "status", "source"}
      /\ ~IsOk(frame[t].err)
      /\ frame[t].op # "write" => ~IsErr(cluster)
      /\ frame'[t].err = frame[t].err /\ frame'[t].op = frame[t].op
  BY <1>1, <1>2 DEF SetCode, SetStatus, SetSource, Fits, Reached
<1>5. Reached(frame[t])'
  <2> HIDE DEF e
  <2>1. CASE SetCode(t)
    <3>1. frame[t].pc = "code" /\ memory' = [memory EXCEPT !.code = e.code]
      BY <2>1 DEF SetCode, Error, e
    <3>2. memory = cluster
      BY <1>2, <3>1 DEF Reached
    <3>3. memory' = [status |-> cluster.status, code |-> e.code, source |-> cluster.source]
      BY <1>2, <3>1, <3>2 DEF Cluster
    <3>4. frame'[t].pc = "status"
      BY <1>1, <3>1
    <3>5. frame'[t].err[1] = e
      BY <1>4 DEF e
    <3> QED
      BY <1>3, <1>4, <3>3, <3>4, <3>5 DEF Reached, IsErr
  <2>2. CASE SetStatus(t)
    <3>1. frame[t].pc = "status" /\ memory' = [memory EXCEPT !.status = Severity(e)]
      BY <2>2 DEF SetStatus, Error, Severity, e
    <3>2. memory = [status |-> cluster.status, code |-> e.code, source |-> cluster.source]
      BY <1>2, <3>1 DEF Reached, e
    <3>3. memory' = [status |-> Severity(e), code |-> e.code, source |-> cluster.source]
      BY <3>1, <3>2
    <3>4. frame'[t].pc = "source"
      BY <1>1, <3>1
    <3>5. frame'[t].err[1] = e
      BY <1>4 DEF e
    <3> QED
      BY <1>3, <1>4, <3>3, <3>4, <3>5 DEF Reached, IsErr, Severity
  <2>3. ASSUME NEW stored \in BOOLEAN, SetSource(t, stored)
        PROVE  Reached(frame[t])'
    <3>1. /\ frame[t].pc = "source"
          /\ memory' = IF stored THEN [memory EXCEPT !.source = e.text] ELSE memory
      BY <2>3 DEF SetSource, Error, e
    <3>2. memory = [status |-> Severity(e), code |-> e.code, source |-> cluster.source]
      BY <1>2, <3>1 DEF Reached, e
    <3>3. memory' = Written(cluster, e, stored)
      BY <3>1, <3>2 DEF Written, Severity
    <3>4. frame'[t].pc = "return"
      BY <1>1, <3>1
    <3>5. \E s \in BOOLEAN : memory' = Written(cluster', frame'[t].err[1], s)
      BY <1>3, <1>4, <3>3 DEF e
    <3> QED
      BY <1>3, <1>4, <3>4, <3>5 DEF Reached, IsErr, Written
  <2> QED
    BY <2>1, <2>2, <2>3
<1>6. frame'[t].pc # "idle" /\ frame[t].pc # "idle"
  BY <1>1, <1>4
<1>7. OneIInv'
  BY <1>1, <1>5, <1>6, OnlyOne, OthersIdle
<1> QED
  BY <1>3, <1>7 DEF shown, vars

(* The step of ErrorCluster that a call as a whole is. *)
LEMMA ReturnSkippedAlone ==
  ASSUME OneIInv, NEW t \in Thread, ReturnSkipped(t)
  PROVE  OneIInv' /\ \E op \in {"wrap", "status"} : Wrap(op, Ok, SUCCESS, TRUE)
<1>1. /\ frame[t].pc = "skipped"
      /\ frame[t].op \in {"wrap", "status"}
      /\ memory = cluster /\ IsErr(cluster)
  BY DEF ReturnSkipped, OneIInv, Progress, Reached, Shape, Fits
<1>2. /\ Shape' /\ frame'[t] = Idle
      /\ \A u \in Thread : u # t => frame'[u] = frame[u]
  BY Returns DEF OneIInv
<1>3. /\ cluster' = memory /\ memory' = memory /\ first' = first
      /\ last' = [Skipped(frame[t].op) EXCEPT !.status =
                    IF frame[t].op = "status" THEN memory.code ELSE SUCCESS]
  BY DEF ReturnSkipped
<1>4. OneIInv'
  BY <1>1, <1>2, <1>3, NoneLeft, OthersIdle
<1>5. last' = Skipped(frame[t].op)
  BY <1>1, <1>3 DEF Skipped
<1> QED
  BY <1>1, <1>3, <1>4, <1>5 DEF Wrap

LEMMA ReturnAlone ==
  ASSUME OneIInv, NEW t \in Thread, Return(t)
  PROVE  /\ OneIInv'
         /\ \/ \E op \in {"wrap", "status"}, outcome \in Outcome, stored \in BOOLEAN :
                 Wrap(op, outcome, SUCCESS, stored)
            \/ \E e \in ToLvError, stored \in BOOLEAN : WriteError(e, stored)
<1> DEFINE f == frame[t]
<1>1. /\ f.pc = "return" /\ Reached(f)
      /\ f.op \in {"wrap", "status", "write"} /\ f.err \in Outcome
      /\ f.op = "write" => ~IsOk(f.err)
  BY DEF Return, OneIInv, Progress, Shape, Fits, Frame
<1>2. /\ Shape' /\ frame'[t] = Idle
      /\ \A u \in Thread : u # t => frame'[u] = frame[u]
  BY Returns DEF OneIInv
<1>3. /\ cluster' = memory /\ memory' = memory
      /\ IF f.op = "write"
         THEN last' = [NoCall EXCEPT !.op = "write"] /\ first' = Ok
         ELSE /\ last' = Ran(f.op, f.err, SUCCESS, memory)
              /\ first' = IF IsOk(first) /\ ~IsOk(f.err) /\ f.err[1].is_error
                          THEN f.err ELSE first
  BY DEF Return
<1>4. OneIInv'
  BY <1>1, <1>2, <1>3, NoneLeft, OthersIdle
<1> HIDE DEF f
<1>5. CASE f.op = "write"
  <2>1. f.err[1] \in ToLvError
        /\ \E stored \in BOOLEAN : memory = Written(cluster, f.err[1], stored)
    BY <1>1, <1>5, Outcomes DEF Reached
  <2>2. \E stored \in BOOLEAN : WriteError(f.err[1], stored)
    BY <1>3, <1>5, <2>1 DEF WriteError
  <2> QED
    BY <1>4, <2>1, <2>2
<1>6. CASE f.op # "write"
  <2>1. ~IsErr(cluster)
    BY <1>1, <1>6 DEF Reached
  <2>2. PICK stored \in BOOLEAN :
          memory = IF IsOk(f.err) THEN cluster ELSE Written(cluster, f.err[1], stored)
    BY <1>1 DEF Reached
  <2>3. Wrap(f.op, f.err, SUCCESS, stored)
    BY <1>3, <1>6, <2>1, <2>2 DEF Wrap, Run
  <2> QED
    BY <1>1, <1>4, <1>6, <2>3
<1> QED
  BY <1>5, <1>6

LEMMA ReplacesAlone ==
  ASSUME OneIInv, NEW c \in Cluster, LabVIEWReplaces(c)
  PROVE  OneIInv' /\ LabVIEW(c)
<1>1. Shape'
  BY Replaces DEF OneIInv
<1>2. \A u \in Thread : frame'[u].pc = "idle"
  BY DEF LabVIEWReplaces, Quiet
<1>3. memory' = cluster'
  BY DEF LabVIEWReplaces
<1>4. OneIInv'
  BY <1>1, <1>2, <1>3 DEF OneIInv, Progress, Alone, Reached
<1> QED
  BY <1>4 DEF LabVIEWReplaces, LabVIEW

(* A step keeps the invariant, and is a step of ErrorCluster or shows nothing. *)
LEMMA OneStep ==
  ASSUME OnePointer
  PROVE  OneIInv /\ [SharedNext]_sharedVars => OneIInv' /\ [Next]_vars
<1> SUFFICES ASSUME OneIInv, [SharedNext]_sharedVars PROVE OneIInv' /\ [Next]_vars
  OBVIOUS
<1>1. CASE UNCHANGED sharedVars
  BY <1>1 DEF sharedVars, vars, OneIInv, Shape, Fits, SharedTypeOK, TypeOK, Alone, Progress,
              Reached, Quiet, IsErr, Written
<1>2. ASSUME NEW t \in Thread, Start(t)
      PROVE  OneIInv' /\ [Next]_vars
  BY <1>2, StartAlone
<1>3. ASSUME NEW t \in Thread, Continue(t)
      PROVE  OneIInv' /\ [Next]_vars
  <2>1. CASE LookAgain(t)
    BY <2>1, LookAgainAlone
  <2>2. CASE \E outcome \in Outcome : Closure(t, outcome)
    BY <2>2, ClosureAlone
  <2>3. CASE SetCode(t) \/ SetStatus(t) \/ \E stored \in BOOLEAN : SetSource(t, stored)
    BY <2>3, WritesAlone
  <2>4. CASE ReturnSkipped(t)
    BY <2>4, ReturnSkippedAlone, Outcomes DEF Next
  <2>5. CASE Return(t)
    BY <2>5, ReturnAlone DEF Next
  <2> QED
    BY <1>3, <2>1, <2>2, <2>3, <2>4, <2>5 DEF Continue
<1>4. ASSUME NEW c \in Cluster, LabVIEWReplaces(c)
      PROVE  OneIInv' /\ [Next]_vars
  BY <1>4, ReplacesAlone DEF Next
<1> QED
  BY <1>1, <1>2, <1>3, <1>4 DEF SharedNext

LEMMA OneInit == SharedInit => OneIInv
<1> SUFFICES ASSUME SharedInit PROVE OneIInv
  OBVIOUS
<1>1. \A t \in Thread : frame[t].pc = "idle"
  BY DEF SharedInit, Idle
<1> QED
  BY <1>1, ShapeInit DEF SharedInit, OneIInv, Alone, Progress, Reached

(* Where everybody calls through one UPtr, its mutable borrow makes the steps *)
(* of a wrapped call the one step of ErrorCluster, whose theorems so hold of  *)
(* the cluster that every caller is shown.                                    *)
THEOREM SharedRefines ==
  ASSUME OnePointer
  PROVE  SharedSpec => RefinesErrorCluster
<1>1. SharedInit => Init
  BY DEF SharedInit
<1> QED
  BY <1>1, OneInit, OneStep, PTL DEF SharedSpec, RefinesErrorCluster, Spec

(* The caller of a call taken in its steps is so shown what ErrorCluster *)
(* promises of the whole call: the first error of a chain of calls stays, *)
(* and a closure that fails has its code and severity in the cluster.     *)
COROLLARY SharedKeepsErrors ==
  ASSUME OnePointer
  PROVE  SharedSpec => [](FirstErrorWins /\ FailureIsRecorded)
BY SharedRefines, ChainKeepsFirstError, FailuresAreRecorded, PTL DEF RefinesErrorCluster
=============================================================================
