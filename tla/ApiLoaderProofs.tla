--------------------------- MODULE ApiLoaderProofs ---------------------------
(***************************************************************************)
(* Proofs about ApiLoader for every number of threads.                     *)
(*                                                                         *)
(* FoundIfPresent speaks of a finished lookup; its strengthening Looked    *)
(* follows the lookup through the phases: whatever it has passed by was    *)
(* not there when it began.                                                *)
(***************************************************************************)
EXTENDS ApiLoader, TLAPS

(* What the phase of a cell says of the libraries at the first call. *)
Looked ==
  \A c \in Cell :
    /\ cell[c] # "unset" => \A l \in atFirst[c] : <<l, c>> \in present
    /\ cell[c] \in {"lvrt", "report", "err"} => "self" \notin atFirst[c]
    /\ cell[c] \in {"report", "err"} => "lvrt" \notin atFirst[c]

IInv ==
  /\ TypeOK
  /\ OneAnswer
  /\ Looked

(* The state before the first call satisfies the inductive invariant. *)
LEMMA InitIInv == Init => IInv
BY LoaderAssumption
DEF Init, IInv, TypeOK, OneAnswer, Looked, Phase, Cell, Library

(* Tables that appear later take nothing away from what a lookup has seen. *)
LEMMA AppearStep ==
  ASSUME IInv, NEW l \in Library, NEW c \in Cell, Appear(l, c)
  PROVE  IInv'
<1> USE DEF IInv, TypeOK, Appear
<1>1. TypeOK'
  OBVIOUS
<1>2. OneAnswer'
  BY DEF OneAnswer
<1>3. Looked'
  BY DEF Looked
<1> QED
  BY <1>1, <1>2, <1>3

(* Calling an accessor changes no cell. *)
LEMMA CallStep ==
  ASSUME IInv, NEW t \in Thread, NEW c \in Cell, Call(t, c)
  PROVE  IInv'
<1> USE DEF IInv, TypeOK, Call
<1>1. TypeOK'
  OBVIOUS
<1>2. OneAnswer'
  BY DEF OneAnswer
<1>3. Looked'
  BY DEF Looked
<1> QED
  BY <1>1, <1>2, <1>3

(* The thread that enters the initialiser records what is present. *)
LEMMA EnterStep ==
  ASSUME IInv, NEW t \in Thread, Enter(t)
  PROVE  IInv'
<1> USE DEF IInv, TypeOK, Enter
<1>1. call[t] \in Cell
  OBVIOUS
<1>2. TypeOK'
  BY <1>1 DEF Phase
<1>3. OneAnswer'
  BY <1>1 DEF OneAnswer
<1>4. Looked'
  BY <1>1 DEF Looked
<1> QED
  BY <1>2, <1>3, <1>4

(* Looking in the process itself passes by only what was not there. *)
LEMMA LoadSelfStep ==
  ASSUME IInv, NEW t \in Thread, NEW c \in Cell, LoadSelf(t, c)
  PROVE  IInv'
<1> USE DEF IInv, TypeOK, LoadSelf, Advance
<1>1. TypeOK'
  BY DEF Phase
<1>2. OneAnswer'
  BY DEF OneAnswer
<1>3. Looked'
  BY DEF Looked
<1> QED
  BY <1>1, <1>2, <1>3

(* Looking in lvrt comes after self, and passes by only what was not there. *)
LEMMA LoadLvrtStep ==
  ASSUME IInv, NEW t \in Thread, NEW c \in Cell, LoadLvrt(t, c)
  PROVE  IInv'
<1> USE DEF IInv, TypeOK, LoadLvrt, Advance
<1>1. TypeOK'
  BY DEF Phase
<1>2. OneAnswer'
  BY DEF OneAnswer
<1>3. Looked'
  BY DEF Looked
<1> QED
  BY <1>1, <1>2, <1>3

(* Printing the failure ends a lookup that found nothing. *)
LEMMA ReportStep ==
  ASSUME IInv, NEW t \in Thread, NEW c \in Cell, Report(t, c)
  PROVE  IInv'
<1> USE DEF IInv, TypeOK, Report, Advance
<1>1. TypeOK'
  BY DEF Phase
<1>2. OneAnswer'
  BY DEF OneAnswer
<1>3. Looked'
  BY DEF Looked
<1> QED
  BY <1>1, <1>2, <1>3

(* An accessor returns what the finished cell holds. *)
LEMMA ReturnStep ==
  ASSUME IInv, NEW t \in Thread, Return(t)
  PROVE  IInv'
<1> USE DEF IInv, TypeOK, Return, Done
<1>1. call[t] \in Cell
  OBVIOUS
<1>2. TypeOK'
  BY <1>1
<1>3. OneAnswer'
  BY <1>1 DEF OneAnswer
<1>4. Looked'
  BY <1>1 DEF Looked
<1> QED
  BY <1>2, <1>3, <1>4

(* Next, one disjunct at a time. *)
LEMMA NextCases ==
  ASSUME Next
  PROVE
    \/ \E l \in Library, c \in Cell : Appear(l, c)
    \/ \E t \in Thread, c \in Cell : Call(t, c)
    \/ \E t \in Thread : Enter(t)
    \/ \E t \in Thread, c \in Cell : LoadSelf(t, c)
    \/ \E t \in Thread, c \in Cell : LoadLvrt(t, c)
    \/ \E t \in Thread, c \in Cell : Report(t, c)
    \/ \E t \in Thread : Return(t)
BY DEF Next, Proceed

(* Every step of every thread, and of LabVIEW, preserves the invariant. *)
LEMMA StepIInv == IInv /\ [Next]_vars => IInv'
<1> SUFFICES ASSUME IInv, [Next]_vars PROVE IInv'
  OBVIOUS
<1>1. CASE UNCHANGED vars
  BY <1>1 DEF vars, IInv, TypeOK, OneAnswer, Looked
<1>2. CASE Next
  BY <1>2, NextCases, AppearStep, CallStep, EnterStep, LoadSelfStep, LoadLvrtStep,
     ReportStep, ReturnStep
<1> QED
  BY <1>1, <1>2

(* The inductive invariant holds in every reachable state. *)
LEMMA Invariance == Spec => []IInv
BY InitIInv, StepIInv, PTL DEF Spec

(* A cell is always in one of the phases of the initialiser or finished. *)
THEOREM LoaderTyped == Spec => []TypeOK
<1>1. IInv => TypeOK
  BY DEF IInv
<1> QED
  BY <1>1, Invariance, PTL

(* All threads, at all times, get the same answer from an accessor. *)
THEOREM AnswersAgree == Spec => []OneAnswer
<1>1. IInv => OneAnswer
  BY DEF IInv
<1> QED
  BY <1>1, Invariance, PTL

(* A table that was there when the first thread asked is found. *)
THEOREM LookupFinds == Spec => []FoundIfPresent
<1>1. IInv => FoundIfPresent
  BY DEF IInv, TypeOK, Looked, FoundIfPresent, Library
<1> QED
  BY <1>1, Invariance, PTL

(* A step of the loader decides a cell once or leaves its answer alone. *)
LEMMA OutcomeStep ==
  ASSUME IInv, [Next]_vars, NEW c \in Cell
  PROVE  \/ Outcome(c)' = Outcome(c)
         \/ Outcome(c) = "unset" /\ Outcome(c)' \in {"ok", "err"}
<1> USE DEF IInv, TypeOK, Outcome, Done
<1>1. CASE UNCHANGED vars
  BY <1>1 DEF vars
<1>2. ASSUME NEW l \in Library, NEW d \in Cell, Appear(l, d)
      PROVE  Outcome(c)' = Outcome(c)
  BY <1>2 DEF Appear
<1>3. ASSUME NEW t \in Thread, NEW d \in Cell, Call(t, d)
      PROVE  Outcome(c)' = Outcome(c)
  BY <1>3 DEF Call
<1>4. ASSUME NEW t \in Thread, Enter(t)
      PROVE  Outcome(c)' = Outcome(c)
  BY <1>4 DEF Enter
<1>5. ASSUME NEW t \in Thread, Return(t)
      PROVE  Outcome(c)' = Outcome(c)
  BY <1>5 DEF Return
<1>6. ASSUME NEW t \in Thread, NEW d \in Cell,
             LoadSelf(t, d) \/ LoadLvrt(t, d) \/ Report(t, d)
      PROVE  \/ Outcome(c)' = Outcome(c)
             \/ Outcome(c) = "unset" /\ Outcome(c)' \in {"ok", "err"}
  BY <1>6 DEF LoadSelf, LoadLvrt, Report, Advance
<1> QED
  BY <1>1, <1>2, <1>3, <1>4, <1>5, <1>6, NextCases

(* Both accessors implement the cell that OwnedHandle is written against. *)
THEOREM LoaderIsLazyCell == Spec => RefinesLazyCell
<1>1. Init => Memory!CellInit /\ Sync!CellInit
  BY DEF Init, Memory!CellInit, Sync!CellInit, Outcome, Done, Cell
<1>2. IInv /\ [Next]_vars =>
        /\ [\E r \in {"ok", "err"} : Memory!MemoryApi(r)]_(Outcome("memory"))
        /\ [\E r \in {"ok", "err"} : Sync!MemoryApi(r)]_(Outcome("sync"))
  BY OutcomeStep DEF Memory!MemoryApi, Sync!MemoryApi, Cell
<1> QED
  BY <1>1, <1>2, Invariance, PTL DEF Spec, RefinesLazyCell, Memory!CellSpec, Sync!CellSpec
=============================================================================
