------------------------------ MODULE ApiLoader ------------------------------
(***************************************************************************)
(* Finding the LabVIEW functions (labview.rs).  The crate keeps one lazy   *)
(* cell per function table, SYNC_API and MEMORY_API.  The first thread to  *)
(* call an accessor runs the initialiser, threads that come meanwhile wait *)
(* for it, and the result, good or bad, stays for ever.  The initialiser   *)
(* looks for the table in the process itself and then in the library lvrt, *)
(* two steps between which LabVIEW may go on loading.                      *)
(***************************************************************************)
CONSTANTS Thread, NoThread

Cell == {"sync", "memory"}
Library == {"self", "lvrt"}

ASSUME LoaderAssumption == NoThread \notin Thread

VARIABLES
  present,   \* the tables that can be resolved now: pairs <<library, cell>>
  cell,      \* the state of each LazyLock
  loader,    \* the thread that runs the initialiser of a cell, or NoThread
  call,      \* the cell each thread is asking for, or "none"
  answer,    \* the answer each thread last got from each cell, or "none"
  atFirst    \* history: the libraries that had the table when loading began

vars == <<present, cell, loader, call, answer, atFirst>>

Phase == {"unset", "self", "lvrt", "report"}

TypeOK ==
  /\ present \subseteq Library \X Cell
  /\ cell \in [Cell -> Phase \cup {"ok", "err"}]
  /\ loader \in [Cell -> Thread \cup {NoThread}]
  /\ call \in [Thread -> Cell \cup {"none"}]
  /\ answer \in [Thread -> [Cell -> {"none", "ok", "err"}]]
  /\ atFirst \in [Cell -> SUBSET Library]

Init ==
  /\ present \in SUBSET (Library \X Cell)
  /\ cell = [c \in Cell |-> "unset"]
  /\ loader = [c \in Cell |-> NoThread]
  /\ call = [t \in Thread |-> "none"]
  /\ answer = [t \in Thread |-> [c \in Cell |-> "none"]]
  /\ atFirst = [c \in Cell |-> {}]

Done(c) == cell[c] \in {"ok", "err"}

-----------------------------------------------------------------------------
(* LabVIEW, or its run-time engine, finishes loading a library. *)
Appear(l, c) ==
  /\ present' = present \cup {<<l, c>>}
  /\ UNCHANGED <<cell, loader, call, answer, atFirst>>

(* sync_api() or memory_api() is called. *)
Call(t, c) ==
  /\ call[t] = "none"
  /\ call' = [call EXCEPT ![t] = c]
  /\ UNCHANGED <<present, cell, loader, answer, atFirst>>

(* LazyLock: one thread enters the initialiser, the others block. *)
Enter(t) ==
  LET c == call[t]
  IN  /\ c # "none"
      /\ cell[c] = "unset"
      /\ cell' = [cell EXCEPT ![c] = "self"]
      /\ loader' = [loader EXCEPT ![c] = t]
      /\ atFirst' = [atFirst EXCEPT ![c] = {l \in Library : <<l, c>> \in present}]
      /\ UNCHANGED <<present, call, answer>>

(* The initialiser of c goes on to the next phase, or ends with a result. *)
Advance(c, phase) ==
  /\ cell' = [cell EXCEPT ![c] = phase]
  /\ loader' = IF phase \in {"ok", "err"} THEN [loader EXCEPT ![c] = NoThread] ELSE loader
  /\ UNCHANGED <<present, call, answer, atFirst>>

(* Faulty variant: the fallback is left out. *)
LoadSelfOnly(t, c) ==
  /\ loader[c] = t /\ cell[c] = "self"
  /\ Advance(c, IF <<"self", c>> \in present THEN "ok" ELSE "err")

(* load_container: Container::load_self(), which fails unless every symbol resolves. *)
LoadSelf(t, c) ==
  /\ loader[c] = t /\ cell[c] = "self"
  /\ Advance(c, IF <<"self", c>> \in present THEN "ok" ELSE "lvrt")

(* load_container: Container::load(LVRT_PATH).  Only MEMORY_API reports the failure. *)
LoadLvrt(t, c) ==
  /\ loader[c] = t /\ cell[c] = "lvrt"
  /\ Advance(c, IF <<"lvrt", c>> \in present THEN "ok"
                ELSE IF c = "memory" THEN "report" ELSE "err")

(* Faulty variant: dlopen2 failures wrapped as a LabVIEW status code. *)
LoadErrorStatus == "LabviewError"

(* What load_container maps a failure to. *)
LoadError == "NoLabviewApi"

(* To display an error made of a status code, LVStatusCode::description asks *)
(* memory_api() for its text, and so waits for the cell "memory".            *)
Displayable(error) == error = "LabviewError" => Done("memory")

(* eprintln!("Failed to load ... {e}"), still inside the initialiser. *)
Report(t, c) ==
  /\ loader[c] = t /\ cell[c] = "report"
  /\ Displayable(LoadError)
  /\ Advance(c, "err")

(* Faulty variant: a failed initialiser leaves the cell to be tried again. *)
ReturnRetry(t) ==
  LET c == call[t]
  IN  /\ c # "none" /\ Done(c)
      /\ answer' = [answer EXCEPT ![t][c] = cell[c]]
      /\ call' = [call EXCEPT ![t] = "none"]
      /\ cell' = IF cell[c] = "err" THEN [cell EXCEPT ![c] = "unset"] ELSE cell
      /\ UNCHANGED <<present, loader, atFirst>>

(* Faulty variant: an accessor that does not wait for the initialiser. *)
ReturnEarly(t) ==
  LET c == call[t]
  IN  /\ c # "none" /\ cell[c] # "unset"
      /\ answer' = [answer EXCEPT ![t][c] = cell[c]]
      /\ call' = [call EXCEPT ![t] = "none"]
      /\ UNCHANGED <<present, cell, loader, atFirst>>

(* X_API.as_ref().map_err(|e| e.clone()). *)
Return(t) ==
  LET c == call[t]
  IN  /\ c # "none" /\ Done(c)
      /\ answer' = [answer EXCEPT ![t][c] = cell[c]]
      /\ call' = [call EXCEPT ![t] = "none"]
      /\ UNCHANGED <<present, cell, loader, atFirst>>

-----------------------------------------------------------------------------
(* What thread t does once it is inside an accessor. *)
Proceed(t) ==
  \/ Enter(t)
  \/ \E c \in Cell : LoadSelf(t, c) \/ LoadLvrt(t, c) \/ Report(t, c)
  \/ Return(t)

Next ==
  \/ \E l \in Library, c \in Cell : Appear(l, c)
  \/ \E t \in Thread, c \in Cell : Call(t, c)
  \/ \E t \in Thread : Proceed(t)

Spec == Init /\ [][Next]_vars

(* A thread inside an accessor runs on; dlopen returns. *)
Fairness == \A t \in Thread : WF_vars(Proceed(t))

FairSpec == Spec /\ Fairness

-----------------------------------------------------------------------------
(* No two threads ever get different answers from one cell, whenever they  *)
(* asked and however much LabVIEW has loaded in between.  An owned handle  *)
(* created through the API can therefore always be freed through it.       *)
OneAnswer ==
  \A t \in Thread, c \in Cell : answer[t][c] # "none" => answer[t][c] = cell[c]

(* A table that was there in one of the libraries when the first call came *)
(* is found: trying the process first cannot lose what lvrt offers, and    *)
(* loading that goes on during the lookup cannot hide what it had.         *)
FoundIfPresent == \A c \in Cell : cell[c] = "err" => atFirst[c] = {}

(* Every call of an accessor returns, also when nothing can be loaded and *)
(* the failure is reported from inside the initialiser.                   *)
CallsReturn == \A t \in Thread : call[t] # "none" ~> call[t] = "none"

(* Each accessor implements the cell the rest of the crate relies on. *)
Outcome(c) == IF Done(c) THEN cell[c] ELSE "unset"
Memory == INSTANCE LazyCell WITH api <- Outcome("memory")
Sync == INSTANCE LazyCell WITH api <- Outcome("sync")
RefinesLazyCell == Memory!CellSpec /\ Sync!CellSpec
=============================================================================
