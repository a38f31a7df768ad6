----------------------------- MODULE UserEvents -----------------------------
(***************************************************************************)
(* User events and occurrences (sync.rs) as the test library generates     *)
(* them: a function builds a cluster with a string in LabVIEW memory,      *)
(* posts it and, on the way out, drops what it owns.  Composes the memory  *)
(* manager with two lazily loaded APIs, memory and sync.                   *)
(*                                                                         *)
(* PostLVUserEvent is LabVIEW's: it queues a copy of the cluster for every *)
(* event structure that is registered, and is done with the caller's data  *)
(* when it returns.  It "does not specify whether [the data] will not be   *)
(* modified": where it does, it keeps the caller's string for a queue and  *)
(* leaves the null handle in the cluster.                                  *)
(***************************************************************************)
EXTENDS MemoryManager, Naturals, Sequences

CONSTANTS
  Thread,
  Structure,   \* the event structures registered for the event
  MaxQueue,    \* LabVIEW reports mFullErr beyond so many queued events
  Workflow,    \* of "owned" and "handle", the clusters the program posts
  Modified     \* of Workflow, the clusters PostLVUserEvent may modify

ASSUME EventAssumption ==
  /\ Workflow \subseteq {"owned", "handle"}
  /\ MaxQueue \in Nat
  /\ Modified \subseteq Workflow

VARIABLES
  mem, sync,   \* the cells of memory_api() and sync_api()
  up,          \* FALSE once a panic has reached an extern "C" function
  call,        \* what each thread is in the middle of
  queue        \* the events each structure has yet to handle

vars == <<live, data, mem, sync, up, call, queue>>

Memory == INSTANCE LazyCell WITH api <- mem
Sync == INSTANCE LazyCell WITH api <- sync

(* id is the field of the cluster, mystr the string that is dropped: one of *)
(* them is the other in generate_event_cluster, where the cluster owns it.  *)
Frame == [pc : {"idle", "post", "occur", "drop"},
          kind : {"none", "number", "occurence"} \cup Workflow,
          id : Handle \cup {Null}, mystr : Handle \cup {Null},
          text : Data \cup {Null}]      \* history: what mystr was made from

Idle == [pc |-> "idle", kind |-> "none", id |-> Null, mystr |-> Null, text |-> Null]

(* An event remembers what its string should be. *)
Event == [id : Handle \cup {Null}, text : Data \cup {Null}]

TypeOK ==
  /\ live \subseteq Handle
  /\ data \in [Handle -> Data \cup {Uninit}]
  /\ {mem, sync} \subseteq {"unset", "ok", "err"} /\ up \in BOOLEAN
  /\ call \in [Thread -> Frame]
  /\ \A t \in Thread : call[t].pc = "idle" => call[t] = Idle
  /\ queue \in [Structure -> Seq(Event)]
  /\ \A r \in Structure : Len(queue[r]) <= MaxQueue

Init ==
  /\ live = {}
  /\ data = [h \in Handle |-> Uninit]
  /\ Memory!CellInit /\ Sync!CellInit
  /\ up = TRUE
  /\ call = [t \in Thread |-> Idle]
  /\ queue = [r \in Structure |-> <<>>]

-----------------------------------------------------------------------------
(* generate_event_3 and generate_occurence have nothing in LabVIEW memory. *)
Enter(t, kind) ==
  /\ up /\ call[t].pc = "idle" /\ kind \in {"number", "occurence"}
  /\ call' = [call EXCEPT ![t] = [Idle EXCEPT !.kind = kind,
                  !.pc = IF kind = "number" THEN "post" ELSE "occur"]]
  /\ UNCHANGED <<live, data, mem, sync, up, queue>>

(* Faulty variant: the handle outlives the string it was lent by. *)
FromDataDropped(t, kind, h, d) ==
  /\ up /\ call[t].pc = "idle" /\ kind \in Workflow
  /\ Memory!MemoryApi("ok")
  /\ h \in Handle \ live
  /\ call' = [call EXCEPT ![t] =
                [pc |-> "post", kind |-> kind, id |-> h, mystr |-> Null, text |-> d]]
  /\ UNCHANGED <<live, data, sync, up, queue>>

(* generate_event_cluster, and generate_event_cluster_handle_from_owned, whose *)
(* cluster holds what handle_to_inner lends: from_data, then the cluster.      *)
FromData(t, kind, h, d) ==
  /\ up /\ call[t].pc = "idle" /\ kind \in Workflow
  /\ Memory!MemoryApi("ok")
  /\ Allocate(h, d)
  /\ call' = [call EXCEPT ![t] =
                [pc |-> "post", kind |-> kind, id |-> h, mystr |-> h, text |-> d]]
  /\ UNCHANGED <<sync, up, queue>>

(* The unwrap of from_data, without memory or an API: nothing may unwind out of *)
(* an extern "C" function, so the process ends.                                 *)
Panic(t) ==
  /\ up /\ call[t].pc = "idle"
  /\ \E r \in {"ok", "err"} : Memory!MemoryApi(r)
  /\ up' = FALSE
  /\ UNCHANGED <<live, data, sync, call, queue>>

-----------------------------------------------------------------------------
(* Faulty variant: after an error the data is forgotten. *)
ReturnForgets(t, ok) ==
  call' = [call EXCEPT ![t] = IF ok THEN [@ EXCEPT !.pc = "drop"] ELSE Idle]

(* post and set return; the status waits for the drops at the end of the scope. *)
Return(t, ok) == call' = [call EXCEPT ![t].pc = "drop"]

(* LabVIEW queues copies: one new block for each structure. *)
Copies(t, copy) ==
  /\ live' = live \cup {copy[r] : r \in Structure}
  /\ data' = [h \in Handle |-> IF \E r \in Structure : copy[r] = h
                                THEN data[call[t].id] ELSE data[h]]
  /\ queue' = [r \in Structure |->
                 Append(queue[r], [id |-> copy[r], text |-> call[t].text])]

(* The new blocks LabVIEW can allocate, one for each structure. *)
Fresh == {f \in [Structure -> Handle \ live] :
            \A r, s \in Structure : f[r] = f[s] => r = s}

PostLVUserEvent(t) ==
  IF call[t].id = Null
  THEN /\ queue' = [r \in Structure |-> Append(queue[r], [id |-> Null, text |-> Null])]
       /\ Return(t, TRUE)
       /\ UNCHANGED <<live, data>>
  ELSE \/ \E copy \in Fresh : Copies(t, copy) /\ Return(t, TRUE)
       \/ /\ call[t].kind \in Modified    \* one structure gets the caller's block, the cluster none
          /\ \E r \in Structure, f \in Fresh :
               LET copy == [f EXCEPT ![r] = call[t].id] IN Copies(t, copy)
          /\ call' = [call EXCEPT ![t].pc = "drop", ![t].id = Null]

(* Faulty variant: a full queue is waited for. *)
postWaits(t) ==
  /\ up /\ call[t].pc = "post"
  /\ \/ Sync!MemoryApi("err") /\ Return(t, FALSE) /\ UNCHANGED <<live, data, queue>>
     \/ /\ Sync!MemoryApi("ok")
        /\ PostLVUserEvent(t) /\ \A r \in Structure : Len(queue[r]) < MaxQueue
  /\ UNCHANGED <<mem, up>>

(* LVUserEvent::post; an error is one of sync_api(), or of LabVIEW, whose *)
(* reference may be gone and whose memory may be full.                    *)
post(t) ==
  /\ up /\ call[t].pc = "post"
  /\ \/ Sync!MemoryApi("err") /\ Return(t, FALSE) /\ UNCHANGED <<live, data, queue>>
     \/ /\ Sync!MemoryApi("ok")
        /\ \/ PostLVUserEvent(t) /\ \A r \in Structure : Len(queue[r]) < MaxQueue
           \/ Return(t, FALSE) /\ UNCHANGED <<live, data, queue>>
  /\ UNCHANGED <<mem, up>>

(* Occurence::set. *)
set(t) ==
  /\ up /\ call[t].pc = "occur"
  /\ \E r \in {"ok", "err"} : Sync!MemoryApi(r) /\ Return(t, r = "ok")
  /\ UNCHANGED <<live, data, mem, up, queue>>

(* The end of the scope: the cluster drops its LStrOwned, a cluster of handles *)
(* drops nothing, but the variable mystr it was lent by is dropped.            *)
Owner(f) == IF f.kind = "owned" THEN f.id ELSE f.mystr

Leave(t) == call' = [call EXCEPT ![t] = Idle]

Drop(t) ==
  /\ up /\ call[t].pc = "drop"
  /\ LET h == Owner(call[t]) IN
       IF h = Null THEN UNCHANGED <<live, data, mem>>
       ELSE \E r \in {"ok", "err"} :
              /\ Memory!MemoryApi(r)
              /\ IF r = "ok" /\ h \in live THEN DSDisposeHandle(h)
                 ELSE UNCHANGED <<live, data>>
  /\ Leave(t)
  /\ UNCHANGED <<sync, up, queue>>

(* An event structure handles its next event, and LabVIEW frees the copy. *)
HandleEvent(r) ==
  /\ up /\ queue[r] # <<>>
  /\ queue' = [queue EXCEPT ![r] = Tail(@)]
  /\ IF Head(queue[r]).id \in live THEN DSDisposeHandle(Head(queue[r]).id)
     ELSE UNCHANGED <<live, data>>
  /\ UNCHANGED <<mem, sync, up, call>>

-----------------------------------------------------------------------------
Start(t) ==
  \/ \E kind \in {"number", "occurence"} : Enter(t, kind)
  \/ \E kind \in Workflow, h \in Handle, d \in Data : FromData(t, kind, h, d)
  \/ Panic(t)

Continue(t) == post(t) \/ set(t) \/ Drop(t)

Next ==
  \/ \E t \in Thread : Start(t) \/ Continue(t)
  \/ \E r \in Structure : HandleEvent(r)

(* A function LabVIEW has called runs on; it never waits for anybody. *)
Spec == Init /\ [][Next]_vars /\ \A t \in Thread : WF_vars(Continue(t))

-----------------------------------------------------------------------------
Posted == UNION {{queue[r][k].id : k \in 1..Len(queue[r])} : r \in Structure}
Owned == {Owner(call[t]) : t \in Thread}

(* "This will manage the lifetime and free the handle on drop": a string is *)
(* the function's or LabVIEW's, never both, and on every way out of post,   *)
(* the sync API missing included, it is freed and none is left over.        *)
StringsAccounted ==
  /\ live = (Posted \cup Owned) \ {Null}
  /\ Posted \cap Owned \subseteq {Null}

(* What a structure will read is what the function built, although the string *)
(* it was copied from is freed as soon as post returns and its address reused.*)
EventsIntact ==
  \A r \in Structure : \A k \in 1..Len(queue[r]) :
    LET e == queue[r][k] IN e.id # Null => e.id \in live /\ data[e.id] = e.text

(* Every call LabVIEW makes comes back, whatever the APIs answer and *)
(* whichever other functions run, unless the process ends.           *)
CallsReturn == \A t \in Thread : call[t].pc # "idle" ~> (call[t].pc = "idle" \/ ~up)
=============================================================================
