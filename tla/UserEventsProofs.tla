-------------------------- MODULE UserEventsProofs --------------------------
(***************************************************************************)
(* Proofs about UserEvents for every set of threads, event structures,     *)
(* handles and strings and every length of the queues, where LabVIEW       *)
(* modifies only the clusters that own their string.                       *)
(*                                                                         *)
(* StringsAccounted speaks of sets of handles; that no two owners share a  *)
(* handle, and that an owner has loaded the API which will free it, is     *)
(* what IInv adds to it.                                                   *)
(***************************************************************************)
EXTENDS UserEvents, SequenceTheorems, TLAPS

Own(t) == Owner(call[t])

(* What a call holds at each of its steps. *)
Shape ==
  \A t \in Thread :
    /\ call[t].pc = "idle" => call[t] = Idle
    /\ call[t].pc = "occur" => call[t].id = Null /\ call[t].mystr = Null
    /\ call[t].pc = "post" /\ call[t].id = Null => call[t].mystr = Null
    /\ call[t].pc = "post" /\ call[t].id # Null =>
         /\ call[t].mystr = call[t].id
         /\ call[t].kind \in Workflow
         /\ data[call[t].id] = call[t].text

(* An owner got its string from a loaded API. *)
ApiLoaded == \A t \in Thread : Own(t) # Null => mem = "ok"

(* Every allocated string is an event's or a call's ... *)
Kept ==
  \A h \in live : \/ \E r \in Structure : \E k \in 1..Len(queue[r]) : queue[r][k].id = h
                  \/ \E t \in Thread : Own(t) = h

(* ... those of events are as they were posted ... *)
EventsUsable ==
  \A r \in Structure : \A k \in 1..Len(queue[r]) :
    queue[r][k].id # Null =>
      queue[r][k].id \in live /\ data[queue[r][k].id] = queue[r][k].text

CallsUsable == \A t \in Thread : Own(t) # Null => Own(t) \in live

(* ... and no string has two owners. *)
Apart ==
  /\ \A t, u \in Thread : t # u /\ Own(t) = Own(u) => Own(t) = Null
  /\ \A t \in Thread, r \in Structure : \A k \in 1..Len(queue[r]) :
       queue[r][k].id = Own(t) => Own(t) = Null
  /\ \A r, s \in Structure : \A k \in 1..Len(queue[r]), l \in 1..Len(queue[s]) :
       queue[r][k].id = queue[s][l].id /\ queue[r][k].id # Null => r = s /\ k = l

IInv == TypeOK /\ Shape /\ ApiLoaded /\ Kept /\ EventsUsable /\ CallsUsable /\ Apart

LEMMA Unfolded ==
  ASSUME IInv
  PROVE  StringsAccounted /\ EventsIntact
<1>1. EventsIntact
  BY DEF IInv, EventsUsable, EventsIntact
<1>2. \A h : h \in Posted <=> \E r \in Structure : \E k \in 1..Len(queue[r]) : queue[r][k].id = h
  BY DEF Posted
<1>3. \A h : h \in Owned <=> \E t \in Thread : Own(t) = h
  BY DEF Owned, Own
<1>4. Null \notin live
  BY MemoryAssumption DEF IInv, TypeOK
<1>5. StringsAccounted
  BY <1>2, <1>3, <1>4 DEF IInv, Kept, EventsUsable, CallsUsable, Apart, StringsAccounted
<1> QED
  BY <1>1, <1>5

(* The owner of a call's string is a handle or nobody. *)
LEMMA OwnTyped ==
  ASSUME TypeOK, NEW t \in Thread
  PROVE  Own(t) \in Handle \cup {Null}
BY DEF TypeOK, Frame, Own, Owner

LEMMA QueueTyped ==
  ASSUME TypeOK, NEW r \in Structure
  PROVE  /\ queue[r] \in Seq(Event) /\ Len(queue[r]) \in Nat
         /\ \A k \in 1..Len(queue[r]) : queue[r][k] \in Event
BY ElementOfSeq DEF TypeOK

LEMMA InitHolds == Init => IInv
<1> SUFFICES ASSUME Init PROVE IInv
  OBVIOUS
<1> USE MemoryAssumption, EventAssumption
    DEF Init, Memory!CellInit, Sync!CellInit, Idle
<1>1. TypeOK
  BY EmptySeq DEF TypeOK, Frame
<1>2. \A t \in Thread : Own(t) = Null
  BY DEF Own, Owner
<1>3. \A r \in Structure : Len(queue[r]) = 0
  BY EmptySeq
<1>4. Shape
  BY DEF Shape
<1>5. ApiLoaded /\ Kept /\ EventsUsable /\ CallsUsable
  BY <1>2, <1>3 DEF ApiLoaded, Kept, EventsUsable, CallsUsable
<1>6. Apart
  BY <1>2, <1>3 DEF Apart
<1> QED
  BY <1>1, <1>4, <1>5, <1>6 DEF IInv

(* Steps that leave the heap, the queues and the strings of all calls alone. *)
LEMMA Untouched ==
  ASSUME IInv, UNCHANGED <<live, data, queue>>, TypeOK', Shape',
         \A t \in Thread : Own(t)' = Own(t),
         mem = "ok" => mem' = "ok"
  PROVE  IInv'
<1> USE DEF IInv
<1>1. ApiLoaded' /\ Kept' /\ EventsUsable' /\ CallsUsable'
  BY DEF ApiLoaded, Kept, EventsUsable, CallsUsable
<1>2. Apart'
  BY DEF Apart
<1> QED
  BY <1>1, <1>2

LEMMA EnterStep ==
  ASSUME IInv, NEW t \in Thread, NEW kind, Enter(t, kind)
  PROVE  IInv'
<1> USE MemoryAssumption, EventAssumption DEF IInv, Enter
<1> DEFINE f == [Idle EXCEPT !.kind = kind, !.pc = IF kind = "number" THEN "post" ELSE "occur"]
<1>1. /\ call' = [call EXCEPT ![t] = f] /\ f \in Frame
      /\ f.id = Null /\ f.mystr = Null /\ f.pc \in {"post", "occur"}
      /\ call[t] = Idle
  BY DEF Idle, Frame, Shape
<1> HIDE DEF f
<1>2. TypeOK'
  BY <1>1 DEF TypeOK
<1>3. Shape'
  <2>1. \A u \in Thread : call'[u] = IF u = t THEN f ELSE call[u]
    BY <1>1 DEF TypeOK
  <2>2. data' = data
    OBVIOUS
  <2>3. SUFFICES ASSUME NEW u \in Thread
        PROVE  /\ call'[u].pc = "idle" => call'[u] = Idle
               /\ call'[u].pc = "occur" => call'[u].id = Null /\ call'[u].mystr = Null
               /\ call'[u].pc = "post" /\ call'[u].id = Null => call'[u].mystr = Null
               /\ call'[u].pc = "post" /\ call'[u].id # Null =>
                    /\ call'[u].mystr = call'[u].id
                    /\ call'[u].kind \in Workflow
                    /\ data'[call'[u].id] = call'[u].text
    BY DEF Shape
  <2>4. CASE u = t
    BY ONLY <1>1, <2>1, <2>4
  <2>5. CASE u # t
    <3>1. call'[u] = call[u]
      BY <2>1, <2>5
    <3> QED
      BY <2>2, <3>1 DEF Shape
  <2> QED
    BY <2>4, <2>5
<1>4. \A u \in Thread : Own(u)' = Own(u)
  BY <1>1 DEF TypeOK, Own, Owner, Idle
<1> QED
  BY <1>2, <1>3, <1>4, Untouched

LEMMA PanicStep ==
  ASSUME IInv, NEW t \in Thread, Panic(t)
  PROVE  IInv'
<1> USE MemoryAssumption, EventAssumption DEF IInv, Panic, Memory!MemoryApi
<1>1. TypeOK'
  BY DEF TypeOK
<1>2. Shape'
  BY DEF Shape
<1>3. \A u \in Thread : Own(u)' = Own(u)
  BY DEF Own
<1> QED
  BY <1>1, <1>2, <1>3, Untouched

LEMMA FromDataStep ==
  ASSUME IInv, NEW t \in Thread, NEW kind, NEW h \in Handle, NEW d \in Data,
         FromData(t, kind, h, d)
  PROVE  IInv'
<1> USE MemoryAssumption, EventAssumption DEF IInv, FromData, Allocate, Memory!MemoryApi
<1> DEFINE f == [pc |-> "post", kind |-> kind, id |-> h, mystr |-> h, text |-> d]
<1>1. /\ call' = [call EXCEPT ![t] = f] /\ f \in Frame
      /\ f.id = h /\ f.mystr = h /\ f.pc = "post" /\ f.kind \in Workflow /\ f.text = d
      /\ call[t] = Idle
      /\ data' = [data EXCEPT ![h] = d] /\ live' = live \cup {h} /\ h \notin live
  BY DEF Frame, Shape
<1> HIDE DEF f
<1>2. TypeOK'
  BY <1>1 DEF TypeOK
<1>3. \A u \in Thread : Own(u)' = IF u = t THEN h ELSE Own(u)
  BY <1>1 DEF TypeOK, Own, Owner
<1>4. Own(t) = Null
  BY <1>1 DEF Own, Owner, Idle
<1>5. Shape'
  <2>1. \A u \in Thread \ {t} : call[u].pc = "post" /\ call[u].id # Null => call[u].id # h
    BY <1>1 DEF Shape, CallsUsable, Own, Owner
  <2> QED
    BY <1>1, <2>1 DEF TypeOK, Frame, Shape
<1>6. ApiLoaded'
  BY DEF ApiLoaded
<1>7. Kept'
  BY <1>1, <1>3, <1>4 DEF Kept, TypeOK
<1>8. EventsUsable'
  BY <1>1, QueueTyped DEF EventsUsable, Event, TypeOK
<1>9. CallsUsable'
  BY <1>1, <1>3 DEF CallsUsable
<1>10. Apart'
  BY <1>1, <1>3, <1>4 DEF Apart, CallsUsable, EventsUsable
<1> QED
  BY <1>2, <1>5, <1>6, <1>7, <1>8, <1>9, <1>10

(* The call goes on to its drops. *)
LEMMA MovedOn ==
  ASSUME TypeOK, NEW t \in Thread, NEW ok, Return(t, ok)
  PROVE  /\ call[t] \in Frame /\ call' \in [Thread -> Frame]
         /\ call'[t].pc = "drop" /\ call'[t].id = call[t].id /\ call'[t].mystr = call[t].mystr
         /\ call'[t].kind = call[t].kind
         /\ \A u \in Thread : u # t => call'[u] = call[u]
<1> DEFINE g == [call[t] EXCEPT !.pc = "drop"]
<1>1. call[t] \in Frame /\ call \in [Thread -> Frame]
  BY DEF TypeOK
<1>2. call' = [call EXCEPT ![t] = g]
  BY <1>1 DEF Return
<1>3. /\ g \in Frame /\ g.pc = "drop" /\ g.id = call[t].id /\ g.mystr = call[t].mystr
      /\ g.kind = call[t].kind
  BY <1>1 DEF Frame
<1> QED
  BY <1>1, <1>2, <1>3

(* Errors of post, and set: only the call moves on. *)
LEMMA ReturnStep ==
  ASSUME IInv, NEW t \in Thread, NEW ok, Return(t, ok), call[t].pc # "idle",
         UNCHANGED <<live, data, mem, queue, up>>, sync' \in {"unset", "ok", "err"}
  PROVE  IInv'
<1> USE MemoryAssumption, EventAssumption DEF IInv, Return
<1>1. /\ call[t] \in Frame /\ call' \in [Thread -> Frame]
      /\ call'[t].pc = "drop" /\ call'[t].id = call[t].id /\ call'[t].mystr = call[t].mystr
      /\ call'[t].kind = call[t].kind
      /\ \A u \in Thread : u # t => call'[u] = call[u]
  BY MovedOn
<1>2. TypeOK'
  BY <1>1 DEF TypeOK
<1>3. Shape'
  BY <1>1 DEF Shape
<1>4. \A u \in Thread : Own(u)' = Own(u)
  BY <1>1 DEF Own, Owner
<1> QED
  BY <1>2, <1>3, <1>4, Untouched

(* What an append to every queue does to their events. *)
LEMMA Appended ==
  ASSUME TypeOK, NEW ev \in [Structure -> Event],
         queue' = [r \in Structure |-> Append(queue[r], ev[r])]
  PROVE  /\ queue' \in [Structure -> Seq(Event)]
         /\ \A r \in Structure :
              /\ Len(queue[r]) \in Nat
              /\ Len(queue'[r]) = Len(queue[r]) + 1
              /\ \A k \in 1..Len(queue[r]) : queue'[r][k] = queue[r][k]
              /\ queue'[r][Len(queue[r]) + 1] = ev[r]
<1>1. ASSUME NEW r \in Structure
      PROVE  /\ queue[r] \in Seq(Event) /\ ev[r] \in Event
             /\ queue'[r] = Append(queue[r], ev[r])
             /\ Len(queue[r]) \in Nat
  BY DEF TypeOK
<1> QED
  BY <1>1, AppendProperties

(* An event without a string. *)
LEMMA PostNullStep ==
  ASSUME IInv, NEW t \in Thread, call[t].pc = "post", call[t].id = Null, PostLVUserEvent(t),
         \A r \in Structure : Len(queue[r]) < MaxQueue,
         UNCHANGED <<mem, up>>, sync' \in {"unset", "ok", "err"}
  PROVE  IInv'
<1> USE MemoryAssumption, EventAssumption DEF IInv
<1> DEFINE ev == [r \in Structure |-> [id |-> Null, text |-> Null]]
<1>1. /\ queue' = [r \in Structure |-> Append(queue[r], ev[r])]
      /\ Return(t, TRUE) /\ UNCHANGED <<live, data>>
  BY DEF PostLVUserEvent
<1>2. /\ call[t] \in Frame /\ call' \in [Thread -> Frame]
      /\ call'[t].pc = "drop" /\ call'[t].id = call[t].id /\ call'[t].mystr = call[t].mystr
      /\ call'[t].kind = call[t].kind
      /\ \A u \in Thread : u # t => call'[u] = call[u]
  BY <1>1, MovedOn
<1>3. ev \in [Structure -> Event] /\ \A r \in Structure : ev[r].id = Null
  BY DEF Event
<1> HIDE DEF ev
<1>4. /\ queue' \in [Structure -> Seq(Event)]
      /\ \A r \in Structure :
           /\ Len(queue[r]) \in Nat
           /\ Len(queue'[r]) = Len(queue[r]) + 1
           /\ \A k \in 1..Len(queue[r]) : queue'[r][k] = queue[r][k]
           /\ queue'[r][Len(queue[r]) + 1].id = Null
  BY <1>1, <1>3, Appended
<1>5. TypeOK'
  <2>1. \A r \in Structure : Len(queue'[r]) <= MaxQueue
    BY <1>4
  <2>2. \A u \in Thread : call'[u].pc = "idle" => call'[u] = Idle
    BY <1>2 DEF TypeOK
  <2> QED
    BY <1>1, <1>2, <1>4, <2>1, <2>2 DEF TypeOK
<1>6. Shape'
  BY <1>1, <1>2 DEF Shape
<1>7. \A u \in Thread : Own(u)' = Own(u)
  BY <1>2 DEF Own, Owner
<1>8. \A r \in Structure : \A k \in 1..Len(queue'[r]) :
        queue'[r][k].id # Null => k \in 1..Len(queue[r]) /\ queue'[r][k] = queue[r][k]
  BY <1>4
<1>9. ApiLoaded' /\ CallsUsable'
  BY <1>1, <1>7 DEF ApiLoaded, CallsUsable
<1>10. EventsUsable'
  BY <1>1, <1>8 DEF EventsUsable
<1>11. Kept'
  <2>1. \A r \in Structure : \A k \in 1..Len(queue[r]) :
          k \in 1..Len(queue'[r]) /\ queue'[r][k] = queue[r][k]
    BY <1>4
  <2> QED
    BY <1>1, <1>7, <2>1 DEF Kept
<1>12. Apart'
  <2>1. \A u \in Thread, r \in Structure : \A k \in 1..Len(queue'[r]) :
          queue'[r][k].id = Own(u)' => Own(u)' = Null
    BY <1>7, <1>8 DEF Apart
  <2>2. \A r, s \in Structure : \A k \in 1..Len(queue'[r]), l \in 1..Len(queue'[s]) :
          queue'[r][k].id = queue'[s][l].id /\ queue'[r][k].id # Null => r = s /\ k = l
    <3> TAKE r, s \in Structure
    <3> TAKE k \in 1..Len(queue'[r]), l \in 1..Len(queue'[s])
    <3> HAVE queue'[r][k].id = queue'[s][l].id /\ queue'[r][k].id # Null
    <3>1. /\ k \in 1..Len(queue[r]) /\ queue'[r][k] = queue[r][k]
          /\ l \in 1..Len(queue[s]) /\ queue'[s][l] = queue[s][l]
      BY <1>8
    <3> QED
      BY <3>1 DEF Apart
  <2> QED
    BY <1>7, <2>1, <2>2 DEF Apart
<1> QED
  BY <1>5, <1>6, <1>9, <1>10, <1>11, <1>12

(* A cluster with a string is copied into every queue; the caller's own block *)
(* is among the copies exactly if the call gives it up.                       *)
LEMMA CopiesStep ==
  ASSUME IInv, NEW t \in Thread, NEW copy \in [Structure -> Handle], Copies(t, copy),
         call[t].pc = "post", call[t].id # Null,
         \A r \in Structure : Len(queue[r]) < MaxQueue,
         UNCHANGED <<mem, up>>, sync' \in {"unset", "ok", "err"},
         \A r, q \in Structure : copy[r] = copy[q] => r = q,
         \A r \in Structure : copy[r] \notin live \/ (copy[r] = call[t].id /\ Own(t)' = Null),
         \/ Own(t)' = call[t].id
         \/ Own(t)' = Null /\ \E q \in Structure : copy[q] = call[t].id,
         call' \in [Thread -> Frame], call'[t].pc = "drop",
         \A u \in Thread : u # t => call'[u] = call[u]
  PROVE  IInv'
<1> USE MemoryAssumption, EventAssumption DEF IInv
<1> DEFINE h == call[t].id
           ev == [r \in Structure |-> [id |-> copy[r], text |-> call[t].text]]
           new(r) == Len(queue[r]) + 1
<1>1. /\ Own(t) = h /\ h \in live /\ h \in Handle /\ data[h] = call[t].text
      /\ call[t].text \in Data \cup {Null}
  BY DEF Shape, CallsUsable, Own, Owner, TypeOK, Frame
<1>2. ev \in [Structure -> Event] /\ queue' = [r \in Structure |-> Append(queue[r], ev[r])]
  BY <1>1 DEF Event, Copies
<1>3. /\ queue' \in [Structure -> Seq(Event)]
      /\ \A r \in Structure :
           /\ Len(queue[r]) \in Nat
           /\ Len(queue'[r]) = new(r)
           /\ \A k \in 1..Len(queue[r]) : queue'[r][k] = queue[r][k]
           /\ queue'[r][new(r)] = ev[r]
  BY <1>2, Appended
<1>4. \A r \in Structure : queue'[r][new(r)].id = copy[r] /\ queue'[r][new(r)].text = call[t].text
  <2> HIDE DEF new
  <2>1. \A r \in Structure : ev[r].id = copy[r] /\ ev[r].text = call[t].text
    OBVIOUS
  <2> HIDE DEF ev
  <2> QED
    BY <1>3, <2>1
<1> HIDE DEF ev
<1>5. \A r \in Structure : \A k \in 1..Len(queue'[r]) :
        k = new(r) \/ (k \in 1..Len(queue[r]) /\ queue'[r][k] = queue[r][k])
  BY <1>3
<1>6. \A r \in Structure :
        /\ new(r) \in 1..Len(queue'[r])
        /\ \A k \in 1..Len(queue[r]) : k \in 1..Len(queue'[r]) /\ queue'[r][k] = queue[r][k]
  BY <1>3
<1> HIDE DEF new
<1>7. /\ live' = live \cup {copy[r] : r \in Structure}
      /\ \A g \in live : data'[g] = data[g]
      /\ \A r \in Structure : data'[copy[r]] = call[t].text
      /\ data' \in [Handle -> Data \cup {Uninit}]
  BY <1>1 DEF Copies, TypeOK
<1>8. \A u \in Thread : u # t => Own(u)' = Own(u) /\ Own(u) # h
  BY <1>1 DEF Own, Apart
<1>9. TypeOK'
  <2>1. \A r \in Structure : Len(queue'[r]) <= MaxQueue
    BY <1>3 DEF new
  <2>2. \A u \in Thread : call'[u].pc = "idle" => call'[u] = Idle
    BY DEF TypeOK
  <2>3. live' \subseteq Handle
    BY <1>7 DEF TypeOK
  <2> QED
    BY <1>3, <1>7, <2>1, <2>2, <2>3 DEF TypeOK
<1>10. Shape'
  <2>1. \A u \in Thread : u # t /\ call[u].pc = "post" /\ call[u].id # Null => call[u].id \in live
    BY DEF Shape, CallsUsable, Own, Owner
  <2> QED
    BY <1>7, <2>1 DEF Shape
<1>11. ApiLoaded' /\ CallsUsable'
  BY <1>1, <1>7, <1>8 DEF ApiLoaded, CallsUsable
<1>12. EventsUsable'
  <2>1. ASSUME NEW r \in Structure, NEW k \in 1..Len(queue'[r]), queue'[r][k].id # Null
        PROVE  queue'[r][k].id \in live' /\ data'[queue'[r][k].id] = queue'[r][k].text
    <3>1. CASE k = new(r)
      BY <1>4, <1>7, <3>1
    <3>2. CASE k \in 1..Len(queue[r]) /\ queue'[r][k] = queue[r][k]
      BY <1>7, <2>1, <3>2 DEF EventsUsable
    <3> QED
      BY <1>5, <3>1, <3>2
  <2> QED
    BY <2>1 DEF EventsUsable
<1>13. Kept'
  <2>1. ASSUME NEW g \in live'
        PROVE  \/ \E r \in Structure : \E k \in 1..Len(queue'[r]) : queue'[r][k].id = g
               \/ \E u \in Thread : Own(u)' = g
    <3>1. CASE \E r \in Structure : copy[r] = g
      BY <1>4, <1>6, <3>1
    <3>2. CASE g \in live /\ ~\E r \in Structure : copy[r] = g
      <4>1. CASE \E r \in Structure : \E k \in 1..Len(queue[r]) : queue[r][k].id = g
        BY <1>6, <4>1
      <4>2. CASE \E u \in Thread : Own(u) = g
        BY <1>1, <1>8, <3>2, <4>2
      <4> QED
        BY <3>2, <4>1, <4>2 DEF Kept
    <3> QED
      BY <1>7, <3>1, <3>2
  <2> QED
    BY <2>1 DEF Kept
<1>14. Apart'
  <2>1. \A u, v \in Thread : u # v /\ Own(u)' = Own(v)' => Own(u)' = Null
    BY <1>1, <1>8 DEF Apart
  <2>2. ASSUME NEW u \in Thread, NEW r \in Structure, NEW k \in 1..Len(queue'[r]),
               queue'[r][k].id = Own(u)'
        PROVE  Own(u)' = Null
    <3>1. CASE k = new(r)
      BY <1>1, <1>4, <1>8, <2>2, <3>1 DEF CallsUsable
    <3>2. CASE k \in 1..Len(queue[r]) /\ queue'[r][k] = queue[r][k]
      BY <1>1, <1>8, <2>2, <3>2 DEF Apart
    <3> QED
      BY <1>5, <3>1, <3>2
  <2>3. ASSUME NEW r \in Structure, NEW q \in Structure,
               NEW k \in 1..Len(queue'[r]), NEW l \in 1..Len(queue'[q]),
               queue'[r][k].id = queue'[q][l].id, queue'[r][k].id # Null
        PROVE  r = q /\ k = l
    <3>1. \A a, b \in Structure : \A m \in 1..Len(queue[b]) : queue[b][m].id # copy[a]
      BY <1>1 DEF Apart, EventsUsable
    <3>2. CASE k = new(r) /\ l = new(q)
      BY <1>4, <2>3, <3>2
    <3>3. CASE k = new(r) /\ l \in 1..Len(queue[q]) /\ queue'[q][l] = queue[q][l]
      BY <1>4, <2>3, <3>1, <3>3
    <3>4. CASE k \in 1..Len(queue[r]) /\ queue'[r][k] = queue[r][k] /\ l = new(q)
      BY <1>4, <2>3, <3>1, <3>4
    <3>5. CASE /\ k \in 1..Len(queue[r]) /\ queue'[r][k] = queue[r][k]
               /\ l \in 1..Len(queue[q]) /\ queue'[q][l] = queue[q][l]
      BY <2>3, <3>5 DEF Apart
    <3> QED
      BY <1>5, <3>2, <3>3, <3>4, <3>5
  <2> QED
    BY <2>1, <2>2, <2>3 DEF Apart
<1> QED
  BY <1>9, <1>10, <1>11, <1>12, <1>13, <1>14

LEMMA PostStep ==
  ASSUME Modified \subseteq {"owned"}, IInv, NEW t \in Thread, post(t)
  PROVE  IInv'
<1> USE MemoryAssumption, EventAssumption DEF IInv, post, Sync!MemoryApi
<1>1. call[t].pc = "post" /\ UNCHANGED <<mem, up>> /\ sync' \in {"unset", "ok", "err"}
  OBVIOUS
<1>2. CASE (\E ok \in BOOLEAN : Return(t, ok)) /\ UNCHANGED <<live, data, queue>>
  BY <1>1, <1>2, ReturnStep
<1>3. CASE PostLVUserEvent(t) /\ \A r \in Structure : Len(queue[r]) < MaxQueue
  <2>1. CASE call[t].id = Null
    BY <1>1, <1>3, <2>1, PostNullStep
  <2>2. CASE call[t].id # Null
    <3>1. call[t].id \in live /\ call[t].kind \in Workflow
          /\ Own(t) = call[t].id /\ call[t].mystr = call[t].id /\ call[t] \in Frame
      BY <1>1, <2>2 DEF Shape, CallsUsable, Own, Owner, TypeOK
    <3>2. CASE \E copy \in Fresh : Copies(t, copy) /\ Return(t, TRUE)
      <4>1. PICK copy \in Fresh : Copies(t, copy) /\ Return(t, TRUE)
        BY <3>2
      <4>2. /\ copy \in [Structure -> Handle]
            /\ \A r, q \in Structure : copy[r] = copy[q] => r = q
            /\ \A r \in Structure : copy[r] \notin live
        BY DEF Fresh
      <4>3. Own(t)' = call[t].id
        BY <3>1, <4>1, MovedOn DEF Own, Owner
      <4> QED
        BY <1>1, <1>3, <2>2, <4>1, <4>2, <4>3, MovedOn, CopiesStep
    <3>3. CASE /\ call[t].kind \in Modified
               /\ \E r \in Structure, f \in Fresh : Copies(t, [f EXCEPT ![r] = call[t].id])
               /\ call' = [call EXCEPT ![t].pc = "drop", ![t].id = Null]
      <4>1. PICK q \in Structure, f \in Fresh : Copies(t, [f EXCEPT ![q] = call[t].id])
        BY <3>3
      <4> DEFINE copy == [f EXCEPT ![q] = call[t].id]
      <4>2. /\ copy \in [Structure -> Handle]
            /\ \A r, s \in Structure : copy[r] = copy[s] => r = s
            /\ \A r \in Structure : copy[r] \notin live \/ copy[r] = call[t].id
            /\ copy[q] = call[t].id
        BY <3>1 DEF Fresh, TypeOK
      <4> DEFINE g == [call[t] EXCEPT !.pc = "drop", !.id = Null]
      <4>3. g \in Frame /\ g.pc = "drop" /\ g.id = Null /\ g.kind = call[t].kind
        BY <3>1 DEF Frame
      <4>4. call' = [call EXCEPT ![t] = g] /\ call \in [Thread -> Frame]
        BY <3>3 DEF TypeOK
      <4> HIDE DEF g
      <4>5. /\ call' \in [Thread -> Frame] /\ call'[t] = g
            /\ \A u \in Thread : u # t => call'[u] = call[u]
        BY <4>3, <4>4
      <4>6. Own(t)' = Null
        BY <3>3, <4>3, <4>5 DEF Own, Owner
      <4>7. Copies(t, copy)
        BY <4>1
      <4> HIDE DEF copy
      <4> QED
        BY <1>1, <1>3, <2>2, <4>2, <4>3, <4>5, <4>6, <4>7, CopiesStep
    <3> QED
      BY <1>3, <2>2, <3>2, <3>3 DEF PostLVUserEvent
  <2> QED
    BY <2>1, <2>2
<1> QED
  BY <1>2, <1>3

LEMMA SetStep ==
  ASSUME IInv, NEW t \in Thread, set(t)
  PROVE  IInv'
<1>1. PICK r \in {"ok", "err"} : Sync!MemoryApi(r) /\ Return(t, r = "ok")
  BY DEF set
<1>2. /\ call[t].pc # "idle" /\ UNCHANGED <<live, data, mem, queue, up>>
      /\ sync' \in {"unset", "ok", "err"}
  BY <1>1 DEF set, Sync!MemoryApi
<1> QED
  BY <1>1, <1>2, ReturnStep

(* What is dropped is still the function's, so that nobody else can miss it. *)
LEMMA DropStep ==
  ASSUME IInv, NEW t \in Thread, Drop(t)
  PROVE  IInv'
<1> USE MemoryAssumption, EventAssumption DEF IInv
<1> DEFINE h == Own(t)
<1>1. /\ call' = [call EXCEPT ![t] = Idle] /\ UNCHANGED <<sync, up, queue>>
      /\ Idle \in Frame /\ mem' \in {"unset", "ok", "err"}
  BY DEF Drop, Leave, Idle, Frame, TypeOK, Memory!MemoryApi
<1>2. /\ mem' = mem
      /\ h = Null => UNCHANGED <<live, data>>
      /\ h # Null => h \in live /\ live' = live \ {h} /\ data' = [data EXCEPT ![h] = Uninit]
  BY DEF Drop, Own, ApiLoaded, CallsUsable, Memory!MemoryApi, DSDisposeHandle
<1>3. \A u \in Thread : Own(u)' = IF u = t THEN Null ELSE Own(u)
  BY <1>1 DEF TypeOK, Own, Owner, Idle
<1>4. h \in Handle \cup {Null}
  BY OwnTyped
<1> HIDE DEF h
<1>5. TypeOK'
  <2>1. \A u \in Thread : call'[u].pc = "idle" => call'[u] = Idle
    BY <1>1 DEF TypeOK
  <2> QED
    BY <1>1, <1>2, <2>1 DEF TypeOK
<1>6. Shape'
  <2>1. \A u \in Thread : u # t /\ call[u].pc = "post" /\ call[u].id # Null => call[u].id # h
    BY DEF Shape, Own, Owner, Apart, h
  <2>2. \A u \in Thread : u # t => call'[u] = call[u]
    BY <1>1 DEF TypeOK
  <2>3. call'[t] = Idle
    BY <1>1 DEF TypeOK
  <2>4. \A g \in Handle : g # h => data'[g] = data[g]
    BY <1>2, <1>4 DEF TypeOK
  <2>5. \A u \in Thread : call[u].id \in Handle \cup {Null}
    BY DEF TypeOK, Frame
  <2> QED
    BY <2>1, <2>2, <2>3, <2>4, <2>5 DEF Shape, Idle
<1>7. ApiLoaded'
  <2>1. \A u \in Thread : Own(u) = h => Own(u)' = Null
    BY <1>3 DEF Apart, h
  <2> QED
    BY <1>2, <1>3 DEF ApiLoaded
<1>8. \A r \in Structure : \A k \in 1..Len(queue[r]) : queue[r][k].id = h => h = Null
  BY DEF Apart, h
<1>9. Kept'
  BY <1>1, <1>2, <1>3 DEF Kept, h
<1>10. EventsUsable'
  <2>1. ASSUME NEW r \in Structure, NEW k \in 1..Len(queue[r]), queue[r][k].id # Null
        PROVE  queue[r][k].id \in live' /\ data'[queue[r][k].id] = queue[r][k].text
    <3>1. queue[r][k].id \in live /\ data[queue[r][k].id] = queue[r][k].text
      BY <2>1 DEF EventsUsable
    <3>2. queue[r][k].id # h
      BY <1>8, <2>1
    <3> QED
      BY <1>2, <3>1, <3>2 DEF TypeOK
  <2> QED
    BY <1>1, <2>1 DEF EventsUsable
<1>11. CallsUsable'
  BY <1>2, <1>3 DEF CallsUsable, Apart, h
<1>12. Apart'
  BY <1>1, <1>3 DEF Apart
<1> QED
  BY <1>5, <1>6, <1>7, <1>9, <1>10, <1>11, <1>12

(* LabVIEW's side: the event at the head of a queue goes, the others move up. *)
LEMMA HandleEventStep ==
  ASSUME IInv, NEW r \in Structure, HandleEvent(r)
  PROVE  IInv'
<1> USE MemoryAssumption, EventAssumption DEF IInv
<1> DEFINE h == queue[r][1].id
           shift(s) == IF s = r THEN 1 ELSE 0
<1>1. /\ queue[r] \in Seq(Event) /\ queue[r] # <<>>
      /\ queue' = [queue EXCEPT ![r] = Tail(@)]
      /\ Head(queue[r]) = queue[r][1]
      /\ UNCHANGED <<mem, sync, up, call>>
  BY HeadTailProperties DEF HandleEvent, TypeOK
<1>2. /\ Tail(queue[r]) \in Seq(Event)
      /\ Len(queue[r]) \in Nat /\ 1 \in 1..Len(queue[r])
      /\ Len(Tail(queue[r])) = Len(queue[r]) - 1
      /\ \A k \in 1..Len(Tail(queue[r])) : Tail(queue[r])[k] = queue[r][k + 1]
  BY <1>1, HeadTailProperties, LenProperties, EmptySeq
<1>3. /\ queue' \in [Structure -> Seq(Event)]
      /\ \A s \in Structure :
           /\ Len(queue[s]) \in Nat /\ Len(queue'[s]) = Len(queue[s]) - shift(s)
           /\ \A k \in 1..Len(queue'[s]) : queue'[s][k] = queue[s][k + shift(s)]
  BY <1>1, <1>2, QueueTyped DEF TypeOK
<1>4. \A s \in Structure : \A k \in 1..Len(queue'[s]) :
        /\ k + shift(s) \in 1..Len(queue[s])
        /\ queue'[s][k] = queue[s][k + shift(s)]
        /\ ~(s = r /\ k + shift(s) = 1)
  BY <1>3
<1>5. \A s \in Structure : \A k \in 1..Len(queue[s]) :
        \/ s = r /\ k = 1
        \/ k - shift(s) \in 1..Len(queue'[s]) /\ queue'[s][k - shift(s)] = queue[s][k]
  <2> SUFFICES ASSUME NEW s \in Structure, NEW k \in 1..Len(queue[s]), ~(s = r /\ k = 1)
               PROVE  /\ k - shift(s) \in 1..Len(queue'[s])
                      /\ queue'[s][k - shift(s)] = queue[s][k]
    OBVIOUS
  <2>1. shift(s) \in {0, 1} /\ (shift(s) = 1 => k # 1)
    OBVIOUS
  <2>2. Len(queue[s]) \in Nat /\ Len(queue'[s]) = Len(queue[s]) - shift(s)
    BY <1>3
  <2> HIDE DEF shift
  <2>3. k - shift(s) \in 1..Len(queue'[s]) /\ (k - shift(s)) + shift(s) = k
    BY <2>1, <2>2
  <2> QED
    BY <1>3, <2>3
<1>6. \A s \in Structure : shift(s) \in {0, 1}
  OBVIOUS
<1>7. /\ h = Null \/ h \in live
      /\ h = Null => UNCHANGED <<live, data>>
      /\ h # Null => live' = live \ {h} /\ data' = [data EXCEPT ![h] = Uninit]
  <2>1. Null \notin live
    BY DEF TypeOK
  <2> QED
    BY <1>1, <1>2, <2>1 DEF HandleEvent, EventsUsable, DSDisposeHandle
<1>8. \A u \in Thread : Own(u)' = Own(u) /\ (Own(u) = h => h = Null)
  BY <1>1, <1>2 DEF Own, Apart
<1>9. \A s \in Structure : \A k \in 1..Len(queue'[s]) :
        queue'[s][k].id # Null => queue'[s][k].id # h
  BY <1>2, <1>4 DEF Apart
<1> HIDE DEF h, shift
<1>10. TypeOK'
  <2>1. ASSUME NEW s \in Structure
        PROVE  Len(queue'[s]) <= MaxQueue
    <3>1. Len(queue[s]) <= MaxQueue /\ Len(queue[s]) \in Nat /\ MaxQueue \in Nat
      BY <1>3 DEF TypeOK
    <3>2. Len(queue'[s]) = Len(queue[s]) - shift(s) /\ shift(s) \in {0, 1}
      BY <1>3, <1>6
    <3> QED
      BY <3>1, <3>2
  <2> QED
    BY <1>1, <1>3, <1>7, <2>1 DEF TypeOK
<1>11. Shape'
  <2>1. \A u \in Thread : call[u].pc = "post" /\ call[u].id # Null =>
          Own(u) = call[u].id /\ call[u].id \in live /\ data'[call[u].id] = data[call[u].id]
    BY <1>7, <1>8 DEF Shape, Own, Owner, CallsUsable, TypeOK
  <2> QED
    BY <1>1, <2>1 DEF Shape
<1>12. ApiLoaded' /\ CallsUsable'
  BY <1>1, <1>7, <1>8 DEF ApiLoaded, CallsUsable
<1>13. Kept'
  <2>1. ASSUME NEW g \in live'
        PROVE  \/ \E s \in Structure : \E k \in 1..Len(queue'[s]) : queue'[s][k].id = g
               \/ \E u \in Thread : Own(u)' = g
    <3>1. g \in live /\ g # h
      BY <1>7 DEF TypeOK
    <3>2. CASE \E u \in Thread : Own(u) = g
      BY <1>8, <3>2
    <3>3. CASE \E s \in Structure : \E k \in 1..Len(queue[s]) : queue[s][k].id = g
      <4>1. PICK s \in Structure : \E k \in 1..Len(queue[s]) : queue[s][k].id = g
        BY <3>3
      <4>2. PICK k \in 1..Len(queue[s]) : queue[s][k].id = g
        BY <4>1
      <4>3. k - shift(s) \in 1..Len(queue'[s]) /\ queue'[s][k - shift(s)] = queue[s][k]
        BY <1>5, <3>1, <4>2 DEF h
      <4> QED
        BY <4>2, <4>3
    <3> QED
      BY <3>1, <3>2, <3>3 DEF Kept
  <2> QED
    BY <2>1 DEF Kept
<1>14. EventsUsable'
  <2>1. ASSUME NEW s \in Structure, NEW k \in 1..Len(queue'[s]), queue'[s][k].id # Null
        PROVE  queue'[s][k].id \in live' /\ data'[queue'[s][k].id] = queue'[s][k].text
    <3>1. /\ queue'[s][k].id # h /\ queue'[s][k].id \in live
          /\ data[queue'[s][k].id] = queue'[s][k].text
      BY <1>4, <1>9, <2>1 DEF EventsUsable
    <3> QED
      BY <1>7, <3>1 DEF TypeOK
  <2> QED
    BY <2>1 DEF EventsUsable
<1>15. Apart'
  <2>1. \A u \in Thread, s \in Structure : \A k \in 1..Len(queue'[s]) :
          queue'[s][k].id = Own(u)' => Own(u)' = Null
    BY <1>4, <1>8 DEF Apart
  <2>2. ASSUME NEW s \in Structure, NEW q \in Structure,
               NEW k \in 1..Len(queue'[s]), NEW l \in 1..Len(queue'[q]),
               queue'[s][k].id = queue'[q][l].id, queue'[s][k].id # Null
        PROVE  s = q /\ k = l
    <3>1. /\ k + shift(s) \in 1..Len(queue[s]) /\ queue'[s][k] = queue[s][k + shift(s)]
          /\ l + shift(q) \in 1..Len(queue[q]) /\ queue'[q][l] = queue[q][l + shift(q)]
      BY <1>4
    <3> DEFINE a == k + shift(s)
               b == l + shift(q)
    <3>2. s = q /\ a = b
      <4> HIDE DEF a, b
      <4> QED
        BY <2>2, <3>1 DEF Apart, a, b
    <3>3. shift(s) \in {0, 1} /\ shift(s) = shift(q) /\ k \in Int /\ l \in Int
      BY <1>6, <3>2
    <3> QED
      BY <3>2, <3>3
  <2> QED
    BY <1>8, <2>1, <2>2 DEF Apart
<1> QED
  BY <1>10, <1>11, <1>12, <1>13, <1>14, <1>15

LEMMA StepHolds ==
  ASSUME Modified \subseteq {"owned"}, IInv, [Next]_vars
  PROVE  IInv'
<1>1. ASSUME NEW t \in Thread, Start(t)
      PROVE  IInv'
  BY <1>1, EnterStep, FromDataStep, PanicStep DEF Start
<1>2. ASSUME NEW t \in Thread, Continue(t)
      PROVE  IInv'
  BY <1>2, PostStep, SetStep, DropStep DEF Continue
<1>3. CASE UNCHANGED vars
  <2>1. UNCHANGED <<live, data, mem, sync, up, call, queue>>
    BY <1>3 DEF vars
  <2> QED
    BY <2>1 DEF IInv, TypeOK, Shape, ApiLoaded, Kept, EventsUsable, CallsUsable, Apart,
                Own, Owner
<1> QED
  BY <1>1, <1>2, <1>3, HandleEventStep DEF Next

-----------------------------------------------------------------------------
(* The invariant of the composition: whoever owns a string can free it, and *)
(* no two of the functions and queued events own the same one.              *)
THEOREM EventsInvariant ==
  ASSUME Modified \subseteq {"owned"}
  PROVE  Spec => []IInv
<1>1. Init => IInv
  BY InitHolds
<1>2. IInv /\ [Next]_vars => IInv'
  BY StepHolds
<1> QED
  BY <1>1, <1>2, PTL DEF Spec

(* Every string of LabVIEW memory is one function's or one event's, and is   *)
(* freed whatever post reports, as long as LabVIEW modifies only the clusters *)
(* that own their string (generate_event_cluster, not ..._handle_from_owned). *)
THEOREM StringsAreAccounted ==
  ASSUME Modified \subseteq {"owned"}
  PROVE  Spec => []StringsAccounted
<1>1. IInv => StringsAccounted
  BY Unfolded
<1> QED
  BY <1>1, EventsInvariant, PTL

(* Under the same assumption an event structure reads what the function posted. *)
THEOREM EventsStayIntact ==
  ASSUME Modified \subseteq {"owned"}
  PROVE  Spec => []EventsIntact
<1>1. IInv => EventsIntact
  BY Unfolded
<1> QED
  BY <1>1, EventsInvariant, PTL
=============================================================================
