------------------------- MODULE ConfigStore_proofs -------------------------
(***************************************************************************)
(* Proofs about ConfigStore for every set of writers, list of sections and *)
(* number of edits and restarts.                                           *)
(***************************************************************************)
EXTENDS ConfigStore, SequenceTheorems, TLAPS

Config == [Sections -> 0 .. MaxEdits]
Rows   == [by : Writers, section : Sections, val : 0 .. MaxEdits]

-----------------------------------------------------------------------------
(* Objects and rows *)

HeapTyped  == /\ heap \in Seq(Config) /\ holder \in DOMAIN heap
              /\ obj \in [Writers -> DOMAIN heap]
QueueTyped == queue \in Seq(Rows) /\ disk \in Config
TaskTyped  == /\ pc \in [Writers -> {"idle", "open", "saving", "orphan", "done"}]
              /\ todo \in [Writers -> Seq(Sections)]
CountTyped == edits \in 0 .. MaxEdits /\ restarts \in 0 .. MaxRestarts
PastTyped  == /\ stored \cup refused \cup posted \subseteq 0 .. MaxEdits
              /\ acked \in Config
              /\ clash \in BOOLEAN /\ failed \in BOOLEAN

Typed == HeapTyped /\ QueueTyped /\ TaskTyped /\ CountTyped /\ PastTyped

LEMMA TypeParts == (TypeOK <=> Typed) /\ (TypeOK' <=> Typed')
BY DEF TypeOK, Typed, HeapTyped, QueueTyped, TaskTyped, CountTyped, PastTyped, Config, Rows

LEMMA WritersOf ==
  /\ Menu \in Writers /\ Menu \notin Requests
  /\ \A h \in Handlers : h \in Writers /\ h \notin Requests
  /\ \A r \in Requests : r \in Writers
BY ConfigStoreAssumption DEF Writers

LEMMA OrderOf == /\ Head(Order) \in Sections /\ Tail(Order) \in Seq(Sections)
                 /\ Order \in Seq(Sections) /\ Order # <<>>
BY ConfigStoreAssumption, HeadTailProperties

\* What an edit in place does to the objects.
LEMMA Edited ==
  ASSUME TypeOK, NEW w \in Writers, NEW s \in Sections, EditInPlace(w, s)
  PROVE  /\ heap' \in Seq(Config) /\ DOMAIN heap' = DOMAIN heap /\ edits' \in 0 .. MaxEdits
         /\ edits' = edits + 1
         /\ \A o \in DOMAIN heap \ {obj[w]} : heap'[o] = heap[o]
         /\ \A t \in Sections : heap'[obj[w]][t] = IF t = s THEN edits + 1 ELSE heap[obj[w]][t]
<1> DEFINE o == obj[w]
           new == [heap[o] EXCEPT ![s] = edits + 1]
<1>1. heap \in Seq(Config) /\ o \in DOMAIN heap /\ edits \in 0 .. MaxEdits
  BY DEF TypeOK, Config
<1>2. DOMAIN heap = 1 .. Len(heap)
  BY <1>1, LenProperties
<1>3. edits + 1 \in 0 .. MaxEdits /\ edits' = edits + 1
  BY <1>1, ConfigStoreAssumption DEF EditInPlace
<1>4. heap[o] \in Config
  BY <1>1, <1>2, ElementOfSeq
<1>5. new \in Config /\ \A t \in Sections : new[t] = IF t = s THEN edits + 1 ELSE heap[o][t]
  BY <1>3, <1>4 DEF Config
<1>6. heap' = [heap EXCEPT ![o] = new]
  BY DEF EditInPlace
<1>. HIDE DEF new
<1>7. /\ heap' \in Seq(Config) /\ Len(heap') = Len(heap)
      /\ \A j \in 1 .. Len(heap) : heap'[j] = IF j = o THEN new ELSE heap[j]
  BY <1>1, <1>2, <1>5, <1>6, ExceptSeq
<1>8. DOMAIN heap' = DOMAIN heap
  BY <1>2, <1>7, LenProperties
<1>. QED
  BY <1>1, <1>2, <1>3, <1>5, <1>7, <1>8

\* What a copy and its edit do.
LEMMA Copied ==
  ASSUME TypeOK, NEW s \in Sections, edits < MaxEdits,
         heap' = Append(heap, [heap[holder] EXCEPT ![s] = edits + 1])
  PROVE  /\ heap' \in Seq(Config) /\ Len(heap') \notin DOMAIN heap
         /\ DOMAIN heap' = DOMAIN heap \cup {Len(heap')}
         /\ \A o \in DOMAIN heap : heap'[o] = heap[o]
         /\ \A t \in Sections : heap'[Len(heap')][t] = IF t = s THEN edits + 1 ELSE heap[holder][t]
<1> DEFINE new == [heap[holder] EXCEPT ![s] = edits + 1]
<1>1. heap \in Seq(Config) /\ holder \in DOMAIN heap /\ edits \in 0 .. MaxEdits
  BY DEF TypeOK, Config
<1>2. DOMAIN heap = 1 .. Len(heap) /\ Len(heap) \in Nat
  BY <1>1, LenProperties
<1>3. edits + 1 \in 0 .. MaxEdits
  BY <1>1, ConfigStoreAssumption
<1>4. heap[holder] \in Config
  BY <1>1, <1>2, ElementOfSeq
<1>5. new \in Config /\ \A t \in Sections : new[t] = IF t = s THEN edits + 1 ELSE heap[holder][t]
  BY <1>3, <1>4 DEF Config
<1>6. heap' = Append(heap, new)
  OBVIOUS
<1>. HIDE DEF new
<1>7. /\ heap' \in Seq(Config) /\ Len(heap') = Len(heap) + 1
      /\ \A j \in 1 .. Len(heap) : heap'[j] = heap[j]
      /\ heap'[Len(heap) + 1] = new
  BY <1>1, <1>5, <1>6, AppendProperties
<1>8. DOMAIN heap' = 1 .. Len(heap) + 1
  BY <1>7, LenProperties
<1>9. DOMAIN heap' = DOMAIN heap \cup {Len(heap')} /\ Len(heap') \notin DOMAIN heap
  BY <1>2, <1>7, <1>8
<1>. QED
  BY <1>2, <1>5, <1>7, <1>9

\* What a row in the queue does to it.
LEMMA Queued ==
  ASSUME QueueTyped, NEW row \in Rows, queue' = Append(queue, row)
  PROVE  /\ queue' \in Seq(Rows) /\ Len(queue') = Len(queue) + 1 /\ Len(queue) \in Nat
         /\ DOMAIN queue = 1 .. Len(queue) /\ DOMAIN queue' = 1 .. Len(queue) + 1
         /\ \A i \in 1 .. Len(queue) : queue'[i] = queue[i]
         /\ queue'[Len(queue) + 1] = row
<1>1. queue \in Seq(Rows)
  BY DEF QueueTyped
<1>2. DOMAIN queue = 1 .. Len(queue) /\ Len(queue) \in Nat
  BY <1>1, LenProperties
<1>3. /\ queue' \in Seq(Rows) /\ Len(queue') = Len(queue) + 1
      /\ \A i \in 1 .. Len(queue) : queue'[i] = queue[i]
      /\ queue'[Len(queue) + 1] = row
  BY <1>1, AppendProperties
<1>4. DOMAIN queue' = 1 .. Len(queue')
  BY <1>3, LenProperties
<1>. QED
  BY <1>2, <1>3, <1>4

\* What the first row does when it leaves.
LEMMA Served ==
  ASSUME QueueTyped, queue # <<>>, queue' = Tail(queue)
  PROVE  /\ queue' \in Seq(Rows) /\ Head(queue) \in Rows /\ Head(queue) = queue[1]
         /\ Len(queue) \in Nat \ {0}
         /\ DOMAIN queue = 1 .. Len(queue) /\ DOMAIN queue' = 1 .. Len(queue) - 1
         /\ \A i \in DOMAIN queue' : queue'[i] = queue[i + 1]
<1>1. queue \in Seq(Rows)
  BY DEF QueueTyped
<1>2. DOMAIN queue = 1 .. Len(queue) /\ Len(queue) \in Nat \ {0}
  BY <1>1, LenProperties, EmptySeq
<1>3. /\ queue' \in Seq(Rows) /\ Head(queue) \in Rows /\ Len(queue') = Len(queue) - 1
      /\ \A i \in 1 .. Len(queue') : queue'[i] = queue[i + 1]
  BY <1>1, HeadTailProperties
<1>4. DOMAIN queue' = 1 .. Len(queue')
  BY <1>3, LenProperties
<1>5. Head(queue) = queue[1]
  BY <1>1
<1>. QED
  BY <1>2, <1>3, <1>4, <1>5

LEMMA RowTyped ==
  ASSUME NEW w \in Writers, NEW s \in Sections, heap' \in Seq(Config), NEW o \in DOMAIN heap'
  PROVE  /\ Row(w, o, s) \in Rows
         /\ Row(w, o, s).by = w /\ Row(w, o, s).section = s /\ Row(w, o, s).val = heap'[o][s]
<1>1. heap'[o] \in Config
  BY LenProperties, ElementOfSeq
<1>2. heap'[o][s] \in 0 .. MaxEdits
  BY <1>1 DEF Config
<1>. QED
  BY <1>2 DEF Row, Rows

LEMMA Labelled ==
  ASSUME TaskTyped, NEW w \in Writers,
         NEW label \in {"idle", "open", "saving", "orphan", "done"},
         NEW rest \in Seq(Sections),
         pc' = [pc EXCEPT ![w] = label],
         todo' = [todo EXCEPT ![w] = rest] \/ todo' = todo
  PROVE  TaskTyped'
BY DEF TaskTyped

LEMMA BeginSaveTyped ==
  ASSUME TypeOK, NEW w \in Writers, BeginSave(w), heap' \in Seq(Config),
         DOMAIN heap' = DOMAIN heap
  PROVE  TaskTyped' /\ queue' \in Seq(Rows)
<1>. USE TypeParts DEF Typed
<1>1. obj[w] \in DOMAIN heap'
  BY DEF HeapTyped
<1>2. Row(w, obj[w], Head(Order)) \in Rows
  BY <1>1, OrderOf, RowTyped
<1>3. queue' \in Seq(Rows)
  BY <1>2, Queued DEF BeginSave
<1>4. TaskTyped'
  BY OrderOf, Labelled DEF BeginSave
<1>. QED
  BY <1>3, <1>4

LEMMA InPlaceTyped ==
  ASSUME TypeOK, MenuEdit \/ MenuClose \/ \E h \in Handlers : Handle(h)
  PROVE  TypeOK'
<1>. USE TypeParts, WritersOf DEF Typed
<1>1. CASE MenuEdit
  <2>1. /\ heap' \in Seq(Config) /\ DOMAIN heap' = DOMAIN heap /\ edits' \in 0 .. MaxEdits
    BY <1>1, Edited DEF MenuEdit
  <2>. QED
    BY <1>1, <2>1 DEF MenuEdit, HeapTyped, QueueTyped, TaskTyped, CountTyped, PastTyped, historyVars
<1>2. CASE MenuClose
  <2>1. TaskTyped' /\ queue' \in Seq(Rows)
    BY <1>2, BeginSaveTyped DEF MenuClose, HeapTyped
  <2>. QED
    BY <1>2, <2>1 DEF MenuClose, HeapTyped, QueueTyped, CountTyped, PastTyped, historyVars
<1>3. ASSUME NEW h \in Handlers, Handle(h)
      PROVE  TypeOK'
  <2>1. /\ heap' \in Seq(Config) /\ DOMAIN heap' = DOMAIN heap /\ edits' \in 0 .. MaxEdits
    BY <1>3, ConfigStoreAssumption, Edited DEF Handle
  <2>2. TaskTyped' /\ queue' \in Seq(Rows)
    BY <1>3, <2>1, BeginSaveTyped DEF Handle
  <2>. QED
    BY <1>3, <2>1, <2>2 DEF Handle, HeapTyped, QueueTyped, CountTyped, PastTyped, historyVars
<1>. QED
  BY <1>1, <1>2, <1>3

LEMMA SaveTyped ==
  ASSUME TypeOK, NEW w \in Writers, Resume(w) \/ Finish(w) \/ Capture(w)
  PROVE  TypeOK'
<1>. USE TypeParts DEF Typed
<1>1. CASE Resume(w)
  <2>1. todo[w] \in Seq(Sections) /\ todo[w] # <<>>
    BY <1>1 DEF Resume, TaskTyped
  <2>2. Head(todo[w]) \in Sections /\ Tail(todo[w]) \in Seq(Sections)
    BY <2>1, HeadTailProperties
  <2>3. Row(w, obj[w], Head(todo[w])) \in Rows
    BY <1>1, <2>2, RowTyped DEF Resume, HeapTyped
  <2>4. queue' \in Seq(Rows)
    BY <1>1, <2>3, Queued DEF Resume
  <2>5. TaskTyped'
    BY <1>1, <2>2 DEF Resume, TaskTyped
  <2>. QED
    BY <1>1, <2>4, <2>5 DEF Resume, HeapTyped, QueueTyped, CountTyped, PastTyped, historyVars
<1>2. CASE Finish(w)
  <2>1. holder' \in DOMAIN heap
    BY <1>2 DEF Finish, HeapTyped
  <2>2. TaskTyped'
    BY <1>2 DEF Finish, TaskTyped
  <2>. QED
    BY <1>2, <2>1, <2>2 DEF Finish, HeapTyped, QueueTyped, CountTyped, PastTyped, historyVars
<1>3. CASE Capture(w)
  <2>1. obj' \in [Writers -> DOMAIN heap]
    BY <1>3 DEF Capture, HeapTyped
  <2>2. TaskTyped'
    BY <1>3 DEF Capture, TaskTyped
  <2>3. clash' \in BOOLEAN
    BY <1>3 DEF Capture, PastTyped
  <2>. QED
    BY <1>3, <2>1, <2>2, <2>3 DEF Capture, HeapTyped, QueueTyped, CountTyped, PastTyped, historyVars
<1>. QED
  BY <1>1, <1>2, <1>3

LEMMA WriteTyped == ASSUME TypeOK, Write PROVE TypeOK'
<1>. USE TypeParts DEF Typed
<1>1. queue # <<>> /\ queue' = Tail(queue)
  BY DEF Write
<1>2. Head(queue) \in Rows /\ queue' \in Seq(Rows)
  BY <1>1, Served
<1>3. Head(queue).section \in Sections /\ Head(queue).val \in 0 .. MaxEdits
  BY <1>2 DEF Rows
<1>4. disk' \in Config
  BY <1>3 DEF Write, QueueTyped, Config
<1>5. PastTyped'
  BY <1>3 DEF Write, PastTyped, historyVars
<1>. QED
  BY <1>2, <1>4, <1>5 DEF Write, HeapTyped, QueueTyped, TaskTyped, CountTyped

LEMMA RestartedTyped ==
  ASSUME TypeOK, restarts < MaxRestarts, Restarted
  PROVE  TypeOK'
<1>. USE TypeParts DEF Typed
<1>1. disk \in Config
  BY DEF QueueTyped
<1>2. <<disk>> \in Seq(Config) /\ DOMAIN <<disk>> = {1}
  BY <1>1
<1>3. <<>> \in Seq(Rows) /\ <<>> \in Seq(Sections)
  OBVIOUS
<1>4. restarts + 1 \in 0 .. MaxRestarts
  BY ConfigStoreAssumption DEF CountTyped
<1>. QED
  BY <1>1, <1>2, <1>3, <1>4 DEF Restarted, HeapTyped, QueueTyped, TaskTyped, CountTyped, PastTyped

-----------------------------------------------------------------------------
(* Who works on what *)

\* Every row is of a save under way, and a save has one row at a time; requests
\* alone wait for a result or are orphaned; a request that has its result has
\* nothing left to write.
Lines ==
  /\ \A i \in DOMAIN queue : pc[queue[i].by] \in {"saving", "orphan"}
  /\ \A i, j \in DOMAIN queue : queue[i].by = queue[j].by => i = j
  /\ \A w \in Writers \ Requests : pc[w] \in {"idle", "open", "saving"}
  /\ \A r \in Requests : /\ pc[r] # "open"
                         /\ pc[r] = "done" => todo[r] = <<>>

\* A request works on a copy nobody else has.
Alone ==
  \A r \in Requests : pc[r] # "idle" =>
    /\ obj[r] # holder
    /\ \A w \in Writers \ {r} : pc[w] # "idle" => obj[w] # obj[r]

\* Nothing is written before it is edited.
Counted ==
  /\ \A o \in DOMAIN heap, s \in Sections : heap[o][s] <= edits
  /\ \A s \in Sections : disk[s] <= edits
  /\ \A i \in DOMAIN queue : queue[i].val <= edits
  /\ \A e \in posted \cup refused : e <= edits

\* The edit of a request is the last in its copy, and is in no other object that
\* is live or may become live.
Mine ==
  \A r \in Requests : pc[r] # "idle" =>
    /\ Own(r) \in posted
    /\ \E s \in Sections : heap[obj[r]][s] = Own(r)
    /\ \A s \in Sections : heap[obj[r]][s] <= Own(r) /\ heap[holder][s] # Own(r)
    /\ \A w \in Writers \ {r} : pc[w] # "idle" => \A s \in Sections : heap[obj[w]][s] # Own(r)

Base == TypeOK /\ Lines /\ Alone /\ Counted /\ Mine

\* What an edit in place, by a handling or the menu, and the save after it change.
EditStep(w) ==
  /\ w \in Writers \ Requests /\ pc[w] = "open"
  /\ \/ \E s \in Sections : EditInPlace(w, s)
     \/ UNCHANGED <<heap, edits>>
  /\ BeginSave(w) \/ UNCHANGED <<pc, queue, todo>>
  /\ UNCHANGED <<holder, disk, obj, restarts, stored, historyVars, clash, failed>>

\* A write fails and the program goes on.
Refuse ==
  /\ queue # <<>>
  /\ queue' = Tail(queue)
  /\ LET w == Head(queue).by
     IN  /\ pc' = [pc EXCEPT ![w] = "idle"]
         /\ todo' = [todo EXCEPT ![w] = <<>>]
         /\ refused' = IF w \in Requests THEN refused \cup {Own(w)} ELSE refused
  /\ failed' = TRUE
  /\ UNCHANGED <<heap, holder, disk, obj, edits, restarts, stored, acked, posted, clash>>

LEMMA NextSteps ==
  ASSUME Next
  PROVE  \/ \E w \in Writers : EditStep(w) \/ Capture(w) \/ Resume(w) \/ Finish(w)
         \/ Write \/ Refuse
         \/ restarts < MaxRestarts /\ Restarted
         \/ \E r \in Requests : Post(r) \/ Install(r) \/ GiveUp(r)
<1>1. ASSUME NEW h \in Handlers, Handle(h) PROVE EditStep(h)
  BY <1>1, ConfigStoreAssumption, WritersOf DEF Handle, EditStep
<1>2. ASSUME MenuEdit \/ MenuClose PROVE EditStep(Menu)
  BY <1>2, WritersOf DEF MenuEdit, MenuClose, EditStep
<1>3. ASSUME WriteFails PROVE Refuse \/ (restarts < MaxRestarts /\ Restarted)
  BY <1>3 DEF WriteFails, Refuse
<1>. QED
  BY <1>1, <1>2, <1>3, WritersOf DEF Next, Restart

\* An edit in place changes one section of one object, to a number not used yet.
LEMMA EditFacts ==
  ASSUME TypeOK, NEW w \in Writers, EditStep(w)
  PROVE  /\ heap' \in Seq(Config) /\ DOMAIN heap' = DOMAIN heap
         /\ edits \in 0 .. MaxEdits /\ edits' \in 0 .. MaxEdits /\ edits' >= edits
         /\ \A o \in DOMAIN heap, t \in Sections :
              \/ heap'[o][t] = heap[o][t]
              \/ o = obj[w] /\ heap'[o][t] = edits' /\ edits' = edits + 1
         /\ pc'[w] # "idle" /\ \A v \in Writers \ {w} : pc'[v] = pc[v]
<1>1. heap \in Seq(Config) /\ edits \in 0 .. MaxEdits /\ obj[w] \in DOMAIN heap
  BY DEF TypeOK, Config
<1>2. pc'[w] # "idle" /\ \A v \in Writers \ {w} : pc'[v] = pc[v]
  BY DEF EditStep, BeginSave, TypeOK
<1>3. CASE UNCHANGED <<heap, edits>>
  BY <1>1, <1>2, <1>3
<1>4. ASSUME NEW s \in Sections, EditInPlace(w, s)
      PROVE  /\ heap' \in Seq(Config) /\ DOMAIN heap' = DOMAIN heap
             /\ edits' \in 0 .. MaxEdits /\ edits' = edits + 1
             /\ \A o \in DOMAIN heap, t \in Sections :
                  \/ heap'[o][t] = heap[o][t]
                  \/ o = obj[w] /\ heap'[o][t] = edits' /\ edits' = edits + 1
  BY <1>4, Edited
<1>5. edits + 1 >= edits
  BY <1>1
<1>. QED
  BY <1>1, <1>2, <1>3, <1>4, <1>5 DEF EditStep

LEMMA OwnIs ==
  ASSUME NEW f, NEW s \in Sections, \A t \in Sections : f[t] \in Nat /\ f[t] <= f[s]
  PROVE  Max({f[t] : t \in Sections}) = f[s]
<1> DEFINE vals == {f[t] : t \in Sections}
<1>1. f[s] \in vals /\ \A v \in vals : f[s] >= v
  OBVIOUS
<1>2. Max(vals) \in vals /\ \A v \in vals : Max(vals) >= v
  BY <1>1 DEF Max
<1>3. Max(vals) >= f[s] /\ f[s] >= Max(vals)
  BY <1>1, <1>2
<1>4. Max(vals) \in Nat /\ f[s] \in Nat
  BY <1>2
<1>. QED
  BY <1>3, <1>4

LEMMA OwnSame ==
  ASSUME NEW r, \A t \in Sections : heap'[obj'[r]][t] = heap[obj[r]][t]
  PROVE  Own(r)' = Own(r)
BY DEF Own

\* The last number in a copy is one its request has posted.
LEMMA OwnPosted ==
  ASSUME Mine, NEW r \in Requests, pc[r] # "idle"
  PROVE  Own(r) \in posted
BY DEF Mine

LEMMA RefuseTyped == ASSUME TypeOK, Lines, Mine, Refuse PROVE TypeOK'
<1>. USE TypeParts, WritersOf DEF Typed
<1> DEFINE w == Head(queue).by
<1>1. Head(queue) \in Rows /\ queue' \in Seq(Rows) /\ Head(queue) = queue[1] /\ 1 \in DOMAIN queue
  BY Served DEF Refuse
<1>2. w \in Writers /\ pc[w] \in {"saving", "orphan"}
  BY <1>1 DEF Rows, Lines
<1>3. TaskTyped'
  BY <1>2 DEF Refuse, TaskTyped
<1>4. refused' \subseteq 0 .. MaxEdits
  BY <1>2, OwnPosted DEF Refuse, PastTyped
<1>5. PastTyped'
  BY <1>4 DEF Refuse, PastTyped
<1>. QED
  BY <1>1, <1>3, <1>5 DEF Refuse, HeapTyped, QueueTyped, CountTyped

LEMMA RequestTyped ==
  ASSUME TypeOK, Mine, NEW r \in Requests, Post(r) \/ Install(r) \/ GiveUp(r)
  PROVE  TypeOK'
<1>. USE TypeParts, WritersOf DEF Typed
<1>1. CASE Post(r)
  <2>1. PICK s \in Sections : heap' = Append(heap, [heap[holder] EXCEPT ![s] = edits + 1])
    BY <1>1 DEF Post
  <2>2. /\ heap' \in Seq(Config) /\ DOMAIN heap' = DOMAIN heap \cup {Len(heap')}
    BY <1>1, <2>1, Copied DEF Post
  <2>3. HeapTyped'
    <3>1. obj' = [obj EXCEPT ![r] = Len(heap')] /\ holder' = holder
      BY <1>1 DEF Post
    <3>2. obj' \in [Writers -> DOMAIN heap']
      BY <2>2, <3>1 DEF HeapTyped
    <3>. QED
      BY <2>2, <3>1, <3>2 DEF HeapTyped
  <2>4. edits' = edits + 1 /\ edits' \in 0 .. MaxEdits
    BY <1>1, ConfigStoreAssumption DEF Post, CountTyped
  <2>5. TaskTyped'
    BY <1>1, OrderOf DEF Post, TaskTyped
  <2>6. posted' \subseteq 0 .. MaxEdits
    BY <1>1, <2>4 DEF Post, PastTyped
  <2>7. clash' \in BOOLEAN
    BY <1>1 DEF Post, PastTyped
  <2>. QED
    BY <1>1, <2>3, <2>4, <2>5, <2>6, <2>7 DEF Post, QueueTyped, CountTyped, PastTyped
<1>2. CASE Install(r)
  <2>1. Own(r) \in 0 .. MaxEdits
    BY <1>2, OwnPosted DEF Install, PastTyped
  <2>2. acked' \in Config
    BY <1>2, <2>1 DEF Install, PastTyped, Config
  <2>3. TaskTyped'
    BY <1>2 DEF Install, TaskTyped
  <2>4. holder' \in DOMAIN heap
    BY <1>2 DEF Install, HeapTyped
  <2>. QED
    BY <1>2, <2>2, <2>3, <2>4 DEF Install, HeapTyped, QueueTyped, CountTyped, PastTyped
<1>3. CASE GiveUp(r)
  <2>1. Own(r) \in 0 .. MaxEdits
    BY <1>3, OwnPosted DEF GiveUp, PastTyped
  <2>2. TaskTyped'
    BY <1>3 DEF GiveUp, TaskTyped
  <2>. QED
    BY <1>3, <2>1, <2>2 DEF GiveUp, HeapTyped, QueueTyped, CountTyped, PastTyped
<1>. QED
  BY <1>1, <1>2, <1>3

LEMMA EditTyped == ASSUME TypeOK, NEW w \in Writers, EditStep(w) PROVE TypeOK'
<1>. USE TypeParts DEF Typed
<1>1. heap' \in Seq(Config) /\ DOMAIN heap' = DOMAIN heap /\ edits' \in 0 .. MaxEdits
  BY EditFacts
<1>2. TaskTyped' /\ queue' \in Seq(Rows)
  <2>1. CASE BeginSave(w)
    BY <1>1, <2>1, BeginSaveTyped
  <2>2. CASE UNCHANGED <<pc, queue, todo>>
    BY <2>2 DEF TaskTyped, QueueTyped
  <2>. QED
    BY <2>1, <2>2 DEF EditStep
<1>. QED
  BY <1>1, <1>2 DEF EditStep, HeapTyped, QueueTyped, CountTyped, PastTyped, historyVars

LEMMA NextTyped == ASSUME Base, Next PROVE TypeOK'
BY NextSteps, EditTyped, SaveTyped, WriteTyped, RefuseTyped, RestartedTyped, RequestTyped DEF Base

(* Lines *)

LEMMA RowsIn ==
  ASSUME TypeOK, NEW i \in DOMAIN queue
  PROVE  /\ queue[i].by \in Writers /\ queue[i].section \in Sections
         /\ queue[i].val \in 0 .. MaxEdits
<1>1. queue \in Seq(Rows)
  BY TypeParts DEF Typed, QueueTyped
<1>2. i \in 1 .. Len(queue)
  BY <1>1, LenProperties
<1>3. queue[i] \in Rows
  BY <1>1, <1>2, ElementOfSeq
<1>. QED
  BY <1>3 DEF Rows

LEMMA JoinsLine ==
  ASSUME TypeOK, Lines, NEW w \in Writers, ~Waits(w), NEW row \in Rows, row.by = w,
         queue' = Append(queue, row), pc'[w] \in {"saving", "orphan"},
         \A v \in Writers \ {w} : pc'[v] = pc[v]
  PROVE  /\ \A i \in DOMAIN queue' : pc'[queue'[i].by] \in {"saving", "orphan"}
         /\ \A i, j \in DOMAIN queue' : queue'[i].by = queue'[j].by => i = j
<1>1. QueueTyped
  BY TypeParts DEF Typed
<1>2. /\ Len(queue) \in Nat /\ DOMAIN queue = 1 .. Len(queue) /\ DOMAIN queue' = 1 .. Len(queue) + 1
      /\ \A i \in 1 .. Len(queue) : queue'[i] = queue[i]
      /\ queue'[Len(queue) + 1] = row
  BY <1>1, Queued
<1>3. \A i \in 1 .. Len(queue) : queue[i].by # w /\ queue[i].by \in Writers
  <2>1. \A i \in 1 .. Len(queue) : queue[i] \in Rows
    BY <1>1, ElementOfSeq DEF QueueTyped
  <2>. QED
    BY <1>2, <2>1 DEF Waits, Rows
<1>4. \A i \in DOMAIN queue' : i \in 1 .. Len(queue) \/ i = Len(queue) + 1
  BY <1>2
<1>. QED
  BY <1>2, <1>3, <1>4 DEF Lines

LEMMA LeavesLine ==
  ASSUME TypeOK, Lines, queue # <<>>, queue' = Tail(queue),
         pc' = pc \/ \E label : pc' = [pc EXCEPT ![Head(queue).by] = label]
  PROVE  /\ \A i \in DOMAIN queue' : pc'[queue'[i].by] \in {"saving", "orphan"}
         /\ \A i, j \in DOMAIN queue' : queue'[i].by = queue'[j].by => i = j
<1>1. QueueTyped
  BY TypeParts DEF Typed
<1>2. /\ Head(queue) = queue[1] /\ Len(queue) \in Nat \ {0}
      /\ DOMAIN queue = 1 .. Len(queue) /\ DOMAIN queue' = 1 .. Len(queue) - 1
      /\ \A i \in DOMAIN queue' : queue'[i] = queue[i + 1]
  BY <1>1, Served
<1>3. \A i \in DOMAIN queue' : i + 1 \in DOMAIN queue /\ i + 1 # 1 /\ 1 \in DOMAIN queue
  BY <1>2
<1>4. \A i \in DOMAIN queue' : queue'[i].by # Head(queue).by /\ queue'[i].by = queue[i + 1].by
  BY <1>2, <1>3 DEF Lines
<1>5. \A i \in DOMAIN queue' : queue[i + 1].by \in Writers
  BY <1>3, RowsIn
<1>6. \A i \in DOMAIN queue' : pc'[queue'[i].by] = pc[queue'[i].by]
  BY <1>4, <1>5 DEF TypeOK
<1>7. \A i, j \in DOMAIN queue' : i + 1 = j + 1 => i = j
  BY <1>2
<1>. QED
  BY <1>3, <1>4, <1>6, <1>7 DEF Lines

\* Somebody who is in no line changes what he does.
LEMMA NotInLine ==
  ASSUME TypeOK, Lines, NEW w \in Writers, ~Waits(w) \/ pc'[w] \in {"saving", "orphan"},
         queue' = queue, \A v \in Writers \ {w} : pc'[v] = pc[v]
  PROVE  /\ \A i \in DOMAIN queue' : pc'[queue'[i].by] \in {"saving", "orphan"}
         /\ \A i, j \in DOMAIN queue' : queue'[i].by = queue'[j].by => i = j
<1>. QED
  BY RowsIn DEF Lines, Waits

\* Only those who save wait.
LEMMA OnlySaversWait ==
  ASSUME Lines, NEW w, Waits(w)
  PROVE  pc[w] \in {"saving", "orphan"}
BY DEF Lines, Waits

LinesOf ==
  /\ \A w \in Writers \ Requests : pc[w] \in {"idle", "open", "saving"}
  /\ \A r \in Requests : /\ pc[r] # "open"
                         /\ pc[r] = "done" => todo[r] = <<>>

LEMMA LinesParts ==
  Lines' <=> /\ \A i \in DOMAIN queue' : pc'[queue'[i].by] \in {"saving", "orphan"}
             /\ \A i, j \in DOMAIN queue' : queue'[i].by = queue'[j].by => i = j
             /\ LinesOf'
BY DEF Lines, LinesOf

LEMMA LinesStep == ASSUME Base, Next PROVE Lines'
<1>. USE WritersOf
<1>0. TypeOK /\ Lines /\ Alone /\ LinesOf
  BY DEF Base, Lines, LinesOf
<1>1. ASSUME NEW w \in Writers, EditStep(w)
      PROVE  Lines'
  <2>1. CASE BeginSave(w)
    <3>1. obj[w] \in DOMAIN heap' /\ heap' \in Seq(Config)
      BY <1>0, <1>1, EditFacts DEF TypeOK
    <3>2. /\ Row(w, obj[w], Head(Order)) \in Rows /\ Row(w, obj[w], Head(Order)).by = w
      BY <3>1, OrderOf, RowTyped
    <3>3. ~Waits(w)
      BY <1>0, <1>1, OnlySaversWait DEF EditStep
    <3>4. pc'[w] = "saving" /\ \A v \in Writers \ {w} : pc'[v] = pc[v] /\ todo'[v] = todo[v]
      BY <1>0, <2>1 DEF BeginSave, TypeOK
    <3>5. LinesOf'
      BY <1>0, <1>1, <3>4 DEF EditStep, LinesOf
    <3>. QED
      BY <1>0, <2>1, <3>2, <3>3, <3>4, <3>5, JoinsLine, LinesParts DEF BeginSave
  <2>2. CASE UNCHANGED <<pc, queue, todo>>
    BY <1>0, <2>2 DEF Lines
  <2>. QED
    BY <1>1, <2>1, <2>2 DEF EditStep
<1>2. ASSUME NEW w \in Writers, Resume(w)
      PROVE  Lines'
  <2>1. todo[w] \in Seq(Sections) /\ todo[w] # <<>> /\ pc' = pc
    BY <1>0, <1>2 DEF Resume, TypeOK
  <2>2. Head(todo[w]) \in Sections
    BY <2>1, HeadTailProperties
  <2>3. obj[w] \in DOMAIN heap' /\ heap' \in Seq(Config)
    BY <1>0, <1>2 DEF Resume, TypeOK, Config
  <2>4. /\ Row(w, obj[w], Head(todo[w])) \in Rows /\ Row(w, obj[w], Head(todo[w])).by = w
    BY <2>2, <2>3, RowTyped
  <2>5. \A v \in Writers \ {w} : todo'[v] = todo[v]
    BY <1>0, <1>2 DEF Resume, TypeOK
  <2>6. LinesOf'
    BY <1>0, <1>2, <2>1, <2>5 DEF Resume, LinesOf
  <2>. QED
    BY <1>0, <1>2, <2>1, <2>4, <2>6, JoinsLine, LinesParts DEF Resume
<1>3. ASSUME NEW w \in Writers, Capture(w) \/ Finish(w)
      PROVE  Lines'
  <2>1. queue' = queue /\ todo' = todo /\ \A v \in Writers \ {w} : pc'[v] = pc[v]
    BY <1>0, <1>3 DEF Capture, Finish, TypeOK
  <2>2. ~Waits(w)
    BY <1>0, <1>3, OnlySaversWait DEF Capture, Finish
  <2>3. LinesOf'
    <3>1. CASE Capture(w)
      <4>1. pc'[w] = "open" /\ w \notin Requests
        BY <1>0, <3>1 DEF Capture, TypeOK
      <4>. QED
        BY <1>0, <2>1, <4>1 DEF LinesOf
    <3>2. CASE Finish(w)
      <4>1. /\ pc'[w] = IF w \in Requests /\ pc[w] = "saving" THEN "done" ELSE "idle"
            /\ todo[w] = <<>>
        BY <1>0, <3>2 DEF Finish, TypeOK
      <4>. QED
        BY <1>0, <2>1, <4>1 DEF LinesOf
    <3>. QED
      BY <1>3, <3>1, <3>2
  <2>. QED
    BY <1>0, <2>1, <2>2, <2>3, NotInLine, LinesParts
<1>4. CASE Write
  BY <1>0, <1>4, LeavesLine, LinesParts DEF Write, LinesOf
<1>5. CASE Refuse
  <2>1. 1 \in DOMAIN queue /\ Head(queue) = queue[1]
    BY <1>0, <1>5, Served, TypeParts DEF Refuse, Typed
  <2>2. Head(queue).by \in Writers
    BY <1>0, <2>1, RowsIn
  <2>3. /\ pc'[Head(queue).by] = "idle"
        /\ \A v \in Writers \ {Head(queue).by} : pc'[v] = pc[v] /\ todo'[v] = todo[v]
    BY <1>0, <1>5, <2>2 DEF Refuse, TypeOK
  <2>4. LinesOf'
    BY <1>0, <2>2, <2>3 DEF LinesOf
  <2>. QED
    BY <1>0, <1>5, <2>4, LeavesLine, LinesParts DEF Refuse
<1>6. CASE Restarted
  BY <1>6 DEF Restarted, Lines
<1>7. ASSUME NEW r \in Requests, Post(r) \/ Install(r) \/ GiveUp(r)
      PROVE  Lines'
  <2>1. queue' = queue /\ \A v \in Writers \ {r} : pc'[v] = pc[v] /\ todo'[v] = todo[v]
    BY <1>0, <1>7 DEF Post, Install, GiveUp, TypeOK
  <2>2. ~Waits(r) \/ pc'[r] \in {"saving", "orphan"}
    BY <1>0, <1>7, OnlySaversWait DEF Post, Install, GiveUp, TypeOK
  <2>3. pc'[r] \in {"saving", "idle", "orphan"}
    BY <1>0, <1>7 DEF Post, Install, GiveUp, TypeOK
  <2>4. LinesOf'
    BY <1>0, <2>1, <2>3 DEF LinesOf
  <2>. QED
    BY <1>0, <2>1, <2>2, <2>4, NotInLine, LinesParts
<1>. QED
  BY <1>1, <1>2, <1>3, <1>4, <1>5, <1>6, <1>7, NextSteps

(* Alone *)

\* What every step but an edit, a copy, a capture and a restart does to the objects:
\* nobody takes up another one, and the holder keeps its own or gets one that
\* somebody works on who is no request or has just ended.
Quiet ==
  /\ heap' = heap /\ edits' = edits /\ posted' = posted
  /\ \A v \in Writers : pc'[v] # "idle" => pc[v] # "idle" /\ obj'[v] = obj[v]
  /\ \/ holder' = holder
     \/ \E w \in Writers : /\ holder' = obj[w] /\ pc[w] # "idle"
                           /\ w \in Requests => pc'[w] = "idle"

LEMMA QuietSteps ==
  ASSUME Base, Next,
         ~\E w \in Writers : EditStep(w) \/ Capture(w),
         ~\E r \in Requests : Post(r),
         ~Restarted
  PROVE  Quiet
<1>. USE WritersOf
<1>0. TypeOK /\ Lines
  BY DEF Base
<1>1. CASE \E w \in Writers : Resume(w) \/ Finish(w)
  BY <1>0, <1>1 DEF Resume, Finish, Quiet, TypeOK, historyVars
<1>2. CASE Write
  BY <1>2 DEF Write, Quiet, historyVars
<1>3. CASE Refuse
  <2>1. 1 \in DOMAIN queue /\ Head(queue) = queue[1]
    BY <1>0, <1>3, Served, TypeParts DEF Refuse, Typed
  <2>2. Head(queue).by \in Writers
    BY <1>0, <2>1, RowsIn
  <2>. QED
    BY <1>0, <1>3, <2>2 DEF Refuse, Quiet, TypeOK
<1>4. ASSUME NEW r \in Requests, Install(r) \/ GiveUp(r)
      PROVE  Quiet
  BY <1>0, <1>4 DEF Install, GiveUp, Quiet, TypeOK
<1>. QED
  BY <1>1, <1>2, <1>3, <1>4, NextSteps

LEMMA AloneStep == ASSUME Base, Next PROVE Alone'
<1>. USE WritersOf
<1>0. TypeOK /\ Alone
  BY DEF Base
<1>1. ASSUME NEW w \in Writers, EditStep(w)
      PROVE  Alone'
  <2>1. \A v \in Writers : pc'[v] # "idle" => pc[v] # "idle"
    BY <1>0, <1>1, EditFacts DEF EditStep
  <2>2. obj' = obj /\ holder' = holder
    BY <1>1 DEF EditStep
  <2>. QED
    BY <1>0, <2>1, <2>2 DEF Alone
<1>2. ASSUME NEW w \in Writers, Capture(w)
      PROVE  Alone'
  <2>1. w \notin Requests /\ holder' = holder /\ obj'[w] = holder
        /\ \A v \in Writers \ {w} : pc'[v] = pc[v] /\ obj'[v] = obj[v]
    BY <1>0, <1>2 DEF Capture, TypeOK
  <2>. QED
    BY <1>0, <2>1 DEF Alone
<1>3. ASSUME NEW r \in Requests, Post(r)
      PROVE  Alone'
  <2>1. PICK s \in Sections : heap' = Append(heap, [heap[holder] EXCEPT ![s] = edits + 1])
    BY <1>3 DEF Post
  <2>2. Len(heap') \notin DOMAIN heap
    BY <1>0, <1>3, <2>1, Copied DEF Post
  <2>3. holder' = holder /\ obj'[r] = Len(heap') /\ holder \in DOMAIN heap
        /\ \A v \in Writers \ {r} : pc'[v] = pc[v] /\ obj'[v] = obj[v] /\ obj[v] \in DOMAIN heap
    BY <1>0, <1>3 DEF Post, TypeOK
  <2>. QED
    BY <1>0, <2>2, <2>3 DEF Alone
<1>4. CASE Restarted
  BY <1>4 DEF Restarted, Alone
<1>5. CASE Quiet
  <2>1. SUFFICES ASSUME NEW r \in Requests, pc'[r] # "idle"
                 PROVE  /\ obj'[r] # holder'
                        /\ \A w \in Writers \ {r} : pc'[w] # "idle" => obj'[w] # obj'[r]
    BY DEF Alone
  <2>2. pc[r] # "idle" /\ obj'[r] = obj[r]
    BY <1>5, <2>1 DEF Quiet
  <2>3. \A w \in Writers \ {r} : pc'[w] # "idle" => obj'[w] # obj'[r]
    BY <1>0, <1>5, <2>2 DEF Quiet, Alone
  <2>4. obj'[r] # holder'
    BY <1>0, <1>5, <2>1, <2>2 DEF Quiet, Alone
  <2>. QED
    BY <2>3, <2>4
<1>. QED
  BY <1>1, <1>2, <1>3, <1>4, <1>5, QuietSteps

(* Counted *)

LEMMA HeapIn ==
  ASSUME TypeOK, NEW o \in DOMAIN heap, NEW s \in Sections
  PROVE  heap[o][s] \in 0 .. MaxEdits
<1>1. heap \in Seq(Config)
  BY TypeParts DEF Typed, HeapTyped
<1>2. o \in 1 .. Len(heap)
  BY <1>1, LenProperties
<1>3. heap[o] \in Config
  BY <1>1, <1>2, ElementOfSeq
<1>. QED
  BY <1>3 DEF Config

HeapCounted  == \A o \in DOMAIN heap, s \in Sections : heap[o][s] <= edits
DiskCounted  == \A s \in Sections : disk[s] <= edits
QueueCounted == \A i \in DOMAIN queue : queue[i].val <= edits
PastCounted  == \A e \in posted \cup refused : e <= edits

LEMMA CountedParts ==
  /\ Counted <=> HeapCounted /\ DiskCounted /\ QueueCounted /\ PastCounted
  /\ Counted' <=> (HeapCounted /\ DiskCounted /\ QueueCounted /\ PastCounted)'
BY DEF Counted, HeapCounted, DiskCounted, QueueCounted, PastCounted

\* A row that joins the queue.
LEMMA RowCounted ==
  ASSUME TypeOK, Counted, NEW w \in Writers, NEW s \in Sections, NEW o \in DOMAIN heap',
         heap' \in Seq(Config), HeapCounted', edits' >= edits, edits' \in Nat,
         queue' = Append(queue, Row(w, o, s))
  PROVE  QueueCounted'
<1>1. Row(w, o, s) \in Rows /\ Row(w, o, s).val = heap'[o][s]
  BY RowTyped
<1>2. /\ DOMAIN queue = 1 .. Len(queue) /\ DOMAIN queue' = 1 .. Len(queue) + 1 /\ Len(queue) \in Nat
      /\ \A i \in 1 .. Len(queue) : queue'[i] = queue[i]
      /\ queue'[Len(queue) + 1] = Row(w, o, s)
  BY <1>1, Queued, TypeParts DEF Typed
<1>3. \A i \in DOMAIN queue : queue[i].val <= edits'
  <2>1. \A i \in DOMAIN queue : queue[i].val \in Nat
    BY RowsIn
  <2>2. edits \in Nat
    BY DEF TypeOK
  <2>. QED
    BY <2>1, <2>2 DEF Counted
<1>4. heap'[o][s] <= edits'
  BY DEF HeapCounted
<1>5. \A i \in DOMAIN queue' : i \in DOMAIN queue \/ i = Len(queue) + 1
  BY <1>2
<1>. QED
  BY <1>1, <1>2, <1>3, <1>4, <1>5 DEF QueueCounted

LEMMA CountedStep == ASSUME Base, Next PROVE Counted'
<1>. USE WritersOf
<1>0. /\ TypeOK /\ Counted /\ Mine
      /\ edits \in Nat /\ \A s \in Sections : disk[s] \in Nat
      /\ \A e \in posted \cup refused : e \in Nat
      /\ \A i \in DOMAIN queue : queue[i].val \in Nat
  <2>1. TypeOK /\ Counted /\ Mine
    BY DEF Base
  <2>2. \A i \in DOMAIN queue : queue[i].val \in Nat
    BY <2>1, RowsIn
  <2>3. edits \in Nat /\ (\A s \in Sections : disk[s] \in Nat)
        /\ \A e \in posted \cup refused : e \in Nat
    BY <2>1 DEF TypeOK
  <2>. QED
    BY <2>1, <2>2, <2>3
<1>1. ASSUME NEW w \in Writers, EditStep(w)
      PROVE  Counted'
  <2>1. /\ heap' \in Seq(Config) /\ DOMAIN heap' = DOMAIN heap
        /\ edits' \in Nat /\ edits' >= edits
        /\ \A o \in DOMAIN heap, t \in Sections :
              heap'[o][t] = heap[o][t] \/ heap'[o][t] = edits'
    BY <1>0, <1>1, EditFacts
  <2>2. \A o \in DOMAIN heap, t \in Sections : heap[o][t] \in Nat /\ heap[o][t] <= edits
    BY <1>0, HeapIn DEF Counted
  <2>3. HeapCounted'
    BY <1>0, <2>1, <2>2 DEF HeapCounted
  <2>4. DiskCounted' /\ PastCounted'
    BY <1>0, <1>1, <2>1 DEF EditStep, historyVars, Counted, DiskCounted, PastCounted
  <2>5. QueueCounted'
    <3>1. CASE BeginSave(w)
      <4>1. obj[w] \in DOMAIN heap'
        BY <1>0, <2>1 DEF TypeOK
      <4>. QED
        BY <1>0, <2>1, <2>3, <3>1, <4>1, OrderOf, RowCounted DEF BeginSave
    <3>2. CASE queue' = queue
      BY <1>0, <2>1, <3>2 DEF Counted, QueueCounted
    <3>. QED
      BY <1>1, <3>1, <3>2 DEF EditStep
  <2>. QED
    BY <2>3, <2>4, <2>5, CountedParts
<1>2. ASSUME NEW w \in Writers, Resume(w)
      PROVE  Counted'
  <2>1. todo[w] \in Seq(Sections) /\ todo[w] # <<>> /\ obj[w] \in DOMAIN heap'
        /\ heap' \in Seq(Config) /\ edits' = edits
    BY <1>0, <1>2 DEF Resume, TypeOK, Config
  <2>2. Head(todo[w]) \in Sections
    BY <2>1, HeadTailProperties
  <2>3. HeapCounted' /\ DiskCounted' /\ PastCounted'
    BY <1>0, <1>2 DEF Resume, historyVars, Counted, HeapCounted, DiskCounted, PastCounted
  <2>4. QueueCounted'
    BY <1>0, <1>2, <2>1, <2>2, <2>3, RowCounted DEF Resume
  <2>. QED
    BY <2>3, <2>4, CountedParts
<1>3. CASE Write \/ Refuse
  <2>1. QueueTyped /\ queue # <<>> /\ queue' = Tail(queue)
    BY <1>0, <1>3, TypeParts DEF Typed, Write, Refuse
  <2>2. /\ Head(queue) = queue[1] /\ 1 \in DOMAIN queue
        /\ \A i \in DOMAIN queue' : i + 1 \in DOMAIN queue /\ queue'[i] = queue[i + 1]
    BY <2>1, Served
  <2>3. heap' = heap /\ edits' = edits /\ posted' = posted
    BY <1>3 DEF Write, Refuse, historyVars
  <2>4. QueueCounted' /\ HeapCounted'
    BY <1>0, <2>2, <2>3 DEF Counted, QueueCounted, HeapCounted
  <2>5. DiskCounted'
    <3>1. CASE Write
      BY <1>0, <2>2, <2>3, <3>1 DEF Write, Counted, DiskCounted, TypeOK
    <3>2. CASE Refuse
      BY <1>0, <2>3, <3>2 DEF Refuse, Counted, DiskCounted
    <3>. QED
      BY <1>3, <3>1, <3>2
  <2>6. PastCounted'
    <3>1. CASE Write
      BY <1>0, <2>3, <3>1 DEF Write, historyVars, Counted, PastCounted
    <3>2. CASE Refuse
      <4>1. pc[Head(queue).by] # "idle"
        BY <2>2 DEF Base, Lines
      <4>. QED
        BY <1>0, <2>3, <3>2, <4>1, OwnPosted DEF Refuse, Counted, PastCounted
    <3>. QED
      BY <1>3, <3>1, <3>2
  <2>. QED
    BY <2>4, <2>5, <2>6, CountedParts
<1>4. CASE Restarted
  <2>1. heap' = <<disk>> /\ queue' = <<>> /\ refused' = {} /\ edits' = edits /\ disk' = disk
        /\ posted' = posted
    BY <1>4 DEF Restarted
  <2>2. DOMAIN heap' = {1} /\ heap'[1] = disk
    BY <2>1
  <2>. QED
    BY <1>0, <2>1, <2>2 DEF Counted
<1>5. ASSUME NEW r \in Requests, Post(r)
      PROVE  Counted'
  <2>1. PICK s \in Sections : heap' = Append(heap, [heap[holder] EXCEPT ![s] = edits + 1])
    BY <1>5 DEF Post
  <2>2. /\ DOMAIN heap' = DOMAIN heap \cup {Len(heap')}
        /\ \A o \in DOMAIN heap : heap'[o] = heap[o]
        /\ \A t \in Sections : heap'[Len(heap')][t] = IF t = s THEN edits + 1 ELSE heap[holder][t]
    BY <1>0, <1>5, <2>1, Copied DEF Post
  <2>3. \A o \in DOMAIN heap, t \in Sections : heap[o][t] \in Nat /\ heap[o][t] <= edits
    BY <1>0, HeapIn DEF Counted
  <2>4. edits' = edits + 1 /\ holder \in DOMAIN heap /\ posted' = posted \cup {edits + 1}
        /\ refused' = refused /\ disk' = disk /\ queue' = queue
    BY <1>0, <1>5 DEF Post, TypeOK
  <2>5. HeapCounted'
    <3>1. \A o \in DOMAIN heap, t \in Sections : heap'[o][t] <= edits'
      BY <1>0, <2>2, <2>3, <2>4
    <3>2. \A t \in Sections : heap'[Len(heap')][t] <= edits'
      BY <1>0, <2>2, <2>3, <2>4
    <3>. QED
      BY <2>2, <3>1, <3>2 DEF HeapCounted
  <2>6. DiskCounted' /\ QueueCounted' /\ PastCounted'
    BY <1>0, <2>4 DEF Counted, DiskCounted, QueueCounted, PastCounted
  <2>. QED
    BY <2>5, <2>6, CountedParts
<1>6. ASSUME NEW r \in Requests, Install(r) \/ GiveUp(r)
      PROVE  Counted'
  <2>1. heap' = heap /\ edits' = edits /\ disk' = disk /\ queue' = queue /\ posted' = posted
    BY <1>6 DEF Install, GiveUp
  <2>2. refused' \subseteq refused \cup posted
    BY <1>0, <1>6, OwnPosted DEF Install, GiveUp
  <2>. QED
    BY <1>0, <2>1, <2>2 DEF Counted
<1>7. ASSUME NEW w \in Writers, Capture(w) \/ Finish(w)
      PROVE  Counted'
  BY <1>0, <1>7 DEF Capture, Finish, historyVars, Counted
<1>. QED
  BY <1>1, <1>2, <1>3, <1>4, <1>5, <1>6, <1>7, NextSteps

(* Mine *)

\* The clause of Mine for one request.
MineIs(r) ==
  /\ Own(r) \in posted
  /\ \E s \in Sections : heap[obj[r]][s] = Own(r)
  /\ \A s \in Sections : heap[obj[r]][s] <= Own(r) /\ heap[holder][s] # Own(r)
  /\ \A w \in Writers \ {r} : pc[w] # "idle" => \A s \in Sections : heap[obj[w]][s] # Own(r)

LEMMA MineParts ==
  /\ Mine => \A r \in Requests : pc[r] # "idle" => MineIs(r)
  /\ (\A r \in Requests : pc'[r] # "idle" => MineIs(r)') => Mine'
BY DEF Mine, MineIs

LEMMA MineStep == ASSUME Base, Next PROVE Mine'
<1>. USE WritersOf
<1>0. TypeOK /\ Alone /\ Counted /\ Mine /\ edits \in Nat /\ holder \in DOMAIN heap
      /\ \A w \in Writers : obj[w] \in DOMAIN heap
  BY DEF Base, TypeOK
<1>1. ASSUME NEW w \in Writers, EditStep(w), NEW r \in Requests, pc'[r] # "idle"
      PROVE  MineIs(r)'
  <2>1. w # r /\ holder' = holder /\ obj' = obj /\ posted' = posted
    BY <1>1 DEF EditStep, historyVars
  <2>2. /\ pc[w] # "idle" /\ \A v \in Writers : pc'[v] # "idle" => pc[v] # "idle"
        /\ \A o \in DOMAIN heap, t \in Sections :
             heap'[o][t] = heap[o][t] \/ (o = obj[w] /\ heap'[o][t] = edits + 1)
    BY <1>0, <1>1, EditFacts DEF EditStep
  <2>3. pc[r] # "idle" /\ MineIs(r)
    BY <1>0, <1>1, <2>2, MineParts
  <2>4. obj[r] # obj[w]
    BY <1>0, <2>1, <2>2, <2>3 DEF Alone
  <2>5. \A t \in Sections : heap'[obj[r]][t] = heap[obj[r]][t]
    BY <1>0, <2>2, <2>4
  <2>6. Own(r)' = Own(r)
    BY <2>1, <2>5, OwnSame
  <2>7. Own(r) # edits + 1
    BY <1>0, <2>3 DEF MineIs, Counted, TypeOK
  <2>8. \A t \in Sections : heap'[holder][t] # Own(r)
    BY <1>0, <2>2, <2>3, <2>7 DEF MineIs
  <2>9. \A v \in Writers \ {r} : pc[v] # "idle" => \A t \in Sections : heap'[obj[v]][t] # Own(r)
    BY <1>0, <2>2, <2>3, <2>7 DEF MineIs
  <2>. QED
    BY <2>1, <2>2, <2>3, <2>5, <2>6, <2>8, <2>9 DEF MineIs
<1>2. ASSUME NEW w \in Writers, Capture(w), NEW r \in Requests, pc'[r] # "idle"
      PROVE  MineIs(r)'
  <2>1. w # r /\ holder' = holder /\ heap' = heap /\ posted' = posted /\ obj'[w] = holder
        /\ \A v \in Writers \ {w} : obj'[v] = obj[v] /\ pc'[v] = pc[v]
    BY <1>0, <1>2 DEF Capture, historyVars, TypeOK
  <2>2. MineIs(r)
    BY <1>0, <1>2, <2>1, MineParts
  <2>3. Own(r)' = Own(r)
    BY <2>1, OwnSame
  <2>. QED
    BY <2>1, <2>2, <2>3 DEF MineIs
<1>3. ASSUME NEW q \in Requests, Post(q), NEW r \in Requests, pc'[r] # "idle"
      PROVE  MineIs(r)'
  <2>1. PICK s \in Sections : heap' = Append(heap, [heap[holder] EXCEPT ![s] = edits + 1])
    BY <1>3 DEF Post
  <2> DEFINE new == Len(heap')
  <2>2. /\ \A o \in DOMAIN heap : heap'[o] = heap[o]
        /\ \A t \in Sections : heap'[new][t] = IF t = s THEN edits + 1 ELSE heap[holder][t]
    BY <1>0, <1>3, <2>1, Copied DEF Post
  <2>3. holder' = holder /\ posted' = posted \cup {edits + 1} /\ obj'[q] = new
        /\ \A v \in Writers \ {q} : obj'[v] = obj[v] /\ pc'[v] = pc[v]
    BY <1>0, <1>3 DEF Post, TypeOK
  <2>. HIDE DEF new
  <2>4. \A o \in DOMAIN heap, t \in Sections : heap[o][t] \in Nat /\ heap[o][t] < edits + 1
    <3>1. \A o \in DOMAIN heap, t \in Sections : heap[o][t] \in Nat /\ heap[o][t] <= edits
      BY <1>0, HeapIn DEF Counted
    <3>. QED
      BY <1>0, <3>1
  <2>5. CASE r = q
    <3>1. heap'[new][s] = edits + 1
      BY <2>2
    <3>2. \A t \in Sections : heap'[new][t] \in Nat /\ heap'[new][t] <= edits + 1
      BY <1>0, <2>2, <2>4
    <3>3. Max({heap'[new][t] : t \in Sections}) = edits + 1
      BY <3>1, <3>2, OwnIs
    <3>4. Own(r)' = edits + 1
      BY <2>3, <2>5, <3>3 DEF Own
    <3>5. \A o \in DOMAIN heap, t \in Sections : heap'[o][t] # edits + 1
      BY <1>0, <2>2, <2>4
    <3>. QED
      BY <1>0, <2>3, <2>5, <3>1, <3>2, <3>4, <3>5 DEF MineIs
  <2>6. CASE r # q
    <3>1. MineIs(r)
      BY <1>0, <1>3, <2>3, <2>6, MineParts
    <3>2. obj'[r] = obj[r] /\ heap'[obj[r]] = heap[obj[r]]
      BY <1>0, <2>2, <2>3, <2>6
    <3>3. Own(r)' = Own(r)
      BY <3>2, OwnSame
    <3>4. Own(r) # edits + 1
      BY <1>0, <3>1 DEF MineIs, Counted, TypeOK
    <3>5. \A t \in Sections : heap'[new][t] # Own(r) /\ heap'[holder][t] # Own(r)
      BY <1>0, <2>2, <3>1, <3>4 DEF MineIs
    <3>6. \A v \in Writers \ {r} : pc'[v] # "idle" =>
            \A t \in Sections : heap'[obj'[v]][t] # Own(r)
      BY <1>0, <2>2, <2>3, <3>1, <3>5 DEF MineIs
    <3>. QED
      BY <2>3, <3>1, <3>2, <3>3, <3>5, <3>6 DEF MineIs
  <2>. QED
    BY <2>5, <2>6
<1>4. ASSUME Restarted, NEW r \in Requests, pc'[r] # "idle"
      PROVE  MineIs(r)'
  BY <1>4 DEF Restarted
<1>5. ASSUME Quiet, NEW r \in Requests, pc'[r] # "idle"
      PROVE  MineIs(r)'
  <2>1. pc[r] # "idle" /\ obj'[r] = obj[r] /\ heap' = heap /\ posted' = posted
    BY <1>5 DEF Quiet
  <2>2. MineIs(r)
    BY <1>0, <2>1, MineParts
  <2>3. Own(r)' = Own(r)
    BY <2>1, OwnSame
  <2>4. \A w \in Writers \ {r} : pc'[w] # "idle" => \A s \in Sections : heap[obj'[w]][s] # Own(r)
    BY <1>5, <2>2 DEF Quiet, MineIs
  <2>5. \A s \in Sections : heap[holder'][s] # Own(r)
    BY <1>5, <2>2 DEF Quiet, MineIs
  <2>. QED
    BY <2>1, <2>2, <2>3, <2>4, <2>5 DEF MineIs
<1>. QED
  BY <1>1, <1>2, <1>3, <1>4, <1>5, QuietSteps, MineParts

LEMMA BaseStep == ASSUME Base, Next PROVE Base'
BY NextTyped, LinesStep, AloneStep, CountedStep, MineStep DEF Base

-----------------------------------------------------------------------------
(* What the dashboard changed has been on the disk *)

Seen(e) == e \in posted => e \in stored

\* The save of request r has still to write section s of its copy.
Pending(r, s) ==
  \/ s \in ToSet(todo[r])
  \/ \E i \in DOMAIN queue : /\ queue[i].by = r /\ queue[i].section = s
                            /\ queue[i].val = heap[obj[r]][s]

Kept ==
  /\ \A s \in Sections : Seen(heap[holder][s]) /\ acked[s] \in stored /\ disk[s] \in stored
  /\ \A w \in Writers \ Requests : pc[w] # "idle" => \A s \in Sections : Seen(heap[obj[w]][s])
  /\ \A r \in Requests : pc[r] # "idle" =>
       \A s \in Sections : Seen(heap[obj[r]][s]) \/ Pending(r, s)

LEMMA HeadOrTail ==
  ASSUME NEW S, NEW q \in Seq(S), q # <<>>, NEW e \in ToSet(q)
  PROVE  e = Head(q) \/ e \in ToSet(Tail(q))
<1>1. Len(q) \in Nat /\ DOMAIN q = 1 .. Len(q)
  BY LenProperties
<1>2. PICK i \in 1 .. Len(q) : e = q[i]
  BY <1>1 DEF ToSet
<1>3. /\ Tail(q) \in Seq(S) /\ Len(Tail(q)) = Len(q) - 1
      /\ \A j \in 1 .. Len(Tail(q)) : Tail(q)[j] = q[j + 1]
  BY HeadTailProperties
<1>4. DOMAIN Tail(q) = 1 .. Len(q) - 1
  BY <1>3, LenProperties
<1>5. CASE i = 1
  BY <1>2, <1>5
<1>6. CASE i # 1
  <2>1. i - 1 \in DOMAIN Tail(q) /\ Tail(q)[i - 1] = q[(i - 1) + 1] /\ (i - 1) + 1 = i
    BY <1>1, <1>2, <1>3, <1>4, <1>6
  <2>. QED
    BY <1>2, <2>1 DEF ToSet
<1>. QED
  BY <1>5, <1>6

\* A row that joins the queue takes none away.
LEMMA PendingStays ==
  ASSUME TypeOK, NEW r \in Requests, NEW s \in Sections, Pending(r, s),
         todo'[r] = todo[r], heap'[obj'[r]][s] = heap[obj[r]][s],
         queue' = queue \/ \E row \in Rows : queue' = Append(queue, row)
  PROVE  Pending(r, s)'
<1>1. CASE s \in ToSet(todo[r])
  BY <1>1 DEF Pending
<1>2. ASSUME NEW i \in DOMAIN queue, queue[i].by = r, queue[i].section = s,
             queue[i].val = heap[obj[r]][s]
      PROVE  Pending(r, s)'
  <2>1. i \in DOMAIN queue' /\ queue'[i] = queue[i]
    BY Queued, TypeParts DEF Typed
  <2>. QED
    BY <1>2, <2>1 DEF Pending
<1>. QED
  BY <1>1, <1>2 DEF Pending

\* When the first row leaves, those of the other writers stay.
LEMMA PendingLeft ==
  ASSUME TypeOK, NEW r \in Requests, NEW s \in Sections, Pending(r, s),
         todo'[r] = todo[r], heap'[obj'[r]][s] = heap[obj[r]][s],
         queue # <<>>, queue' = Tail(queue)
  PROVE  \/ Pending(r, s)'
         \/ Head(queue).by = r /\ Head(queue).section = s /\ Head(queue).val = heap[obj[r]][s]
<1>1. CASE s \in ToSet(todo[r])
  BY <1>1 DEF Pending
<1>2. ASSUME NEW i \in DOMAIN queue, queue[i].by = r, queue[i].section = s,
             queue[i].val = heap[obj[r]][s], i # 1
      PROVE  Pending(r, s)'
  <2>1. /\ Len(queue) \in Nat /\ DOMAIN queue = 1 .. Len(queue)
        /\ DOMAIN queue' = 1 .. Len(queue) - 1
        /\ \A j \in DOMAIN queue' : queue'[j] = queue[j + 1]
    BY Served, TypeParts DEF Typed
  <2>2. i - 1 \in DOMAIN queue' /\ (i - 1) + 1 = i
    BY <1>2, <2>1
  <2>3. queue'[i - 1] = queue[i]
    BY <2>1, <2>2
  <2>. QED
    BY <1>2, <2>2, <2>3 DEF Pending
<1>3. Head(queue) = queue[1]
  BY Served, TypeParts DEF Typed
<1>. QED
  BY <1>1, <1>2, <1>3 DEF Pending

LEMMA KeptEdit == ASSUME Base, Kept, NEW w \in Writers, EditStep(w) PROVE Kept'
<1>. USE WritersOf
<1>0. TypeOK /\ Alone /\ Counted /\ edits \in Nat /\ holder \in DOMAIN heap
      /\ \A v \in Writers : obj[v] \in DOMAIN heap
  BY DEF Base, TypeOK
<1>1. /\ w \notin Requests /\ pc[w] # "idle" /\ holder' = holder /\ obj' = obj /\ posted' = posted
      /\ stored' = stored /\ acked' = acked /\ disk' = disk
  BY DEF EditStep, historyVars
<1>2. /\ \A v \in Writers : pc'[v] # "idle" => pc[v] # "idle"
      /\ \A o \in DOMAIN heap, t \in Sections :
            heap'[o][t] = heap[o][t] \/ (o = obj[w] /\ heap'[o][t] = edits + 1)
      /\ heap' \in Seq(Config) /\ DOMAIN heap' = DOMAIN heap
  BY <1>0, <1>1, EditFacts
<1>3. edits + 1 \notin posted
  BY <1>0 DEF Counted, TypeOK
<1>4. \A o \in DOMAIN heap, t \in Sections : Seen(heap[o][t]) => Seen(heap[o][t])'
  BY <1>1, <1>2, <1>3 DEF Seen
<1>5. queue' = queue \/ \E row \in Rows : queue' = Append(queue, row)
  <2>1. obj[w] \in DOMAIN heap'
    BY <1>0, <1>2
  <2>2. Row(w, obj[w], Head(Order)) \in Rows
    BY <1>2, <2>1, OrderOf, RowTyped
  <2>. QED
    BY <2>2 DEF EditStep, BeginSave
<1>6. ASSUME NEW r \in Requests, pc'[r] # "idle", NEW s \in Sections
      PROVE  Seen(heap[obj[r]][s])' \/ Pending(r, s)'
  <2>1. pc[r] # "idle" /\ obj[r] # obj[w]
    BY <1>0, <1>1, <1>2, <1>6 DEF Alone
  <2>2. heap'[obj'[r]][s] = heap[obj[r]][s]
    BY <1>0, <1>1, <1>2, <2>1
  <2>3. todo'[r] = todo[r]
    BY <1>0, <1>1 DEF EditStep, BeginSave, TypeOK
  <2>4. CASE Seen(heap[obj[r]][s])
    BY <1>1, <2>2, <2>4 DEF Seen
  <2>5. CASE Pending(r, s)
    BY <1>0, <1>5, <2>2, <2>3, <2>5, PendingStays
  <2>. QED
    BY <2>1, <2>4, <2>5 DEF Kept
<1>. QED
  BY <1>0, <1>1, <1>2, <1>4, <1>6 DEF Kept

LEMMA KeptSave ==
  ASSUME Base, Kept, NEW w \in Writers, Capture(w) \/ Resume(w) \/ Finish(w)
  PROVE  Kept'
<1>. USE WritersOf
<1>0. TypeOK /\ Lines
  BY DEF Base
<1>1. /\ heap' = heap /\ posted' = posted /\ stored' = stored /\ acked' = acked /\ disk' = disk
      /\ \A v \in Writers \ {w} : pc'[v] = pc[v] /\ obj'[v] = obj[v] /\ todo'[v] = todo[v]
  BY <1>0 DEF Capture, Resume, Finish, historyVars, TypeOK
<1>2. CASE Capture(w)
  <2>1. w \notin Requests /\ obj'[w] = holder /\ holder' = holder /\ queue' = queue
    BY <1>0, <1>2 DEF Capture, TypeOK
  <2>. QED
    BY <1>1, <2>1 DEF Kept, Seen, Pending
<1>3. CASE Resume(w)
  <2>1. /\ holder' = holder /\ obj' = obj /\ pc' = pc /\ todo'[w] = Tail(todo[w])
        /\ queue' = Append(queue, Row(w, obj[w], Head(todo[w])))
        /\ todo[w] \in Seq(Sections) /\ todo[w] # <<>>
    BY <1>0, <1>3 DEF Resume, TypeOK
  <2>2. Head(todo[w]) \in Sections
    BY <2>1, HeadTailProperties
  <2> DEFINE row == Row(w, obj[w], Head(todo[w]))
  <2>3. /\ row \in Rows /\ row.by = w /\ row.section = Head(todo[w])
        /\ row.val = heap[obj[w]][Head(todo[w])]
    <3>1. heap' \in Seq(Config) /\ obj[w] \in DOMAIN heap'
      BY <1>0, <1>1 DEF TypeOK, Config
    <3>. QED
      BY <1>1, <2>2, <3>1, RowTyped
  <2>. HIDE DEF row
  <2>4. queue' = Append(queue, row)
    BY <2>1 DEF row
  <2>5. ASSUME NEW r \in Requests, NEW s \in Sections, Pending(r, s)
        PROVE  Pending(r, s)'
    <3>1. CASE r # w \/ s \notin ToSet(todo[r])
      <4>1. CASE r # w
        BY <1>0, <1>1, <2>1, <2>3, <2>4, <2>5, <4>1, PendingStays
      <4>2. CASE s \notin ToSet(todo[r])
        <5>1. PICK i \in DOMAIN queue : /\ queue[i].by = r /\ queue[i].section = s
                                        /\ queue[i].val = heap[obj[r]][s]
          BY <2>5, <4>2 DEF Pending
        <5>2. i \in DOMAIN queue' /\ queue'[i] = queue[i]
          BY <1>0, <2>3, <2>4, Queued, TypeParts DEF Typed
        <5>. QED
          BY <1>1, <2>1, <5>1, <5>2 DEF Pending
      <4>. QED
        BY <3>1, <4>1, <4>2
    <3>2. CASE r = w /\ s \in ToSet(todo[r])
      <4>1. s = Head(todo[w]) \/ s \in ToSet(todo'[w])
        BY <2>1, <3>2, HeadOrTail
      <4>2. Len(queue) + 1 \in DOMAIN queue' /\ queue'[Len(queue) + 1] = row
        BY <1>0, <2>3, <2>4, Queued, TypeParts DEF Typed
      <4>. QED
        BY <1>1, <2>1, <2>3, <3>2, <4>1, <4>2 DEF Pending
    <3>. QED
      BY <3>1, <3>2
  <2>. QED
    BY <1>1, <2>1, <2>5 DEF Kept, Seen
<1>4. CASE Finish(w)
  <2>1. /\ obj' = obj /\ todo' = todo /\ queue' = queue /\ pc[w] # "idle"
        /\ holder' = IF w \in Requests THEN holder ELSE obj[w]
    BY <1>4 DEF Finish
  <2>2. \A s \in Sections : Seen(heap[holder][s])'
    BY <1>1, <2>1 DEF Kept, Seen
  <2>3. \A v \in Writers : pc'[v] # "idle" => pc[v] # "idle"
    BY <1>1, <2>1
  <2>. QED
    BY <1>1, <2>1, <2>2, <2>3 DEF Kept, Seen, Pending
<1>. QED
  BY <1>2, <1>3, <1>4

LEMMA KeptWrite == ASSUME Base, Kept, Write \/ Refuse PROVE Kept'
<1>. USE WritersOf
<1>0. TypeOK /\ Lines /\ QueueTyped
  BY TypeParts DEF Base, Typed
<1>1. /\ queue # <<>> /\ queue' = Tail(queue) /\ heap' = heap /\ posted' = posted /\ acked' = acked
      /\ holder' = holder /\ obj' = obj /\ stored \subseteq stored'
  BY DEF Write, Refuse, historyVars
<1>2. Head(queue) \in Rows /\ Head(queue) = queue[1] /\ 1 \in DOMAIN queue
  BY <1>0, <1>1, Served
<1>3. Head(queue).by \in Writers /\ Head(queue).section \in Sections
  BY <1>2 DEF Rows
<1>4. \A s \in Sections : disk'[s] \in stored'
  <2>1. CASE Write
    <3>1. disk' = [disk EXCEPT ![Head(queue).section] = Head(queue).val]
          /\ stored' = stored \cup {Head(queue).val}
      BY <2>1 DEF Write
    <3>. QED
      BY <1>0, <3>1 DEF Kept, TypeOK
  <2>2. CASE Refuse
    BY <1>1, <2>2 DEF Refuse, Kept
  <2>. QED
    BY <2>1, <2>2
<1>5. \A v \in Writers : pc'[v] # "idle" => pc[v] # "idle" /\ todo'[v] = todo[v]
  BY <1>0, <1>3 DEF Write, Refuse, TypeOK
<1>6. ASSUME NEW r \in Requests, pc'[r] # "idle", NEW s \in Sections
      PROVE  Seen(heap[obj[r]][s])' \/ Pending(r, s)'
  <2>1. CASE Seen(heap[obj[r]][s])
    BY <1>1, <2>1 DEF Seen
  <2>2. CASE Pending(r, s)
    <3>1. CASE Pending(r, s)'
      BY <3>1
    <3>2. CASE Head(queue).by = r /\ Head(queue).val = heap[obj[r]][s]
      <4>1. Write
        BY <1>0, <1>3, <1>6, <3>2 DEF Refuse, TypeOK
      <4>. QED
        BY <1>1, <3>2, <4>1 DEF Write, Seen
    <3>. QED
      BY <1>0, <1>1, <1>5, <1>6, <2>2, <3>1, <3>2, PendingLeft
  <2>. QED
    BY <1>5, <1>6, <2>1, <2>2 DEF Kept
<1>. QED
  BY <1>1, <1>4, <1>5, <1>6 DEF Kept, Seen

LEMMA KeptRestart == ASSUME Base, Kept, Restarted PROVE Kept'
<1>1. /\ heap' = <<disk>> /\ holder' = 1 /\ disk' = disk /\ stored' = stored /\ acked' = acked
      /\ \A w \in Writers : pc'[w] = "idle"
  BY DEF Restarted
<1>2. heap'[holder'] = disk
  BY <1>1
<1>. QED
  BY <1>1, <1>2, WritersOf DEF Kept, Seen

LEMMA KeptRequest ==
  ASSUME Base, Kept, NEW q \in Requests, Post(q) \/ Install(q) \/ GiveUp(q)
  PROVE  Kept'
<1>. USE WritersOf
<1>0. TypeOK /\ Lines /\ Alone /\ Counted /\ Mine /\ edits \in Nat /\ holder \in DOMAIN heap
      /\ \A w \in Writers : obj[w] \in DOMAIN heap
  BY DEF Base, TypeOK
<1>1. CASE Post(q)
  <2>1. PICK s \in Sections : heap' = Append(heap, [heap[holder] EXCEPT ![s] = edits + 1])
    BY <1>1 DEF Post
  <2> DEFINE new == Len(heap')
  <2>2. /\ \A o \in DOMAIN heap : heap'[o] = heap[o]
        /\ \A t \in Sections : heap'[new][t] = IF t = s THEN edits + 1 ELSE heap[holder][t]
    BY <1>0, <1>1, <2>1, Copied DEF Post
  <2>3. /\ holder' = holder /\ posted' = posted \cup {edits + 1} /\ obj'[q] = new
        /\ disk' = disk /\ stored' = stored /\ acked' = acked /\ queue' = queue
        /\ todo'[q] = Order
        /\ \A v \in Writers \ {q} : obj'[v] = obj[v] /\ pc'[v] = pc[v] /\ todo'[v] = todo[v]
    BY <1>0, <1>1 DEF Post, TypeOK
  <2>. HIDE DEF new
  <2>4. \A o \in DOMAIN heap, t \in Sections : Seen(heap[o][t]) => Seen(heap[o][t])'
    <3>1. \A o \in DOMAIN heap, t \in Sections : heap[o][t] # edits + 1
      BY <1>0, HeapIn DEF Counted
    <3>. QED
      BY <2>2, <2>3, <3>1 DEF Seen
  <2>5. \A t \in Sections : Seen(heap[obj[q]][t])' \/ Pending(q, t)'
    <3>1. s \in ToSet(todo'[q])
      BY <2>3 DEF Sections
    <3>2. ASSUME NEW t \in Sections \ {s}
          PROVE  heap'[new][t] \in posted' => heap'[new][t] \in stored'
      <4>1. heap'[new][t] = heap'[holder][t] /\ Seen(heap[holder][t])
        BY <1>0, <2>2 DEF Kept
      <4>2. heap'[holder][t] \in posted' => heap'[holder][t] \in stored'
        BY <1>0, <2>4, <4>1 DEF Seen
      <4>. QED
        BY <4>1, <4>2
    <3>. QED
      BY <2>3, <3>1, <3>2 DEF Pending, Seen
  <2>6. ASSUME NEW r \in Requests \ {q}, pc'[r] # "idle", NEW t \in Sections
        PROVE  Seen(heap[obj[r]][t])' \/ Pending(r, t)'
    <3>1. pc[r] # "idle" /\ obj'[r] = obj[r] /\ heap'[obj'[r]][t] = heap[obj[r]][t]
          /\ todo'[r] = todo[r]
      BY <1>0, <2>2, <2>3, <2>6
    <3>2. CASE Seen(heap[obj[r]][t])
      BY <1>0, <2>4, <3>1, <3>2
    <3>3. CASE Pending(r, t)
      BY <1>0, <2>3, <3>1, <3>3, PendingStays
    <3>. QED
      BY <3>1, <3>2, <3>3 DEF Kept
  <2>. QED
    BY <1>0, <2>3, <2>4, <2>5, <2>6 DEF Kept
<1>2. CASE Install(q)
  <2>1. /\ pc[q] = "done" /\ holder' = obj[q] /\ heap' = heap /\ posted' = posted /\ obj' = obj
        /\ stored' = stored /\ disk' = disk /\ queue' = queue /\ todo' = todo
        /\ acked' = [s \in Sections |-> IF heap[obj[q]][s] = Own(q) THEN Own(q) ELSE acked[s]]
        /\ \A v \in Writers : pc'[v] # "idle" => pc[v] # "idle"
    BY <1>0, <1>2 DEF Install, TypeOK
  <2>2. \A s \in Sections : ~Pending(q, s)
    <3>1. todo[q] = <<>>
      BY <1>0, <2>1 DEF Lines
    <3>2. ToSet(todo[q]) = {}
      BY <3>1 DEF ToSet
    <3>. QED
      BY <1>0, <2>1, <3>2 DEF Lines, Pending
  <2>3. \A s \in Sections : Seen(heap[obj[q]][s])
    BY <2>1, <2>2 DEF Kept
  <2>4. Own(q) \in stored
    BY <1>0, <2>1, <2>3 DEF Mine, Seen
  <2>. QED
    BY <2>1, <2>3, <2>4 DEF Kept, Seen, Pending
<1>3. CASE GiveUp(q)
  <2>1. /\ holder' = holder /\ heap' = heap /\ posted' = posted /\ obj' = obj
        /\ stored' = stored /\ disk' = disk /\ queue' = queue /\ todo' = todo /\ acked' = acked
        /\ \A v \in Writers : pc'[v] # "idle" => pc[v] # "idle"
    BY <1>0, <1>3 DEF GiveUp, TypeOK
  <2>. QED
    BY <2>1 DEF Kept, Seen, Pending
<1>. QED
  BY <1>1, <1>2, <1>3

-----------------------------------------------------------------------------
(* What was refused stays out of memory *)

\* An object that is live, or may become live, has no refused edit.
Gone ==
  /\ \A s \in Sections : heap[holder][s] \notin refused
  /\ \A w \in Writers : pc[w] \notin {"idle", "orphan"} =>
       \A s \in Sections : heap[obj[w]][s] \notin refused

LEMMA GoneStep == ASSUME Base, Gone, Next PROVE Gone'
<1>. USE WritersOf
<1>0. TypeOK /\ Lines /\ Counted /\ Mine /\ edits \in Nat /\ holder \in DOMAIN heap
      /\ \A w \in Writers : obj[w] \in DOMAIN heap
  BY DEF Base, TypeOK
<1>1. edits + 1 \notin refused
  BY <1>0 DEF Counted, TypeOK
<1>2. ASSUME NEW w \in Writers, EditStep(w)
      PROVE  Gone'
  <2>1. holder' = holder /\ obj' = obj /\ refused' = refused /\ pc[w] = "open"
    BY <1>2 DEF EditStep, historyVars
  <2>2. /\ \A v \in Writers : pc'[v] \notin {"idle", "orphan"} => pc[v] \notin {"idle", "orphan"}
        /\ \A o \in DOMAIN heap, t \in Sections :
             heap'[o][t] = heap[o][t] \/ heap'[o][t] = edits + 1
    BY <1>0, <1>2, <2>1, EditFacts
  <2>. QED
    BY <1>0, <1>1, <2>1, <2>2 DEF Gone
<1>3. ASSUME NEW w \in Writers, Capture(w) \/ Resume(w) \/ Finish(w)
      PROVE  Gone'
  <2>1. heap' = heap /\ refused' = refused
        /\ \A v \in Writers \ {w} : pc'[v] = pc[v] /\ obj'[v] = obj[v]
    BY <1>0, <1>3 DEF Capture, Resume, Finish, historyVars, TypeOK
  <2>2. CASE Capture(w)
    <3>1. holder' = holder /\ obj'[w] = holder
      BY <1>0, <2>2 DEF Capture, TypeOK
    <3>. QED
      BY <2>1, <3>1 DEF Gone
  <2>3. CASE Resume(w)
    BY <2>3 DEF Resume, Gone, historyVars
  <2>4. CASE Finish(w)
    <3>1. /\ obj' = obj /\ holder' = IF w \in Requests THEN holder ELSE obj[w]
          /\ pc'[w] = IF w \in Requests /\ pc[w] = "saving" THEN "done" ELSE "idle"
      BY <1>0, <2>4 DEF Finish, TypeOK
    <3>2. w \notin Requests => pc[w] = "saving"
      BY <1>0, <2>4 DEF Finish, Lines
    <3>. QED
      BY <2>1, <3>1, <3>2 DEF Gone
  <2>. QED
    BY <1>3, <2>2, <2>3, <2>4
<1>4. CASE Write \/ Restarted
  BY <1>4 DEF Write, Restarted, Gone, historyVars
<1>5. CASE Refuse
  <2> DEFINE w == Head(queue).by
  <2>1. 1 \in DOMAIN queue /\ Head(queue) = queue[1]
    BY <1>0, <1>5, Served, TypeParts DEF Refuse, Typed
  <2>2. w \in Writers /\ pc[w] # "idle"
    BY <1>0, <2>1, RowsIn DEF Lines
  <2>3. /\ heap' = heap /\ holder' = holder /\ obj' = obj /\ pc'[w] = "idle"
        /\ \A v \in Writers \ {w} : pc'[v] = pc[v]
        /\ refused' = IF w \in Requests THEN refused \cup {Own(w)} ELSE refused
    BY <1>0, <1>5, <2>2 DEF Refuse, TypeOK
  <2>. HIDE DEF w
  <2>4. w \in Requests =>
          /\ \A s \in Sections : heap[holder][s] # Own(w)
          /\ \A v \in Writers \ {w} : pc[v] # "idle" => \A s \in Sections : heap[obj[v]][s] # Own(w)
    BY <1>0, <2>2 DEF Mine
  <2>. QED
    BY <2>3, <2>4 DEF Gone
<1>6. ASSUME NEW r \in Requests, Post(r)
      PROVE  Gone'
  <2>1. PICK s \in Sections : heap' = Append(heap, [heap[holder] EXCEPT ![s] = edits + 1])
    BY <1>6 DEF Post
  <2>2. /\ \A o \in DOMAIN heap : heap'[o] = heap[o]
        /\ \A t \in Sections : heap'[Len(heap')][t] = IF t = s THEN edits + 1 ELSE heap[holder][t]
    BY <1>0, <1>6, <2>1, Copied DEF Post
  <2>3. /\ holder' = holder /\ refused' = refused /\ obj'[r] = Len(heap')
        /\ \A v \in Writers \ {r} : obj'[v] = obj[v] /\ pc'[v] = pc[v]
    BY <1>0, <1>6 DEF Post, TypeOK
  <2>4. \A t \in Sections : heap'[holder][t] \notin refused /\ heap'[obj'[r]][t] \notin refused
    BY <1>0, <1>1, <2>2, <2>3 DEF Gone
  <2>5. \A v \in Writers \ {r} : pc[v] \notin {"idle", "orphan"} =>
          \A t \in Sections : heap'[obj[v]][t] \notin refused
    BY <1>0, <2>2 DEF Gone
  <2>. QED
    BY <2>3, <2>4, <2>5 DEF Gone
<1>7. ASSUME NEW r \in Requests, Install(r)
      PROVE  Gone'
  <2>1. /\ pc[r] = "done" /\ heap' = heap /\ refused' = refused /\ obj' = obj /\ holder' = obj[r]
        /\ pc'[r] = "idle" /\ \A v \in Writers \ {r} : pc'[v] = pc[v]
    BY <1>0, <1>7 DEF Install, TypeOK
  <2>. QED
    BY <2>1 DEF Gone
<1>8. ASSUME NEW r \in Requests, GiveUp(r)
      PROVE  Gone'
  <2>1. /\ pc[r] # "idle" /\ heap' = heap /\ refused' = refused \cup {Own(r)} /\ obj' = obj
        /\ holder' = holder /\ pc'[r] = "orphan" /\ \A v \in Writers \ {r} : pc'[v] = pc[v]
    BY <1>0, <1>8 DEF GiveUp, TypeOK
  <2>2. /\ \A s \in Sections : heap[holder][s] # Own(r)
        /\ \A v \in Writers \ {r} : pc[v] # "idle" => \A s \in Sections : heap[obj[v]][s] # Own(r)
    BY <1>0, <2>1 DEF Mine
  <2>. QED
    BY <2>1, <2>2 DEF Gone
<1>. QED
  BY <1>2, <1>3, <1>4, <1>5, <1>6, <1>7, <1>8, NextSteps

-----------------------------------------------------------------------------
(* Saves that overlap *)

\* Somebody will still write section s as it is then.
Awaited(s, at, left) ==
  \E w \in Writers : at[w] = "open" \/ (at[w] = "saving" /\ s \in ToSet(left[w]))

\* The last row of section s that waits, or else the disk, has v.
LastIs(s, v, line, rows) ==
  \/ \E i \in DOMAIN line : /\ line[i].section = s /\ line[i].val = v
                           /\ \A j \in DOMAIN line : j > i => line[j].section # s
  \/ rows[s] = v /\ \A j \in DOMAIN line : line[j].section # s

Synced(o) ==
  \A s \in Sections : Awaited(s, pc, todo) \/ LastIs(s, heap[o][s], queue, disk)

\* Handlings and the menu all work on the live object.
Together ==
  /\ \A r \in Requests : pc[r] = "idle"
  /\ \A w \in Writers : pc[w] # "idle" => obj[w] = holder
  /\ Synced(holder)

\* One request, and nobody else.
ByRequest ==
  \E r \in Requests : /\ pc[r] \in {"saving", "done"}
                     /\ \A w \in Writers \ {r} : pc[w] = "idle"
                     /\ Synced(obj[r])

Shared == ~clash /\ ~failed => Together \/ ByRequest

LEMMA LastJoins ==
  ASSUME TypeOK, NEW row \in Rows, queue' = Append(queue, row), disk' = disk
  PROVE  /\ LastIs(row.section, row.val, queue', disk')
         /\ \A s \in Sections \ {row.section}, v \in 0 .. MaxEdits :
              LastIs(s, v, queue, disk) => LastIs(s, v, queue', disk')
<1>1. /\ Len(queue) \in Nat /\ DOMAIN queue = 1 .. Len(queue) /\ DOMAIN queue' = 1 .. Len(queue) + 1
      /\ \A i \in 1 .. Len(queue) : queue'[i] = queue[i]
      /\ queue'[Len(queue) + 1] = row
  BY Queued, TypeParts DEF Typed
<1>2. /\ Len(queue) + 1 \in DOMAIN queue' /\ \A j \in DOMAIN queue' : ~(j > Len(queue) + 1)
      /\ \A j \in DOMAIN queue' : j \in DOMAIN queue \/ j = Len(queue) + 1
      /\ DOMAIN queue \subseteq DOMAIN queue'
  BY <1>1
<1>3. LastIs(row.section, row.val, queue', disk')
  BY <1>1, <1>2 DEF LastIs
<1>4. ASSUME NEW s \in Sections \ {row.section}, NEW v \in 0 .. MaxEdits, LastIs(s, v, queue, disk)
      PROVE  LastIs(s, v, queue', disk')
  BY <1>1, <1>2, <1>4 DEF LastIs
<1>. QED
  BY <1>3, <1>4

LEMMA LastWritten ==
  ASSUME TypeOK, Write, NEW s \in Sections, NEW v \in 0 .. MaxEdits, LastIs(s, v, queue, disk)
  PROVE  LastIs(s, v, queue', disk')
<1>1. queue # <<>> /\ queue' = Tail(queue)
      /\ disk' = [disk EXCEPT ![Head(queue).section] = Head(queue).val]
  BY DEF Write
<1>2. /\ Head(queue) = queue[1] /\ Len(queue) \in Nat \ {0}
      /\ DOMAIN queue = 1 .. Len(queue) /\ DOMAIN queue' = 1 .. Len(queue) - 1
      /\ \A i \in DOMAIN queue' : queue'[i] = queue[i + 1]
  BY <1>1, Served, TypeParts DEF Typed
<1>3. \A i \in DOMAIN queue' : i + 1 \in DOMAIN queue /\ i \in Int
  BY <1>2
<1>4. 1 \in DOMAIN queue
  BY <1>2
<1>5. disk \in Config /\ queue[1].section \in Sections
  BY <1>4, RowsIn DEF TypeOK, Config
<1>6. CASE disk[s] = v /\ \A j \in DOMAIN queue : queue[j].section # s
  <2>1. disk'[s] = v
    BY <1>1, <1>2, <1>4, <1>5, <1>6 DEF Config
  <2>. QED
    BY <1>2, <1>3, <1>6, <2>1 DEF LastIs
<1>7. ASSUME NEW i \in DOMAIN queue, queue[i].section = s, queue[i].val = v,
             \A j \in DOMAIN queue : j > i => queue[j].section # s
      PROVE  LastIs(s, v, queue', disk')
  <2>1. CASE i = 1
    <3>1. disk'[s] = v
      BY <1>1, <1>2, <1>5, <1>7, <2>1 DEF Config
    <3>2. \A j \in DOMAIN queue' : j + 1 > 1
      BY <1>2
    <3>3. \A j \in DOMAIN queue' : queue'[j].section # s
      BY <1>2, <1>3, <1>7, <2>1, <3>2
    <3>. QED
      BY <3>1, <3>3 DEF LastIs
  <2>2. CASE i # 1
    <3>1. i - 1 \in DOMAIN queue' /\ (i - 1) + 1 = i
      BY <1>2, <1>7, <2>2
    <3>2. queue'[i - 1] = queue[i]
      BY <1>2, <3>1
    <3>3. \A j \in DOMAIN queue' : j > i - 1 => j + 1 > i
      BY <1>2, <1>7
    <3>4. \A j \in DOMAIN queue' : j > i - 1 => queue'[j].section # s
      BY <1>2, <1>3, <1>7, <3>3
    <3>. QED
      BY <1>7, <3>1, <3>2, <3>4 DEF LastIs
  <2>. QED
    BY <2>1, <2>2
<1>. QED
  BY <1>6, <1>7 DEF LastIs

\* A row of o's section joins, and the other sections are still to be written, or
\* were synced.
LEMMA SyncedJoins ==
  ASSUME TypeOK, NEW w \in Writers, NEW s \in Sections, NEW o \in DOMAIN heap',
         heap' \in Seq(Config), queue' = Append(queue, Row(w, o, s)), disk' = disk,
         \A t \in Sections \ {s} :
           Awaited(t, pc', todo') \/ LastIs(t, heap'[o][t], queue, disk)
  PROVE  Synced(o)'
<1>1. /\ Row(w, o, s) \in Rows /\ Row(w, o, s).section = s /\ Row(w, o, s).val = heap'[o][s]
  BY RowTyped
<1>2. \A t \in Sections : heap'[o][t] \in 0 .. MaxEdits
  <2>1. o \in 1 .. Len(heap')
    BY LenProperties
  <2>2. heap'[o] \in Config
    BY <2>1, ElementOfSeq
  <2>. QED
    BY <2>2 DEF Config
<1>3. PICK row \in Rows :
        row.section = s /\ row.val = heap'[o][s] /\ queue' = Append(queue, row)
  BY <1>1
<1>4. LastIs(s, heap'[o][s], queue', disk')
  BY <1>3, LastJoins
<1>5. \A t \in Sections \ {s}, v \in 0 .. MaxEdits :
        LastIs(t, v, queue, disk) => LastIs(t, v, queue', disk')
  BY <1>3, LastJoins
<1>6. ASSUME NEW t \in Sections
      PROVE  Awaited(t, pc', todo') \/ LastIs(t, heap'[o][t], queue', disk')
  BY <1>2, <1>4, <1>5
<1>. QED
  BY <1>6 DEF Synced

\* Nothing waits and nothing is written in between: what is synced stays so.
LEMMA SyncedStays ==
  ASSUME NEW o, Synced(o), queue' = queue, disk' = disk, heap' = heap,
         \A t \in Sections : Awaited(t, pc, todo) => Awaited(t, pc', todo')
  PROVE  Synced(o)'
BY DEF Synced

LEMMA SharedEdit ==
  ASSUME Base, Together, NEW w \in Writers, EditStep(w)
  PROVE  Together'
<1>. USE WritersOf
<1>0. TypeOK
  BY DEF Base
<1>1. /\ w \notin Requests /\ pc[w] = "open" /\ holder' = holder /\ obj' = obj /\ disk' = disk
      /\ obj[w] = holder
  BY DEF EditStep, Together
<1>2. /\ heap' \in Seq(Config) /\ DOMAIN heap' = DOMAIN heap
      /\ \A v \in Writers : pc'[v] # "idle" => pc[v] # "idle"
      /\ \A v \in Writers \ {w} : pc'[v] = pc[v]
  BY <1>0, <1>1, EditFacts
<1>3. PICK o \in DOMAIN heap' : o = holder
  BY <1>0, <1>2 DEF TypeOK
<1>4. CASE BeginSave(w)
  <2>1. /\ pc'[w] = "saving" /\ todo'[w] = Tail(Order)
        /\ queue' = Append(queue, Row(w, o, Head(Order)))
    BY <1>0, <1>1, <1>3, <1>4 DEF BeginSave, TypeOK
  <2>2. \A t \in Sections \ {Head(Order)} : t \in ToSet(Tail(Order))
    BY OrderOf, HeadOrTail DEF Sections
  <2>3. \A t \in Sections \ {Head(Order)} : Awaited(t, pc', todo')
    BY <2>1, <2>2 DEF Awaited
  <2>4. Synced(o)'
    BY <1>0, <1>1, <1>2, <2>1, <2>3, OrderOf, SyncedJoins
  <2>. QED
    BY <1>1, <1>2, <1>3, <2>4 DEF Together, Synced
<1>5. CASE UNCHANGED <<pc, queue, todo>>
  <2>1. \A t \in Sections : Awaited(t, pc', todo')
    BY <1>1, <1>5 DEF Awaited
  <2>. QED
    BY <1>1, <1>2, <2>1 DEF Together, Synced
<1>. QED
  BY <1>4, <1>5 DEF EditStep

\* A save goes on, or ends, on an object that is synced.
LEMMA SaveSynced ==
  ASSUME TypeOK, NEW w \in Writers, pc[w] = "saving", NEW o \in DOMAIN heap, o = obj[w],
         Synced(o), Resume(w) \/ Finish(w)
  PROVE  Synced(o)'
<1>1. heap' = heap /\ disk' = disk /\ heap \in Seq(Config) /\ todo[w] \in Seq(Sections)
      /\ \A v \in Writers \ {w} : pc'[v] = pc[v] /\ todo'[v] = todo[v]
  BY DEF Resume, Finish, TypeOK, Config
<1>2. CASE Resume(w)
  <2> DEFINE h == Head(todo[w])
  <2>1. /\ todo[w] # <<>> /\ pc'[w] = "saving" /\ todo'[w] = Tail(todo[w])
        /\ queue' = Append(queue, Row(w, o, h))
    BY <1>2 DEF Resume, TypeOK
  <2>2. h \in Sections
    BY <1>1, <2>1, HeadTailProperties
  <2>3. ASSUME NEW t \in Sections \ {h}
        PROVE  Awaited(t, pc, todo) => Awaited(t, pc', todo')
    <3>1. t \in ToSet(todo[w]) => t \in ToSet(todo'[w])
      BY <1>1, <2>1, HeadOrTail
    <3>2. SUFFICES ASSUME NEW v \in Writers,
                          pc[v] = "open" \/ (pc[v] = "saving" /\ t \in ToSet(todo[v]))
                   PROVE  pc'[v] = "open" \/ (pc'[v] = "saving" /\ t \in ToSet(todo'[v]))
      BY DEF Awaited
    <3>3. todo'[v] = todo[v] \/ v = w
      BY <1>1
    <3>. QED
      BY <1>1, <2>1, <3>1, <3>2, <3>3
  <2>. HIDE DEF h
  <2>4. \A t \in Sections \ {h} :
          Awaited(t, pc', todo') \/ LastIs(t, heap'[o][t], queue, disk)
    BY <1>1, <2>3 DEF Synced
  <2>. QED
    BY <1>1, <2>1, <2>2, <2>4, SyncedJoins
<1>3. CASE Finish(w)
  <2>1. todo[w] = <<>> /\ queue' = queue
    BY <1>3 DEF Finish
  <2>2. \A t \in Sections : t \notin ToSet(todo[w])
    BY <2>1 DEF ToSet
  <2>3. \A t \in Sections : Awaited(t, pc, todo) => Awaited(t, pc', todo')
    BY <1>1, <2>2 DEF Awaited
  <2>. QED
    BY <1>1, <2>1, <2>3, SyncedStays
<1>. QED
  BY <1>2, <1>3

LEMMA SharedSave ==
  ASSUME Base, Together \/ ByRequest, NEW w \in Writers,
         Capture(w) \/ Resume(w) \/ Finish(w), ~clash'
  PROVE  Together' \/ ByRequest'
<1>. USE WritersOf
<1>0. TypeOK /\ Lines /\ holder \in DOMAIN heap
      /\ \A v \in Writers : obj[v] \in DOMAIN heap
  BY DEF Base, TypeOK
<1>1. CASE Capture(w)
  <2>1. /\ w \notin Requests /\ holder' = holder /\ pc'[w] = "open" /\ obj'[w] = holder
        /\ \A v \in Writers \ {w} : pc'[v] = pc[v] /\ obj'[v] = obj[v]
        /\ Busy \cap Requests = {}
    BY <1>0, <1>1 DEF Capture, TypeOK
  <2>2. Together
    BY <2>1 DEF ByRequest, Busy
  <2>3. \A t \in Sections : Awaited(t, pc', todo')
    BY <2>1 DEF Awaited
  <2>. QED
    BY <2>1, <2>2, <2>3 DEF Together, Synced
<1>2. CASE Together /\ (Resume(w) \/ Finish(w))
  <2>1. w \notin Requests /\ pc[w] = "saving" /\ obj[w] = holder
    BY <1>0, <1>2 DEF Together, Resume, Finish, Lines
  <2>2. /\ holder' = holder /\ obj' = obj /\ \A v \in Writers : pc'[v] # "idle" => pc[v] # "idle"
    BY <1>0, <1>2, <2>1 DEF Resume, Finish, TypeOK
  <2>3. PICK o \in DOMAIN heap : o = obj[w]
    BY <1>0
  <2>4. Synced(o)
    BY <1>2, <2>1, <2>3 DEF Together, Synced
  <2>5. Synced(o)'
    BY <1>0, <1>2, <2>1, <2>3, <2>4, SaveSynced
  <2>. QED
    BY <1>2, <2>1, <2>2, <2>3, <2>5 DEF Together, Synced
<1>3. ASSUME NEW r \in Requests, pc[r] \in {"saving", "done"},
             \A v \in Writers \ {r} : pc[v] = "idle", Synced(obj[r]),
             Resume(w) \/ Finish(w)
      PROVE  ByRequest'
  <2>1. w = r /\ pc[r] = "saving"
    BY <1>3 DEF Resume, Finish
  <2>2. /\ obj' = obj /\ pc'[r] \in {"saving", "done"}
        /\ \A v \in Writers \ {r} : pc'[v] = "idle"
    BY <1>0, <1>3, <2>1 DEF Resume, Finish, TypeOK
  <2>3. PICK o \in DOMAIN heap : o = obj[r]
    BY <1>0
  <2>4. Synced(o)
    BY <1>3, <2>3 DEF Synced
  <2>5. Synced(o)'
    BY <1>0, <1>3, <2>1, <2>3, <2>4, SaveSynced
  <2>. QED
    BY <2>2, <2>3, <2>5 DEF ByRequest, Synced
<1>. QED
  BY <1>1, <1>2, <1>3 DEF ByRequest

LEMMA SharedWrite ==
  ASSUME Base, Together \/ ByRequest, Write
  PROVE  Together' \/ ByRequest'
<1>. USE WritersOf
<1>0. TypeOK /\ holder \in DOMAIN heap /\ \A v \in Writers : obj[v] \in DOMAIN heap
  BY DEF Base, TypeOK
<1>1. UNCHANGED <<heap, holder, pc, obj, todo>>
  BY DEF Write
<1>2. ASSUME NEW o \in DOMAIN heap, Synced(o)
      PROVE  Synced(o)'
  <2>1. \A t \in Sections : heap[o][t] \in 0 .. MaxEdits
    BY <1>0, HeapIn
  <2>. QED
    BY <1>0, <1>1, <1>2, <2>1, LastWritten DEF Synced
<1>3. CASE Together
  <2>1. PICK o \in DOMAIN heap : o = holder
    BY <1>0
  <2>2. Synced(o)'
    BY <1>2, <1>3, <2>1 DEF Together, Synced
  <2>. QED
    BY <1>1, <1>3, <2>1, <2>2 DEF Together, Synced
<1>4. ASSUME NEW r \in Requests, pc[r] \in {"saving", "done"},
             \A v \in Writers \ {r} : pc[v] = "idle", Synced(obj[r])
      PROVE  ByRequest'
  <2>1. PICK o \in DOMAIN heap : o = obj[r]
    BY <1>0
  <2>2. Synced(o)'
    BY <1>2, <1>4, <2>1 DEF Synced
  <2>. QED
    BY <1>1, <1>4, <2>1, <2>2 DEF ByRequest, Synced
<1>. QED
  BY <1>3, <1>4 DEF ByRequest

\* After a start the one object is what the disk has.
LEMMA SharedRestart ==
  ASSUME TypeOK, Restarted
  PROVE  Together'
<1>. USE WritersOf
<1>1. /\ holder' = 1 /\ heap'[1] = disk' /\ DOMAIN queue' = {}
      /\ \A w \in Writers : pc'[w] = "idle" /\ obj'[w] = 1
  BY DEF Restarted
<1>2. \A s \in Sections : LastIs(s, disk'[s], queue', disk')
  BY <1>1 DEF LastIs
<1>. QED
  BY <1>1, <1>2 DEF Together, Synced

LEMMA SharedRequest ==
  ASSUME Base, Together \/ ByRequest, NEW r \in Requests,
         Post(r) \/ Install(r) \/ GiveUp(r), ~clash'
  PROVE  Together' \/ ByRequest'
<1>. USE WritersOf
<1>0. TypeOK /\ Lines /\ Alone /\ holder \in DOMAIN heap
      /\ \A v \in Writers : obj[v] \in DOMAIN heap
  BY DEF Base, TypeOK
<1>1. CASE Post(r)
  <2>1. /\ pc'[r] = "saving" /\ todo'[r] = Order /\ \A v \in Writers \ {r} : pc'[v] = pc[v]
        /\ Busy = {}
    BY <1>0, <1>1 DEF Post, TypeOK
  <2>2. \A v \in Writers \ {r} : pc'[v] = "idle"
    BY <2>1 DEF Busy
  <2>3. \A t \in Sections : Awaited(t, pc', todo')
    BY <2>1 DEF Awaited, Sections
  <2>. QED
    BY <2>1, <2>2, <2>3 DEF ByRequest, Synced
<1>2. CASE Install(r)
  <2>1. /\ pc[r] = "done" /\ pc'[r] = "idle" /\ holder' = obj[r] /\ obj' = obj
        /\ heap' = heap /\ queue' = queue /\ disk' = disk /\ todo' = todo
        /\ \A v \in Writers \ {r} : pc'[v] = pc[v]
    BY <1>0, <1>2 DEF Install, TypeOK
  <2>2. (\A v \in Writers \ {r} : pc[v] = "idle") /\ Synced(obj[r])
    BY <2>1 DEF Together, ByRequest
  <2>3. \A v \in Writers : pc'[v] = "idle"
    BY <2>1, <2>2
  <2>4. \A t \in Sections : Awaited(t, pc, todo) => Awaited(t, pc', todo')
    BY <2>1, <2>2 DEF Awaited
  <2>5. PICK o \in DOMAIN heap : o = obj[r]
    BY <1>0
  <2>6. Synced(o)'
    BY <2>1, <2>2, <2>4, <2>5 DEF Synced
  <2>. QED
    BY <2>1, <2>3, <2>5, <2>6 DEF Together, Synced
<1>3. CASE GiveUp(r)
  BY <1>3 DEF GiveUp
<1>. QED
  BY <1>1, <1>2, <1>3

LEMMA SharedStep == ASSUME Base, Shared, Next PROVE Shared'
<1>. USE WritersOf
<1>0. TypeOK
  BY DEF Base
<1>1. CASE Restarted
  BY <1>0, <1>1, SharedRestart DEF Shared
<1>2. CASE Refuse
  BY <1>2 DEF Refuse, Shared
<1>3. SUFFICES ASSUME ~clash', ~failed', ~Restarted, ~Refuse
               PROVE  Together' \/ ByRequest'
  BY <1>1, <1>2 DEF Shared
<1>4. ASSUME NEW w \in Writers, EditStep(w)
      PROVE  Together'
  <2>1. Together \/ ByRequest
    BY <1>3, <1>4 DEF EditStep, Shared
  <2>2. ~ByRequest
    BY <1>4 DEF EditStep, ByRequest
  <2>. QED
    BY <1>4, <2>1, <2>2, SharedEdit
<1>5. ASSUME NEW w \in Writers, Capture(w) \/ Resume(w) \/ Finish(w)
      PROVE  Together' \/ ByRequest'
  <2>1. Together \/ ByRequest
    BY <1>0, <1>3, <1>5 DEF Capture, Resume, Finish, Shared, TypeOK
  <2>. QED
    BY <1>3, <1>5, <2>1, SharedSave
<1>6. CASE Write
  <2>1. Together \/ ByRequest
    BY <1>3, <1>6 DEF Write, Shared
  <2>. QED
    BY <1>6, <2>1, SharedWrite
<1>7. ASSUME NEW r \in Requests, Post(r) \/ Install(r) \/ GiveUp(r)
      PROVE  Together' \/ ByRequest'
  <2>1. Together \/ ByRequest
    BY <1>0, <1>3, <1>7 DEF Post, Install, GiveUp, Shared, TypeOK
  <2>. QED
    BY <1>3, <1>7, <2>1, SharedRequest
<1>. QED
  BY <1>3, <1>4, <1>5, <1>6, <1>7, NextSteps

-----------------------------------------------------------------------------
(* The invariant *)

IInv == Base /\ Kept /\ Gone /\ Shared

LEMMA InitTyped == ASSUME Init PROVE TypeOK
<1>1. [s \in Sections |-> 0] \in Config /\ 0 \in 0 .. MaxEdits /\ 0 \in 0 .. MaxRestarts
  BY ConfigStoreAssumption DEF Config
<1>2. heap \in Seq(Config) /\ DOMAIN heap = {1}
  BY <1>1 DEF Init
<1>3. queue \in Seq(Rows) /\ <<>> \in Seq(Sections)
  BY DEF Init
<1>4. HeapTyped
  BY <1>2 DEF Init, HeapTyped
<1>5. QueueTyped
  BY <1>1, <1>3 DEF Init, QueueTyped
<1>6. TaskTyped
  BY <1>3 DEF Init, TaskTyped
<1>7. CountTyped /\ PastTyped
  BY <1>1 DEF Init, CountTyped, PastTyped
<1>. QED
  BY <1>4, <1>5, <1>6, <1>7, TypeParts DEF Typed

LEMMA InitInv == ASSUME Init PROVE IInv
<1>. USE WritersOf
<1>0. TypeOK
  BY InitTyped
<1>1. /\ DOMAIN queue = {} /\ DOMAIN heap = {1} /\ holder = 1 /\ edits = 0
      /\ posted = {} /\ refused = {} /\ stored = {0}
      /\ \A w \in Writers : pc[w] = "idle"
      /\ \A s \in Sections : heap[1][s] = 0 /\ disk[s] = 0 /\ acked[s] = 0
  BY DEF Init
<1>2. Lines /\ Alone /\ Mine
  BY <1>1 DEF Lines, Alone, Mine
<1>3. Counted
  BY <1>1 DEF Counted
<1>4. Kept /\ Gone
  BY <1>1 DEF Kept, Gone, Seen
<1>5. \A s \in Sections : LastIs(s, heap[holder][s], queue, disk)
  BY <1>1 DEF LastIs
<1>6. Together
  BY <1>1, <1>5 DEF Together, Synced
<1>. QED
  BY <1>0, <1>2, <1>3, <1>4, <1>6 DEF IInv, Base, Shared

LEMMA KeptStep == ASSUME Base, Kept, Next PROVE Kept'
BY KeptEdit, KeptSave, KeptWrite, KeptRestart, KeptRequest, NextSteps

LEMMA SameInv == ASSUME IInv, UNCHANGED vars PROVE IInv'
<1>. USE DEF vars, historyVars
<1>1. TypeOK'
  BY DEF IInv, Base, TypeOK
<1>2. Lines' /\ Alone'
  BY DEF IInv, Base, Lines, Alone
<1>3. Counted'
  BY DEF IInv, Base, Counted
<1>4. Mine'
  <2>1. \A r \in Requests : Own(r)' = Own(r)
    BY DEF Own
  <2>. QED
    BY <2>1 DEF IInv, Base, Mine
<1>5. Kept' /\ Gone'
  BY DEF IInv, Kept, Seen, Pending, Gone
<1>6. Shared'
  BY DEF IInv, Shared, Together, ByRequest, Synced
<1>. QED
  BY <1>1, <1>2, <1>3, <1>4, <1>5, <1>6 DEF IInv, Base

\* The invariant is inductive: the order of the saves, the numbers and objects of
\* the requests, and what each save has still to write (config.py:522, main.py:499).
THEOREM InductiveInvariant == Safety => []IInv
<1>1. Init => IInv
  BY InitInv
<1>2. IInv /\ [Next]_vars => IInv'
  BY BaseStep, KeptStep, GoneStep, SharedStep, SameInv DEF IInv
<1>. QED
  BY <1>1, <1>2, PTL DEF Safety

\* Every object, row and number is of its type, whoever edits and saves.
THEOREM TypeCorrect == Safety => []TypeOK
<1>1. IInv => TypeOK
  BY DEF IInv, Base
<1>. QED
  BY <1>1, InductiveInvariant, PTL

\* config.py:522, db.py:191: handlings and the menu save one object at the same
\* time, section by section; still, with no request that overlaps and no write that
\* fails, disk and memory agree when the last of them is done.
THEOREM SavesAgree == Safety => []SharedSavesAgree
<1>1. ASSUME IInv PROVE SharedSavesAgree
  <2>1. SUFFICES ASSUME Busy = {}, ~clash, ~failed
                 PROVE  disk = heap[holder]
    BY DEF SharedSavesAgree
  <2>2. TypeOK /\ Lines /\ Shared /\ \A w \in Writers : pc[w] = "idle"
    BY <1>1, <2>1 DEF IInv, Base, Busy
  <2>3. DOMAIN queue = {}
    BY <2>2, RowsIn DEF Lines
  <2>4. Synced(holder)
    BY <2>1, <2>2, WritersOf DEF Shared, Together, ByRequest
  <2>5. \A s \in Sections : disk[s] = heap[holder][s]
    BY <2>2, <2>3, <2>4 DEF Synced, Awaited, LastIs
  <2>6. heap \in Seq(Config) /\ holder \in DOMAIN heap /\ disk \in Config
    BY <2>2 DEF TypeOK, Config
  <2>7. holder \in 1 .. Len(heap)
    BY <2>6, LenProperties
  <2>8. heap[holder] \in Config
    BY <2>6, <2>7, ElementOfSeq
  <2>. QED
    BY <2>5, <2>6, <2>8 DEF Config
<1>. QED
  BY <1>1, InductiveInvariant, PTL

\* main.py:521-524: what the dashboard changed is live, and confirmed, only after
\* its row was written, whoever else saves, fails or ends meanwhile.
THEOREM EditsStored == Safety => []DashboardEditsStored
<1>1. IInv => DashboardEditsStored
  BY DEF IInv, Kept, Seen, DashboardEditsStored
<1>. QED
  BY <1>1, InductiveInvariant, PTL

\* main.py:511: what a request was refused for, or gave up on, never gets into the
\* live configuration, although its save may go on.
THEOREM RefusedStaysOut == Safety => []FailureLeavesMemory
<1>1. IInv => FailureLeavesMemory
  BY DEF IInv, Gone, FailureLeavesMemory
<1>. QED
  BY <1>1, InductiveInvariant, PTL

=============================================================================
