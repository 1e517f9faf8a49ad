----------------------------- MODULE AtomicQueue -----------------------------
(***************************************************************************)
(* mpmc_rs::v4::queue, the queue behind the exported channel: a Vec of     *)
(* slots (each a Mutex<Option<T>> and a Condvar) addressed by two          *)
(* fetch_add tickets, `start` for pops and `end` for pushes, and doubled   *)
(* when a push finds its slot occupied.                                    *)
(*                                                                         *)
(* A handle (ReaderAccessHandle, WriterAccessHandle) is used by one thread *)
(* at a time, so a handle names its thread.  One step of the model is one  *)
(* atomic operation of the code: an atomic load, store or CAS, a critical  *)
(* section of a slot or of a handle map, a notification.  A critical       *)
(* section that reads shared state in its middle (the closing check made   *)
(* under the slot lock) is several steps.                                  *)
(*                                                                         *)
(* Bounds: no resize begins once the Vec has MaxCap slots, MaxPush[w]      *)
(* pushes of writer w, MaxClosed calls per reader that return NoWriters,   *)
(* and no call of pop begins once MaxReceived values were popped.          *)
(*                                                                         *)
(* A definition whose name begins with Bug is a variant of the one that    *)
(* follows it, with a mistake that the properties have to notice.          *)
(***************************************************************************)
EXTENDS Integers, FiniteSets

CONSTANTS
  Readers,        \* reader handles that may exist
  Writers,        \* writer handles that may exist
  FirstReaders,   \* the reader handles made before any operation starts
  FirstWriters,   \* the writer handles made before any operation starts
  Cap,            \* with_capacity(Cap)
  MaxCap,
  MaxPush,
  MaxClosed,
  MaxReceived,
  NoVal           \* None, the content of an empty slot

Handles == Readers \cup Writers
Values == UNION {{<<w, n>> : n \in 1..MaxPush[w]} : w \in Writers}

ASSUME AQAssumption ==
  /\ Readers \cap Writers = {}
  /\ FirstReaders \subseteq Readers
  /\ FirstWriters \subseteq Writers
  /\ IsFiniteSet(Handles)
  /\ Cap \in Nat \ {0}
  /\ MaxPush \in [Writers -> Nat]
  /\ MaxCap \in Nat /\ MaxClosed \in Nat /\ MaxReceived \in Nat
  /\ NoVal \notin Values

VARIABLES
  buf, cap,               \* the Vec: its slots and its length
  start, end, len,        \* AtomicIsize
  status,                 \* AccessTracker.status
  action,                 \* AccessDescriptor.action of every handle
  readers, writers,       \* the keys of the two handle maps
  nReaders, nWriters,     \* AccessTracker.n_readers, n_writers
  pc,
  idx,                    \* the slot index a thread works on
  seen,                   \* the buffer (named by its length) idx was computed for
  span,                   \* wake_all_readers: tickets left to notify
  old,                    \* request_resize_block: old_action
  todo, cur, ex, saved,   \* exclusive: handles left, current one, ex_action, old actions
  sent, received, closed  \* pushes begun, values popped, NoWriters results

queueVars == <<buf, cap, start, end, len>>
mapVars   == <<readers, writers, nReaders, nWriters>>
posVars   == <<idx, seen, span>>
scanVars  == <<todo, cur, ex, saved>>
histVars  == <<sent, received, closed>>
otherVars == <<queueVars, status, action, mapVars, posVars, old, scanVars, histVars>>
vars == <<pc, otherVars>>

Actions == {"Idle", "Reading", "Writing", "ResizeRequested", "ExternallyBlocked"}
Statuses == {"Active", "WaitingToResize"}
NoAction == "NoAction"

\* Where a thread stands between calls and in handle creation and removal.
HandlePCs == {"none", "born", "idle", "clone", "enter", "remove", "gone"}
ReaderPCs == HandlePCs \cup
  {"claim", "lock", "check", "sleep", "wait", "notify", "count", "leave"}
RequestPCs == {"load", "mark", "status", "cas", "await", "return", "await2", "retry"}
ScanPCs == {"scan", "realloc", "restore", "activate", "unlock"}
ResizerPCs == {"lockr", "lockw", "unlockr"} \cup ScanPCs
WakePCs == {"wenter", "wstart", "wcount", "wwake", "wfree"}
WriterPCs == HandlePCs \cup RequestPCs \cup ResizerPCs \cup WakePCs \cup
  {"claim", "ticket", "put", "notify", "free", "count", "panic"}

Slots == 0..(cap - 1)
Value(w) == <<w, sent[w]>>

\* A slot's mutex is held across a step only by a pop that found it empty.
SlotLocked(i) == \E r \in Readers : pc[r] \in {"check", "sleep"} /\ idx[r] = i
\* The mutexes of the two handle maps are held across steps only by a resizer.
BugReadersLocked == FALSE
ReadersLocked == \E w \in Writers : pc[w] \in {"lockw", "unlockr"} \cup ScanPCs
WritersLocked == \E w \in Writers : pc[w] \in ScanPCs

Goto(h, to) == pc' = [pc EXCEPT ![h] = to]
SetAction(h, a) == action' = [action EXCEPT ![h] = a]

\* compare_exchange of the action flag of h; only its success is a step, the
\* loops around it spin on a failure.
CasAction(h, from, to) == action[h] = from /\ SetAction(h, to)

\* Condvar: the threads asleep on a slot, and the two notifications.
Sleepers(S) == {r \in Readers : pc[r] = "wait" /\ idx[r] \in S}
GotoAndWake(h, to, S) ==
  pc' = [g \in Handles |-> IF g = h THEN to ELSE IF g \in S THEN "lock" ELSE pc[g]]
BugNotifyOne(h, to, i) == Goto(h, to)
NotifyOne(h, to, i) ==
  \/ Sleepers({i}) = {} /\ Goto(h, to)
  \/ \E r \in Sleepers({i}) : GotoAndWake(h, to, {r})

-----------------------------------------------------------------------------
(* Handles: AtomicQueue::reader and ::writer as called by the Clone of a   *)
(* Receiver or Sender, and the Drop of the access handles.                 *)

CloneReader(r, c) ==
  /\ pc[r] = "idle" /\ pc[c] = "none"
  /\ ~ReadersLocked
  /\ readers' = readers \cup {c}
  /\ pc' = [pc EXCEPT ![r] = "clone", ![c] = "born"]
  /\ UNCHANGED <<queueVars, status, action, writers, nReaders, nWriters,
                 posVars, old, scanVars, histVars>>

CountReader(r, c) ==
  /\ pc[r] = "clone" /\ pc[c] = "born"
  /\ nReaders' = nReaders + 1
  /\ pc' = [pc EXCEPT ![r] = "idle", ![c] = "idle"]
  /\ UNCHANGED <<queueVars, status, action, readers, writers, nWriters,
                 posVars, old, scanVars, histVars>>

CloneWriter(w, c) ==
  /\ pc[w] = "idle" /\ pc[c] = "none"
  /\ ~WritersLocked
  /\ writers' = writers \cup {c}
  /\ pc' = [pc EXCEPT ![w] = "clone", ![c] = "born"]
  /\ UNCHANGED <<queueVars, status, action, readers, nReaders, nWriters,
                 posVars, old, scanVars, histVars>>

CountWriter(w, c) ==
  /\ pc[w] = "clone" /\ pc[c] = "born"
  /\ nWriters' = nWriters + 1
  /\ pc' = [pc EXCEPT ![w] = "idle", ![c] = "idle"]
  /\ UNCHANGED <<queueVars, status, action, readers, writers, nReaders,
                 posVars, old, scanVars, histVars>>

DropReader(r) ==
  /\ pc[r] = "idle"
  /\ nReaders' = nReaders - 1
  /\ Goto(r, "remove")
  /\ UNCHANGED <<queueVars, status, action, readers, writers, nWriters,
                 posVars, old, scanVars, histVars>>

RemoveReader(r) ==
  /\ pc[r] = "remove"
  /\ ~ReadersLocked
  /\ readers' = readers \ {r}
  /\ Goto(r, "gone")
  /\ UNCHANGED <<queueVars, status, action, writers, nReaders, nWriters,
                 posVars, old, scanVars, histVars>>

\* A panicking thread unwinds through the same Drop.
DropWriter(w) ==
  /\ pc[w] \in {"idle", "panic"}
  /\ nWriters' = nWriters - 1
  /\ Goto(w, "remove")
  /\ UNCHANGED <<queueVars, status, action, readers, writers, nReaders,
                 posVars, old, scanVars, histVars>>

RemoveWriter(w) ==
  /\ pc[w] = "remove"
  /\ ~WritersLocked
  /\ writers' = writers \ {w}
  /\ Goto(w, "wenter")
  /\ UNCHANGED <<queueVars, status, action, readers, nReaders, nWriters,
                 posVars, old, scanVars, histVars>>

\* wake_all_readers waits for its flag.  Only a writer that panicked comes here with
\* Writing in it, and unreachable! in a thread that unwinds aborts the process.
EnterWake(w) ==
  /\ pc[w] = "wenter"
  /\ CasAction(w, "Idle", "Writing")
  /\ Goto(w, "wstart")
  /\ UNCHANGED <<queueVars, status, mapVars, posVars, old, scanVars, histVars>>

LoadStart(w) ==
  /\ pc[w] = "wstart"
  /\ idx' = [idx EXCEPT ![w] = start]
  /\ Goto(w, "wcount")
  /\ UNCHANGED <<queueVars, status, action, mapVars, seen, span, old, scanVars,
                 histVars>>

\* The tickets from start - n_readers to start; idx holds the next one.
LoadReaders(w) ==
  /\ pc[w] = "wcount"
  /\ idx' = [idx EXCEPT ![w] = @ - nReaders]
  /\ span' = [span EXCEPT ![w] = nReaders + 1]
  /\ seen' = [seen EXCEPT ![w] = cap]
  /\ Goto(w, "wwake")
  /\ UNCHANGED <<queueVars, status, action, mapVars, old, scanVars, histVars>>

\* The thread's reference points into a Vec that was freed since.
Stale(h) == seen[h] # cap

\* The writer left the map before it came here, so a resize does not wait for
\* it; what it notifies in a freed Vec is undefined.
WakeSlot(w) ==
  /\ pc[w] = "wwake"
  /\ LET to == IF span[w] = 1 THEN "wfree" ELSE "wwake" IN
       \/ GotoAndWake(w, to, Sleepers({idx[w] % cap}))
       \/ Stale(w) /\ Goto(w, to)
  /\ idx' = [idx EXCEPT ![w] = @ + 1]
  /\ span' = [span EXCEPT ![w] = @ - 1]
  /\ UNCHANGED <<queueVars, status, action, mapVars, seen, old, scanVars, histVars>>

LeaveWake(w) ==
  /\ pc[w] = "wfree"
  /\ SetAction(w, "Idle")
  /\ Goto(w, "gone")
  /\ UNCHANGED <<queueVars, status, mapVars, posVars, old, scanVars, histVars>>

-----------------------------------------------------------------------------
(* ReaderAccessHandle::pop_front_wait.                                     *)

PopFront(r) ==
  /\ pc[r] = "idle"
  /\ closed[r] < MaxClosed /\ Cardinality(received) < MaxReceived
  /\ Goto(r, "enter")
  /\ UNCHANGED otherVars

BugEnterRead(r) ==
  /\ pc[r] = "enter"
  /\ SetAction(r, "Reading")
  /\ Goto(r, "claim")
  /\ UNCHANGED <<queueVars, status, mapVars, posVars, old, scanVars, histVars>>
EnterRead(r) ==
  /\ pc[r] = "enter"
  /\ CasAction(r, "Idle", "Reading")
  /\ Goto(r, "claim")
  /\ UNCHANGED <<queueVars, status, mapVars, posVars, old, scanVars, histVars>>

BugClaimStart(r) ==
  /\ pc[r] = "claim"
  /\ idx' = [idx EXCEPT ![r] = start % cap]
  /\ seen' = [seen EXCEPT ![r] = cap]
  /\ Goto(r, "lock")
  /\ UNCHANGED <<queueVars, status, action, mapVars, span, old, scanVars, histVars>>
ClaimStart(r) ==
  /\ pc[r] = "claim"
  /\ idx' = [idx EXCEPT ![r] = start % cap]
  /\ seen' = [seen EXCEPT ![r] = cap]
  /\ start' = start + 1
  /\ Goto(r, "lock")
  /\ UNCHANGED <<buf, cap, end, len, status, action, mapVars, span, old, scanVars,
                 histVars>>

FindEmpty(r) ==
  /\ pc[r] = "lock"
  /\ ~SlotLocked(idx[r])
  /\ buf[idx[r]] = NoVal
  /\ Goto(r, "check")
  /\ UNCHANGED otherVars

Take(r) ==
  /\ pc[r] = "lock"
  /\ ~SlotLocked(idx[r])
  /\ buf[idx[r]] # NoVal
  /\ buf' = [buf EXCEPT ![idx[r]] = NoVal]
  /\ received' = received \cup {buf[idx[r]]}
  /\ Goto(r, "notify")
  /\ UNCHANGED <<cap, start, end, len, status, action, mapVars, posVars, old,
                 scanVars, sent, closed>>

\* The check that recv passes down.
BugHasWriters == nWriters > 1
HasWriters == nWriters > 0

WritersRemain(r) ==
  /\ pc[r] = "check"
  /\ HasWriters
  /\ Goto(r, "sleep")
  /\ UNCHANGED otherVars

FindClosed(r) ==
  /\ pc[r] = "check"
  /\ ~HasWriters
  /\ closed' = [closed EXCEPT ![r] = @ + 1]
  /\ Goto(r, "leave")
  /\ UNCHANGED <<queueVars, status, action, mapVars, posVars, old, scanVars,
                 sent, received>>

\* Condvar::wait releases the slot's mutex and sleeps in one step ...
Sleep(r) ==
  /\ pc[r] = "sleep"
  /\ Goto(r, "wait")
  /\ UNCHANGED otherVars

\* ... and may return without a notification.
SpuriousWake(r) ==
  /\ pc[r] = "wait"
  /\ Goto(r, "lock")
  /\ UNCHANGED otherVars

NotifyTaken(r) ==
  /\ pc[r] = "notify"
  /\ NotifyOne(r, "count", idx[r])
  /\ UNCHANGED otherVars

CountTaken(r) ==
  /\ pc[r] = "count"
  /\ len' = len - 1
  /\ Goto(r, "leave")
  /\ UNCHANGED <<buf, cap, start, end, status, action, mapVars, posVars, old,
                 scanVars, histVars>>

LeaveRead(r) ==
  /\ pc[r] = "leave"
  /\ CasAction(r, "Reading", "Idle")
  /\ Goto(r, "idle")
  /\ UNCHANGED <<queueVars, status, mapVars, posVars, old, scanVars, histVars>>

-----------------------------------------------------------------------------
(* WriterAccessHandle::push.                                               *)

Push(w) ==
  /\ pc[w] = "idle"
  /\ sent[w] < MaxPush[w]
  /\ sent' = [sent EXCEPT ![w] = @ + 1]
  /\ Goto(w, "enter")
  /\ UNCHANGED <<queueVars, status, action, mapVars, posVars, old, scanVars,
                 received, closed>>

BugEnterWrite(w) ==
  /\ pc[w] = "enter"
  /\ SetAction(w, "Writing")
  /\ Goto(w, "claim")
  /\ UNCHANGED <<queueVars, status, mapVars, posVars, old, scanVars, histVars>>
EnterWrite(w) ==
  /\ pc[w] = "enter"
  /\ CasAction(w, "Idle", "Writing")
  /\ Goto(w, "claim")
  /\ UNCHANGED <<queueVars, status, mapVars, posVars, old, scanVars, histVars>>

\* unreachable!("unexpected action flag for writer")
PanicEnter(w) ==
  /\ pc[w] = "enter"
  /\ action[w] \notin {"Idle", "ExternallyBlocked"}
  /\ Goto(w, "panic")
  /\ UNCHANGED otherVars

LoadLen(w) ==
  /\ pc[w] = "claim"
  /\ seen' = [seen EXCEPT ![w] = cap]
  /\ Goto(w, "ticket")
  /\ UNCHANGED <<queueVars, status, action, mapVars, idx, span, old, scanVars, histVars>>

\* add_fetch for fetch_add.
BugClaimEnd(w) ==
  /\ pc[w] = "ticket"
  /\ idx' = [idx EXCEPT ![w] = (end + 1) % seen[w]]
  /\ end' = end + 1
  /\ Goto(w, "put")
  /\ UNCHANGED <<buf, cap, start, len, status, action, mapVars, seen, span, old,
                 scanVars, histVars>>
ClaimEnd(w) ==
  /\ pc[w] = "ticket"
  /\ idx' = [idx EXCEPT ![w] = end % seen[w]]
  /\ end' = end + 1
  /\ Goto(w, "put")
  /\ UNCHANGED <<buf, cap, start, len, status, action, mapVars, seen, span, old,
                 scanVars, histVars>>

\* buf[end] is a slot of the Vec that is there when it is indexed, perhaps a longer
\* one than len was read of.
BugPutValue(w) ==
  /\ pc[w] = "put"
  /\ ~SlotLocked(idx[w])
  /\ buf' = [buf EXCEPT ![idx[w]] = Value(w)]
  /\ seen' = [seen EXCEPT ![w] = cap]
  /\ Goto(w, "notify")
  /\ UNCHANGED <<cap, start, end, len, status, action, mapVars, idx, span, old,
                 scanVars, histVars>>
PutValue(w) ==
  /\ pc[w] = "put"
  /\ ~SlotLocked(idx[w])
  /\ buf[idx[w]] = NoVal
  /\ buf' = [buf EXCEPT ![idx[w]] = Value(w)]
  /\ seen' = [seen EXCEPT ![w] = cap]
  /\ Goto(w, "notify")
  /\ UNCHANGED <<cap, start, end, len, status, action, mapVars, idx, span, old,
                 scanVars, histVars>>

FindFull(w) ==
  /\ pc[w] = "put"
  /\ ~SlotLocked(idx[w])
  /\ buf[idx[w]] # NoVal
  /\ Goto(w, "load")
  /\ UNCHANGED otherVars

\* It was indexed before the Vec was replaced.  Undefined behaviour: whatever the
\* freed slot seems to hold, the value written there is in no slot of the queue.
PutStale(w) ==
  /\ pc[w] = "put" /\ Stale(w)
  /\ \E to \in {"notify", "load"} : Goto(w, to)
  /\ UNCHANGED otherVars

NotifyPut(w) ==
  /\ pc[w] = "notify"
  /\ IF Stale(w) THEN Goto(w, "free") ELSE NotifyOne(w, "free", idx[w])
  /\ UNCHANGED otherVars

BugFreeWriter(w) ==
  /\ pc[w] = "free"
  /\ Goto(w, "count")
  /\ UNCHANGED otherVars
FreeWriter(w) ==
  /\ pc[w] = "free"
  /\ SetAction(w, "Idle")
  /\ Goto(w, "count")
  /\ UNCHANGED <<queueVars, status, mapVars, posVars, old, scanVars, histVars>>

CountPut(w) ==
  /\ pc[w] = "count"
  /\ len' = len + 1
  /\ Goto(w, "idle")
  /\ UNCHANGED <<buf, cap, start, end, status, action, mapVars, posVars, old,
                 scanVars, histVars>>

-----------------------------------------------------------------------------
(* WriterAccessHandle::request_resize_block and wait_for_ongoing_resize.   *)

LoadAction(w) ==
  /\ pc[w] = "load"
  /\ old' = [old EXCEPT ![w] = action[w]]
  /\ Goto(w, "mark")
  /\ UNCHANGED <<queueVars, status, action, mapVars, posVars, scanVars, histVars>>

MarkRequest(w) ==
  /\ pc[w] = "mark"
  /\ SetAction(w, "ResizeRequested")
  /\ Goto(w, "status")
  /\ UNCHANGED <<queueVars, status, mapVars, posVars, old, scanVars, histVars>>

LoadStatus(w) ==
  /\ pc[w] = "status"
  /\ Goto(w, IF status = "WaitingToResize" THEN "await" ELSE "cas")
  /\ UNCHANGED otherVars

BugWinStatus(w) ==
  /\ pc[w] = "cas"
  /\ cap < MaxCap
  /\ status' = "WaitingToResize"
  /\ Goto(w, "lockr")
  /\ UNCHANGED <<queueVars, action, mapVars, posVars, old, scanVars, histVars>>
WinStatus(w) ==
  /\ pc[w] = "cas"
  /\ status = "Active" /\ cap < MaxCap
  /\ status' = "WaitingToResize"
  /\ Goto(w, "lockr")
  /\ UNCHANGED <<queueVars, action, mapVars, posVars, old, scanVars, histVars>>

LoseStatus(w) ==
  /\ pc[w] = "cas"
  /\ status = "WaitingToResize"
  /\ Goto(w, "await2")
  /\ UNCHANGED otherVars

SeeActive(w) ==
  /\ pc[w] \in {"await", "await2"}
  /\ status = "Active"
  /\ Goto(w, IF pc[w] = "await" THEN "return" ELSE "retry")
  /\ UNCHANGED otherVars

\* After the early return the push starts over; after a lost compare_exchange
\* the loop tries the compare_exchange again.
RestoreAction(w) ==
  /\ pc[w] \in {"return", "retry"}
  /\ SetAction(w, old[w])
  /\ Goto(w, IF pc[w] = "return" THEN "claim" ELSE "cas")
  /\ UNCHANGED <<queueVars, status, mapVars, posVars, old, scanVars, histVars>>

-----------------------------------------------------------------------------
(* WriterAccessHandle::exclusive and ExclusiveGuard.                       *)

LockReaders(w) ==
  /\ pc[w] = "lockr"
  /\ ~ReadersLocked
  /\ Goto(w, "lockw")
  /\ UNCHANGED otherVars

\* Both loops of exclusive, the readers before the writers, each map in some
\* order.
BugScanned == writers
Scanned == readers \cup writers
First(S) == IF S \cap Readers # {} THEN S \cap Readers ELSE S

Visit(w, S) ==
  /\ todo' = [todo EXCEPT ![w] = S]
  /\ ex' = [ex EXCEPT ![w] = "Idle"]
  /\ IF S = {}
     THEN Goto(w, "realloc") /\ UNCHANGED cur
     ELSE /\ Goto(w, "scan")
          /\ \E h \in First(S) : cur' = [cur EXCEPT ![w] = h]

LockWriters(w) ==
  /\ pc[w] = "lockw"
  /\ ~WritersLocked
  /\ Visit(w, Scanned)
  /\ UNCHANGED <<queueVars, status, action, mapVars, posVars, old, saved, histVars>>

BlockHandle(w) ==
  /\ pc[w] = "scan"
  /\ CasAction(cur[w], ex[w], "ExternallyBlocked")
  /\ saved' = [saved EXCEPT ![w][cur[w]] = ex[w]]
  /\ Visit(w, todo[w] \ {cur[w]})
  /\ UNCHANGED <<queueVars, status, mapVars, posVars, old, histVars>>

\* ex_action turns to ResizeRequested and not back while the loop spins on this
\* handle; Idle, Reading and Writing are only waited out.
BugNoticeRequest(w) == FALSE
NoticeRequest(w) ==
  /\ pc[w] = "scan"
  /\ action[cur[w]] = "ResizeRequested" /\ ex[w] # "ResizeRequested"
  /\ ex' = [ex EXCEPT ![w] = "ResizeRequested"]
  /\ UNCHANGED <<queueVars, status, action, mapVars, pc, posVars, old, todo,
                 cur, saved, histVars>>

\* unreachable!("someone else has blocked this ..."): the unwinding drops both
\* guards and leaves the status and the flags of the handles as they are.
PanicScan(w) ==
  /\ pc[w] = "scan"
  /\ action[cur[w]] = "ExternallyBlocked"
  /\ todo' = [todo EXCEPT ![w] = {}]
  /\ saved' = [saved EXCEPT ![w] = [h \in Handles |-> NoAction]]
  /\ Goto(w, "panic")
  /\ UNCHANGED <<queueVars, status, action, mapVars, posVars, old, cur, ex,
                 histVars>>

\* AtomicQueue::reallocate: the slots s..=e, or s..n then 0..=e, move to the
\* front of a Vec of length c; the other slots are dropped with the old Vec.
BugKept(s, e, n) == IF s > e THEN n - s + e + 2 ELSE e - s + 1
Kept(s, e, n) == IF s > e THEN n - s + e + 1 ELSE e - s + 1
BugReallocated(b, s, e, n, c) ==
  [i \in 0..(n - 1) |->
     IF i >= Kept(s, e, n) THEN NoVal
     ELSE IF s + i < n THEN b[s + i] ELSE b[s + i - n]]
Reallocated(b, s, e, n, c) ==
  [i \in 0..(c - 1) |->
     IF i >= Kept(s, e, n) THEN NoVal
     ELSE IF s + i < n THEN b[s + i] ELSE b[s + i - n]]

Reallocate(w) ==
  /\ pc[w] = "realloc"
  /\ buf' = Reallocated(buf, start % cap, end % cap, cap, 2 * cap)
  /\ cap' = 2 * cap
  /\ todo' = [todo EXCEPT ![w] = {h \in Handles : saved[w][h] # NoAction}]
  /\ Goto(w, "restore")
  /\ UNCHANGED <<start, end, len, status, action, mapVars, posVars, old, cur,
                 ex, saved, histVars>>

RestoreHandle(w) ==
  /\ pc[w] = "restore"
  /\ \E h \in First(todo[w]) :
       /\ SetAction(h, saved[w][h])
       /\ todo' = [todo EXCEPT ![w] = @ \ {h}]
       /\ saved' = [saved EXCEPT ![w][h] = NoAction]
       /\ Goto(w, IF todo[w] = {h} THEN "activate" ELSE "restore")
  /\ UNCHANGED <<queueVars, status, mapVars, posVars, old, cur, ex, histVars>>

Activate(w) ==
  /\ pc[w] = "activate"
  /\ status' = "Active"
  /\ Goto(w, "unlock")
  /\ UNCHANGED <<queueVars, action, mapVars, posVars, old, scanVars, histVars>>

\* The guard's fields drop, the writers' map first; then the push starts over.
UnlockWriters(w) ==
  /\ pc[w] = "unlock"
  /\ Goto(w, "unlockr")
  /\ UNCHANGED otherVars

UnlockReaders(w) ==
  /\ pc[w] = "unlockr"
  /\ Goto(w, "claim")
  /\ UNCHANGED otherVars
Unlock(w) == UnlockWriters(w) \/ UnlockReaders(w)

-----------------------------------------------------------------------------
InitQueue ==
  /\ cap = Cap
  /\ status = "Active"
  /\ action = [h \in Handles |-> "Idle"]
  /\ idx = [h \in Handles |-> 0]
  /\ seen = [h \in Handles |-> Cap]
  /\ span = [w \in Writers |-> 0]
  /\ old = [w \in Writers |-> "Idle"]
  /\ todo = [w \in Writers |-> {}]
  /\ cur = [w \in Writers |-> w]
  /\ ex = [w \in Writers |-> "Idle"]
  /\ saved = [w \in Writers |-> [h \in Handles |-> NoAction]]
  /\ closed = [r \in Readers |-> 0]

Init ==
  /\ InitQueue
  /\ buf = [i \in 0..(Cap - 1) |-> NoVal]
  /\ start = 0 /\ end = 0 /\ len = 0
  /\ sent = [w \in Writers |-> 0] /\ received = {}
  /\ readers = FirstReaders /\ writers = FirstWriters
  /\ nReaders = Cardinality(FirstReaders) /\ nWriters = Cardinality(FirstWriters)
  /\ pc = [h \in Handles |-> IF h \in FirstReaders \cup FirstWriters THEN "idle" ELSE "none"]

PopStep(r) ==
  \/ EnterRead(r) \/ ClaimStart(r) \/ FindEmpty(r) \/ Take(r) \/ WritersRemain(r)
  \/ FindClosed(r) \/ Sleep(r) \/ NotifyTaken(r) \/ CountTaken(r) \/ LeaveRead(r)

PushStep(w) ==
  \/ EnterWrite(w) \/ PanicEnter(w) \/ LoadLen(w) \/ ClaimEnd(w) \/ PutValue(w)
  \/ FindFull(w) \/ PutStale(w) \/ NotifyPut(w) \/ FreeWriter(w) \/ CountPut(w)

ResizeStep(w) ==
  \/ LoadAction(w) \/ MarkRequest(w) \/ LoadStatus(w) \/ WinStatus(w) \/ LoseStatus(w)
  \/ SeeActive(w) \/ RestoreAction(w)
  \/ LockReaders(w) \/ LockWriters(w) \/ BlockHandle(w) \/ NoticeRequest(w) \/ PanicScan(w)
  \/ Reallocate(w) \/ RestoreHandle(w) \/ Activate(w) \/ Unlock(w)

DropStep(w) ==
  \/ RemoveWriter(w) \/ EnterWake(w) \/ LoadStart(w) \/ LoadReaders(w) \/ WakeSlot(w)
  \/ LeaveWake(w)

\* What a client may do next; nothing obliges it to.
ReaderClient(r) ==
  PopFront(r) \/ DropReader(r) \/ \E c \in Readers : CloneReader(r, c)
WriterClient(w) ==
  Push(w) \/ DropWriter(w) \/ \E c \in Writers : CloneWriter(w, c)

ReaderStep(r) == PopStep(r) \/ RemoveReader(r) \/ \E c \in Readers : CountReader(r, c)
WriterStep(w) ==
  PushStep(w) \/ ResizeStep(w) \/ DropStep(w) \/ \E c \in Writers : CountWriter(w, c)

Next ==
  \/ \E r \in Readers : ReaderClient(r) \/ ReaderStep(r) \/ SpuriousWake(r)
  \/ \E w \in Writers : WriterClient(w) \/ WriterStep(w)

Spec == Init /\ [][Next]_vars

\* A thread that can take a step of the code takes one, and a mutex that is
\* released again and again is acquired in the end.  No client is obliged to
\* call, and no condition variable to wake up spuriously; a panic unwinds.
Fairness ==
  /\ \A r \in Readers : WF_vars(ReaderStep(r)) /\ SF_vars(FindEmpty(r) \/ Take(r))
  /\ \A w \in Writers : /\ WF_vars(WriterStep(w) \/ (pc[w] = "panic" /\ DropWriter(w)))
                        /\ SF_vars(PutValue(w) \/ FindFull(w))
FairSpec == Spec /\ Fairness

-----------------------------------------------------------------------------
(* Properties.                                                             *)

DataTypeOK ==
  /\ buf \in [Slots -> Values \cup {NoVal}]
  /\ sent \in [Writers -> Nat] /\ \A w \in Writers : sent[w] <= MaxPush[w]
  /\ received \subseteq Values
PCTypeOK ==
  /\ pc \in [Handles -> ReaderPCs \cup WriterPCs]
  /\ \A r \in Readers : pc[r] \in ReaderPCs
  /\ \A w \in Writers : pc[w] \in WriterPCs
ControlTypeOK ==
  /\ cap \in Nat \ {0} /\ start \in Nat /\ end \in Nat /\ len \in Int
  /\ status \in Statuses
  /\ action \in [Handles -> Actions]
  /\ readers \subseteq Readers /\ writers \subseteq Writers
  /\ nReaders \in Int /\ nWriters \in Int
  /\ idx \in [Handles -> Int] /\ seen \in [Handles -> Nat \ {0}]
  /\ span \in [Writers -> Int]
  /\ old \in [Writers -> Actions]
  /\ todo \in [Writers -> SUBSET Handles]
  /\ cur \in [Writers -> Handles]
  /\ ex \in [Writers -> Actions]
  /\ saved \in [Writers -> [Handles -> Actions \cup {NoAction}]]
  /\ closed \in [Readers -> Nat]

\* Every variable has its type: no slot is read outside the Vec, and what is
\* popped is a value that was pushed.
TypeOK == DataTypeOK /\ PCTypeOK /\ ControlTypeOK

\* Where a pop uses the slot of its ticket.
SlotPCs == {"lock", "check", "sleep", "wait", "notify"}

\* Threads that hold, or are about to take, a reference into the Vec.
InsideReader(r) == pc[r] \in {"claim"} \cup SlotPCs
Pushing(w) == pc[w] \in {"claim", "ticket", "put", "notify"}
Reallocating == \E w \in Writers : pc[w] = "realloc"

\* No reader is in the queue while a writer replaces the Vec: the readers'
\* half of what the comment of Status::WaitingToResize promises.
ReaderExclusion == Reallocating => \A r \in Readers : ~InsideReader(r)

\* A pop works in one Vec from its ticket to its last use of the slot, so the
\* slot it sleeps on is never freed under it.
ReaderInCurrentVec ==
  \A r \in Readers : pc[r] \in SlotPCs => ~Stale(r)

\* "All readers and writers have acknowledged the request to get exclusive access
\* and are waiting for the queue to be released" (exclusive): while the Vec is
\* replaced no pop and no push has a reference into it.
ExclusiveResize ==
  Reallocating => (\A r \in Readers : ~InsideReader(r)) /\ \A w \in Writers : ~Pushing(w)

\* The first resize keeps that, however many writers there are.
FirstResizeExclusive == cap = Cap => ExclusiveResize

\* The compare_exchange on the status elects at most one resizer at a time.
OneResizer ==
  \A v, w \in Writers : {pc[v], pc[w]} \subseteq ResizerPCs \ {"unlock", "unlockr"} => v = w

\* None of the unreachable! arms about a reader's flag is reached: neither its
\* own two in pop_front_wait nor those of a resizer that inspects it.
NoReaderPanic ==
  /\ \A r \in Readers : /\ pc[r] = "enter" => action[r] \in {"Idle", "ExternallyBlocked"}
                        /\ pc[r] = "leave" => action[r] = "Reading"
  /\ \A w \in Writers : pc[w] = "scan" /\ cur[w] \in Readers =>
                          action[cur[w]] \in {"Idle", "Reading"}

\* None of the unreachable! arms about a writer's flag is reached.
NoWriterPanic == \A w \in Writers : pc[w] # "panic"

\* A value is in at most one slot, and in none once it was popped: nothing is
\* delivered twice, whatever a resize moved.
AtMostOnce ==
  /\ \A i, j \in Slots : buf[i] = buf[j] /\ buf[i] # NoVal => i = j
  /\ \A i \in Slots : buf[i] \notin received

\* "No values are lost" (the tests' list of properties to verify): a value is
\* with its sender, in a slot, or was popped.
HoldsValue(w) == pc[w] \in {"enter", "claim", "ticket", "put"} \cup RequestPCs \cup ResizerPCs
NoLoss ==
  \A w \in Writers : \A n \in 1..sent[w] :
    \/ <<w, n>> \in received
    \/ \E i \in Slots : buf[i] = <<w, n>>
    \/ n = sent[w] /\ HoldsValue(w)

\* A value is lost at most once no receiver is left.
NoLossToReaders == nReaders > 0 => NoLoss

\* The same as NoLoss as long as no resize has replaced the Vec.
NoLossBeforeResize == cap = Cap => NoLoss

\* A pop is under way on slot i by a reader other than r.
Claimed(i, r) == \E q \in Readers \ {r} : pc[q] \in {"lock", "check", "sleep", "wait"} /\ idx[q] = i

\* Before a resize, no value is popped while an earlier value of the same sender
\* lies in a slot no pop has claimed.
OrderBeforeResize ==
  [][cap = Cap => \A r \in Readers : \A v \in received' \ received : Take(r) =>
       \A i \in Slots : buf[i] # NoVal /\ buf[i][1] = v[1] /\ buf[i][2] < v[2] =>
         Claimed(i, r)]_vars

\* "This will only return an Err if there are currently no writers and no value
\* to pop" (pop_front_wait).  Before a resize: when NoWriters is returned every
\* value left is claimed by another pop, and no push is under way or can begin,
\* as the count of writers never reads 0 while a Sender exists, not even between
\* the two steps of a clone.
NothingLeft(r) == \A i \in Slots : buf[i] # NoVal => Claimed(i, r)
NoSender(w) == pc[w] \in {"none", "remove", "gone"} \cup WakePCs
ClosedIsFinal ==
  [][\A r \in Readers : cap = Cap /\ closed'[r] # closed[r] =>
       NothingLeft(r) /\ \A w \in Writers : NoSender(w)]_vars

\* A value in a slot that a pop sleeps on is popped: the notification of the
\* push, and that of a pop that leaves the slot to another, are never lost.
FilledSlotServed ==
  \A i \in 0..(Cap - 1) :
    (cap = Cap /\ buf[i] # NoVal /\ Sleepers({i}) # {}) ~> (cap # Cap \/ buf[i] = NoVal)

\* "We are the ones to update the value, we must perform the resize"
\* (request_resize_block): the first one is performed, unless a reader is asleep in the
\* queue, whatever the other writers do meanwhile: those that push, that ask for a
\* resize themselves and wait, that clone or drop a handle.
FirstResizePerformed ==
  \A w \in Writers : (cap = Cap /\ pc[w] = "lockr") ~>
    (pc[w] = "claim" \/ \E r \in Readers : pc[r] = "wait")
=============================================================================
