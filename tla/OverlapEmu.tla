----------------------------- MODULE OverlapEmu -----------------------------
(***************************************************************************)
(* The overlapped-I/O emulator of Inject/Hook.cpp and the hook of          *)
(* ReadDirectoryChangesW that uses it.                                     *)
(*                                                                         *)
(* A caller's OVERLAPPED cannot be handed to the system: the notification  *)
(* buffer must be filtered before the caller learns that it is filled.     *)
(* The hook claims a slot of overlappedEmuData with an interlocked         *)
(* exchange, passes the slot's own OVERLAPPED to the system, and the       *)
(* emulation thread later filters the buffer, copies the result to the     *)
(* caller's OVERLAPPED, sets the caller's event and frees the slot.        *)
(*                                                                         *)
(* One state variable per piece of shared memory, one action per step that *)
(* another thread can observe.  The kernel and the application are the     *)
(* environment.                                                            *)
(***************************************************************************)
EXTENDS Integers

CONSTANTS
  Requests,    \* the application's requests: an OVERLAPPED, lpBuffer and hDirectory
  Count,       \* ARRAY_COUNT(overlappedEmuData), 10 in the code
  NoRequest    \* the null realOverlapped of a slot that was never used

ASSUME CountAssumption == Count \in Nat \ {0}
ASSUME NoRequestAssumption == NoRequest \notin Requests

Slots == 1 .. Count

(* A completion is a status and a byte count; 1 stands for every byte      *)
(* count other than zero.  STATUS_NOTIFY_ENUM_DIR (the changes did not fit *)
(* the buffer) comes with no bytes, and stands for the other completions   *)
(* without bytes as well: a cancelled request, a closed directory handle.  *)
Outcomes ==
  { [internal |-> "success",       high |-> 1],
    [internal |-> "notifyEnumDir", high |-> 0] }

NoOutcome == [internal |-> "none", high |-> 0]

VARIABLES
  hook,         \* per request: where the call of ReadDirectoryChangesW_hook is
  pos,          \* per request: the loop variable i of EmulateOverlapped, 1 outside the hook
  inUse,        \* per slot: OverlappedData::inUse
  owner,        \* per slot: OverlappedData::realOverlapped
  internal,     \* per slot: Internal of the slot's own OVERLAPPED
  high,         \* per slot: InternalHigh of the slot's own OVERLAPPED
  event,        \* per slot: its auto-reset event is signalled
  irp,          \* the slots whose OVERLAPPED the kernel holds a request for
  wpc,          \* where the emulation thread is
  cur,          \* the slot the emulation thread works on (wait, data)
  realInternal, \* per request: Internal of the caller's OVERLAPPED
  realHigh,     \* per request: InternalHigh of the caller's OVERLAPPED
  realEvent,    \* per request: the caller's event is signalled
  buf,          \* per request: what the notification buffer holds
  outcome       \* history: what the kernel reported for the request's call

hookVars   == <<hook, pos>>
dataVars   == <<owner, internal, high>>
slotVars   == <<inUse, dataVars, event, irp>>
workerVars == <<wpc, cur>>
realVars   == <<realInternal, realHigh, realEvent>>
callerVars == <<realVars, buf, outcome>>
vars       == <<hook, pos, inUse, owner, internal, high, event, irp, wpc, cur,
                realInternal, realHigh, realEvent, buf, outcome>>

-----------------------------------------------------------------------------
(* Types.                                                                  *)

HookStates ==
  {"idle", "scan", "sleep", "fill", "call", "release", "pending",
   "syncCall", "syncFilter", "returned"}

WorkerStates == {"wait", "filter", "copyInternal", "copyHigh", "signal", "free"}

Statuses == {"success", "pending", "notifyEnumDir"}

Bytes == {0, 1}

(* "stale": not written by the kernel for the call that is outstanding;    *)
(* "raw": the kernel's records; "filtered": FilterNotifyInformation has    *)
(* been over them; "garbage": it has been over bytes that were stale.      *)
BufferStates == {"stale", "raw", "filtered", "garbage"}

TypeOK ==
  /\ hook         \in [Requests -> HookStates]
  /\ pos          \in [Requests -> Slots]
  /\ inUse        \in [Slots -> {0, 1}]
  /\ owner        \in [Slots -> Requests \cup {NoRequest}]
  /\ internal     \in [Slots -> Statuses]
  /\ high         \in [Slots -> Bytes]
  /\ event        \in [Slots -> BOOLEAN]
  /\ irp          \in SUBSET Slots
  /\ wpc          \in WorkerStates
  /\ cur          \in Slots
  /\ realInternal \in [Requests -> Statuses]
  /\ realHigh     \in [Requests -> Bytes]
  /\ realEvent    \in [Requests -> BOOLEAN]
  /\ buf          \in [Requests -> BufferStates]
  /\ outcome      \in [Requests -> Outcomes \cup {NoOutcome}]

(* Static storage is zero: no slot in use, Internal is STATUS_SUCCESS.  An *)
(* application clears its OVERLAPPED before the first use.                 *)
Init ==
  /\ hook         = [r \in Requests |-> "idle"]
  /\ pos          = [r \in Requests |-> 1]
  /\ inUse        = [s \in Slots |-> 0]
  /\ owner        = [s \in Slots |-> NoRequest]
  /\ internal     = [s \in Slots |-> "success"]
  /\ high         = [s \in Slots |-> 0]
  /\ event        = [s \in Slots |-> FALSE]
  /\ irp          = {}
  /\ wpc          = "wait"
  /\ cur          = 1
  /\ realInternal = [r \in Requests |-> "success"]
  /\ realHigh     = [r \in Requests |-> 0]
  /\ realEvent    = [r \in Requests |-> FALSE]
  /\ buf          = [r \in Requests |-> "stale"]
  /\ outcome      = [r \in Requests |-> NoOutcome]

-----------------------------------------------------------------------------
(* The hook, run by an application thread.                                 *)

(* The call enters the hook, with lpOverlapped or without.  The caller's   *)
(* event is not signalled: see Consume.                                    *)
Issue(r) ==
  /\ hook[r] = "idle"
  /\ \E entry \in {"scan", "syncCall"} : hook' = [hook EXCEPT ![r] = entry]
  /\ UNCHANGED <<pos, slotVars, workerVars, callerVars>>

(* Mutant: a claim that does not look at what the exchange returns.         *)
ClaimUnchecked(r) ==
  /\ hook[r] = "scan"
  /\ inUse' = [inUse EXCEPT ![pos[r]] = 1]
  /\ hook'  = [hook EXCEPT ![r] = "fill"]
  /\ UNCHANGED <<pos, dataVars, event, irp, workerVars, callerVars>>

(* InterlockedCompareExchange(&data->inUse, 1, 0) finds the slot free.     *)
Claim(r) ==
  /\ hook[r] = "scan"
  /\ inUse[pos[r]] = 0
  /\ inUse' = [inUse EXCEPT ![pos[r]] = 1]
  /\ hook'  = [hook EXCEPT ![r] = "fill"]
  /\ UNCHANGED <<pos, dataVars, event, irp, workerVars, callerVars>>

(* Mutants: a loop that runs one slot too far, or one slot short.          *)
SkipTooFar(r) ==
  /\ hook[r] = "scan"
  /\ pos[r] > Count \/ inUse[pos[r]] # 0
  /\ IF pos[r] <= Count
       THEN /\ pos' = [pos EXCEPT ![r] = @ + 1]
            /\ UNCHANGED hook
       ELSE /\ hook' = [hook EXCEPT ![r] = "sleep"]
            /\ UNCHANGED pos
  /\ UNCHANGED <<slotVars, workerVars, callerVars>>

SkipShort(r) ==
  /\ hook[r] = "scan"
  /\ inUse[pos[r]] # 0
  /\ IF pos[r] < Count - 1
       THEN /\ pos' = [pos EXCEPT ![r] = @ + 1]
            /\ UNCHANGED hook
       ELSE /\ hook' = [hook EXCEPT ![r] = "sleep"]
            /\ UNCHANGED pos
  /\ UNCHANGED <<slotVars, workerVars, callerVars>>

(* The slot is taken: on to the next, or to Sleep after the last.          *)
Skip(r) ==
  /\ hook[r] = "scan"
  /\ inUse[pos[r]] # 0
  /\ IF pos[r] < Count
       THEN /\ pos' = [pos EXCEPT ![r] = @ + 1]
            /\ UNCHANGED hook
       ELSE /\ hook' = [hook EXCEPT ![r] = "sleep"]
            /\ UNCHANGED pos
  /\ UNCHANGED <<slotVars, workerVars, callerVars>>

(* Sleep(100) is over: scan again from the first slot.                     *)
Wake(r) ==
  /\ hook[r] = "sleep"
  /\ hook' = [hook EXCEPT ![r] = "scan"]
  /\ pos'  = [pos EXCEPT ![r] = 1]
  /\ UNCHANGED <<slotVars, workerVars, callerVars>>

(* The plain stores into the claimed slot.  data1, data2 and func are the  *)
(* buffer, the directory handle and the filter of the same request.        *)
Fill(r) ==
  /\ hook[r] = "fill"
  /\ owner'    = [owner EXCEPT ![pos[r]] = r]
  /\ internal' = [internal EXCEPT ![pos[r]] = realInternal[r]]
  /\ high'     = [high EXCEPT ![pos[r]] = realHigh[r]]
  /\ hook' = [hook EXCEPT ![r] = "call"]
  /\ UNCHANGED <<pos, inUse, event, irp, workerVars, callerVars>>

(* ReadDirectoryChangesW_sys returns TRUE: the kernel owns the slot's      *)
(* OVERLAPPED, and the hook returns TRUE to the application.               *)
Accept(r) ==
  /\ hook[r] = "call"
  /\ internal' = [internal EXCEPT ![pos[r]] = "pending"]
  /\ irp'  = irp \cup {pos[r]}
  /\ hook' = [hook EXCEPT ![r] = "pending"]
  /\ pos'  = [pos EXCEPT ![r] = 1]
  /\ UNCHANGED <<inUse, owner, high, event, workerVars, callerVars>>

(* Mutant: the hook does not look at ret and treats the call as accepted.  *)
RejectIgnored(r) ==
  /\ hook[r] = "call"
  /\ internal' = [internal EXCEPT ![pos[r]] = "pending"]
  /\ hook' = [hook EXCEPT ![r] = "pending"]
  /\ pos'  = [pos EXCEPT ![r] = 1]
  /\ UNCHANGED <<inUse, owner, high, event, irp, workerVars, callerVars>>

(* ReadDirectoryChangesW_sys returns FALSE.                                *)
Reject(r) ==
  /\ hook[r] = "call"
  /\ internal' = [internal EXCEPT ![pos[r]] = "pending"]
  /\ hook' = [hook EXCEPT ![r] = "release"]
  /\ UNCHANGED <<pos, inUse, owner, high, event, irp, workerVars, callerVars>>

(* EmulateOverlappedRelease finds the slot by its address and frees it;    *)
(* the hook returns FALSE.                                                 *)
EmulateOverlappedRelease(r) ==
  /\ hook[r] = "release"
  /\ inUse' = [inUse EXCEPT ![pos[r]] = 0]
  /\ hook'  = [hook EXCEPT ![r] = "idle"]
  /\ pos'   = [pos EXCEPT ![r] = 1]
  /\ UNCHANGED <<dataVars, event, irp, workerVars, callerVars>>

(* The call without an OVERLAPPED blocks in the system and then filters    *)
(* the buffer, whatever number of bytes the system returned.               *)
FilterNotifyInformation(b) == IF b = "stale" THEN "garbage" ELSE "filtered"

SyncReturn(r, o) ==
  /\ hook[r] = "syncCall"
  /\ hook'    = [hook EXCEPT ![r] = "syncFilter"]
  /\ outcome' = [outcome EXCEPT ![r] = o]
  /\ buf'     = [buf EXCEPT ![r] = IF o.high # 0 THEN "raw" ELSE @]
  /\ UNCHANGED <<pos, slotVars, workerVars, realVars>>

SyncFail(r) ==
  /\ hook[r] = "syncCall"
  /\ hook' = [hook EXCEPT ![r] = "idle"]
  /\ UNCHANGED <<pos, slotVars, workerVars, callerVars>>

SyncFilter(r) ==
  /\ hook[r] = "syncFilter"
  /\ buf'  = [buf EXCEPT ![r] = FilterNotifyInformation(@)]
  /\ hook' = [hook EXCEPT ![r] = "returned"]
  /\ UNCHANGED <<pos, slotVars, workerVars, realVars, outcome>>

-----------------------------------------------------------------------------
(* The kernel and the application.                                         *)

(* The kernel completes the request it holds for slot s: it writes the     *)
(* notification records, the slot's OVERLAPPED and sets the slot's event.  *)
Complete(s, o) ==
  LET r == owner[s] IN
  /\ s \in irp
  /\ irp'     = irp \ {s}
  /\ internal' = [internal EXCEPT ![s] = o.internal]
  /\ high'    = [high EXCEPT ![s] = o.high]
  /\ event'   = [event EXCEPT ![s] = TRUE]
  /\ buf'     = [buf EXCEPT ![r] = IF o.high # 0 THEN "raw" ELSE @]
  /\ outcome' = [outcome EXCEPT ![r] = o]
  /\ UNCHANGED <<hookVars, inUse, owner, workerVars, realVars>>

(* The application waits for its event (an auto-reset event, or one it     *)
(* resets), takes the result, and may use the OVERLAPPED and the buffer    *)
(* for another call.                                                       *)
Consume(r) ==
  /\ hook[r] = "pending"
  /\ realEvent[r]
  /\ realEvent' = [realEvent EXCEPT ![r] = FALSE]
  /\ hook'    = [hook EXCEPT ![r] = "idle"]
  /\ buf'     = [buf EXCEPT ![r] = "stale"]
  /\ outcome' = [outcome EXCEPT ![r] = NoOutcome]
  /\ UNCHANGED <<pos, slotVars, workerVars, realInternal, realHigh>>

(* A call without an OVERLAPPED has its result when the hook returns.      *)
ConsumeSync(r) ==
  /\ hook[r] = "returned"
  /\ hook'    = [hook EXCEPT ![r] = "idle"]
  /\ buf'     = [buf EXCEPT ![r] = "stale"]
  /\ outcome' = [outcome EXCEPT ![r] = NoOutcome]
  /\ UNCHANGED <<pos, slotVars, workerVars, realVars>>

-----------------------------------------------------------------------------
(* OverlappEmuThread.                                                      *)

(* WaitForMultipleObjects returns the smallest index that is signalled and *)
(* resets that event alone.                                                *)
WorkerWait ==
  \E s \in Slots :
    /\ wpc = "wait"
    /\ event[s]
    /\ \A t \in Slots : t < s => ~event[t]
    /\ event' = [event EXCEPT ![s] = FALSE]
    /\ cur' = s
    /\ wpc' = "filter"
    /\ UNCHANGED <<hookVars, inUse, dataVars, irp, callerVars>>

(* Mutant: the buffer is handed on as the kernel wrote it.                 *)
WorkerFilterSkipped ==
  /\ wpc = "filter"
  /\ wpc' = "copyInternal"
  /\ UNCHANGED <<hookVars, slotVars, cur, callerVars>>

(* data->func(data->data1, data->data2), when bytes were reported.         *)
WorkerFilter ==
  LET r == owner[cur] IN
  /\ wpc = "filter"
  /\ buf' = IF high[cur] # 0
              THEN [buf EXCEPT ![r] = FilterNotifyInformation(@)]
              ELSE buf
  /\ wpc' = "copyInternal"
  /\ UNCHANGED <<hookVars, slotVars, cur, realVars, outcome>>

(* Mutants: InternalHigh is never copied; the caller's event is set before *)
(* its OVERLAPPED is written.                                              *)
WorkerCopyInternalOnly ==
  LET r == owner[cur] IN
  /\ wpc = "copyInternal"
  /\ realInternal' = [realInternal EXCEPT ![r] = internal[cur]]
  /\ wpc' = "signal"
  /\ UNCHANGED <<hookVars, slotVars, cur, realHigh, realEvent, buf, outcome>>

WorkerSignalFirst ==
  LET r == owner[cur] IN
  /\ wpc = "copyInternal"
  /\ realInternal' = [realInternal EXCEPT ![r] = internal[cur]]
  /\ realEvent' = [realEvent EXCEPT ![r] = TRUE]
  /\ wpc' = "copyHigh"
  /\ UNCHANGED <<hookVars, slotVars, cur, realHigh, buf, outcome>>

WorkerCopyInternal ==
  LET r == owner[cur] IN
  /\ wpc = "copyInternal"
  /\ realInternal' = [realInternal EXCEPT ![r] = internal[cur]]
  /\ wpc' = "copyHigh"
  /\ UNCHANGED <<hookVars, slotVars, cur, realHigh, realEvent, buf, outcome>>

WorkerCopyHigh ==
  LET r == owner[cur] IN
  /\ wpc = "copyHigh"
  /\ realHigh' = [realHigh EXCEPT ![r] = high[cur]]
  /\ wpc' = "signal"
  /\ UNCHANGED <<hookVars, slotVars, cur, realInternal, realEvent, buf, outcome>>

(* Mutant: the slot is given back before the thread is done with it.       *)
WorkerSignalAndFree ==
  LET r == owner[cur] IN
  /\ wpc = "signal"
  /\ realEvent' = [realEvent EXCEPT ![r] = TRUE]
  /\ inUse' = [inUse EXCEPT ![cur] = 0]
  /\ wpc' = "free"
  /\ UNCHANGED <<hookVars, dataVars, event, irp, cur, realInternal, realHigh, buf, outcome>>

(* SetEvent(data->realOverlapped->hEvent).                                 *)
WorkerSignal ==
  LET r == owner[cur] IN
  /\ wpc = "signal"
  /\ realEvent' = [realEvent EXCEPT ![r] = TRUE]
  /\ wpc' = "free"
  /\ UNCHANGED <<hookVars, slotVars, cur, realInternal, realHigh, buf, outcome>>

(* Mutant: the slot is never given back.                                   *)
WorkerFreeForgotten ==
  /\ wpc = "free"
  /\ wpc' = "wait"
  /\ UNCHANGED <<hookVars, slotVars, cur, callerVars>>

(* data->inUse = 0: only now may another call claim the slot.              *)
WorkerFree ==
  /\ wpc = "free"
  /\ inUse' = [inUse EXCEPT ![cur] = 0]
  /\ wpc'   = "wait"
  /\ UNCHANGED <<hookVars, dataVars, event, irp, cur, callerVars>>

-----------------------------------------------------------------------------
(* Specification.  The scheduler runs every thread: a caller inside the    *)
(* hook and the emulation thread take their next step.  A directory may    *)
(* stay unchanged for ever and an application may never wait for its       *)
(* event, so Complete, Issue and Consume carry no fairness.                *)

HookStep(r) ==
  \/ Claim(r) \/ Skip(r) \/ Wake(r) \/ Fill(r)
  \/ Accept(r) \/ Reject(r) \/ EmulateOverlappedRelease(r) \/ SyncFilter(r)

WorkerStep ==
  \/ WorkerWait \/ WorkerFilter \/ WorkerCopyInternal
  \/ WorkerCopyHigh \/ WorkerSignal \/ WorkerFree

Environment(r) ==
  \/ Issue(r) \/ Consume(r) \/ ConsumeSync(r) \/ SyncFail(r)
  \/ \E o \in Outcomes : SyncReturn(r, o)

Next ==
  \/ \E r \in Requests : HookStep(r) \/ Environment(r)
  \/ \E s \in Slots, o \in Outcomes : Complete(s, o)
  \/ WorkerStep

Spec == Init /\ [][Next]_vars

FairSpec ==
  /\ Spec
  /\ \A r \in Requests : WF_vars(HookStep(r))
  /\ WF_vars(WorkerStep)

-----------------------------------------------------------------------------
(* Properties.                                                             *)

Holds(r, s)   == hook[r] \in {"fill", "call", "release"} /\ pos[r] = s
Worked(s)     == wpc # "wait" /\ cur = s

(* Slot s carries an answer that has not reached the caller yet.           *)
InFlight(s)   == s \in irp \/ event[s] \/ (Worked(s) /\ wpc # "free")

(* A slot that is in use is with exactly one party: the call that claimed  *)
(* it, the kernel, the event that waits for the thread, or the emulation   *)
(* thread; a free slot is with none.  So no slot is shared by two calls,   *)
(* given back while the kernel or the thread still uses it, or leaked.     *)
SlotOwnership ==
  \A s \in Slots :
    /\ inUse[s] = 0 => /\ \A r \in Requests : ~Holds(r, s)
                      /\ s \notin irp /\ ~event[s] /\ ~Worked(s)
    /\ inUse[s] = 1 => \/ \E r \in Requests : Holds(r, s)
                      \/ s \in irp \/ event[s] \/ Worked(s)
    /\ \A r, q \in Requests : Holds(r, s) /\ Holds(q, s) => r = q
    /\ \A r \in Requests : Holds(r, s) => s \notin irp /\ ~event[s] /\ ~Worked(s)
    /\ s \in irp => ~event[s] /\ ~Worked(s)
    /\ event[s] => ~Worked(s)

(* An accepted request has exactly one answer under way or delivered, and  *)
(* nothing is under way for a request that is not waiting for an answer.   *)
(* The caller's event is signalled for the call that is outstanding only.  *)
OneAnswer ==
  /\ \A s \in Slots : InFlight(s) =>
       /\ owner[s] \in Requests
       /\ hook[owner[s]] = "pending"
       /\ ~realEvent[owner[s]]
  /\ \A s, t \in Slots :
       InFlight(s) /\ InFlight(t) /\ owner[s] = owner[t]
         => s = t
  /\ \A r \in Requests :
       /\ hook[r] = "pending" /\ ~realEvent[r]
            => \E s \in Slots : InFlight(s) /\ owner[s] = r
       /\ realEvent[r] => hook[r] = "pending"
       /\ hook[r] = "call" => owner[pos[r]] = r

(* Whatever bytes the kernel reported for the call are in the buffer as b. *)
BufferIs(r, b) == outcome[r].high # 0 => buf[r] = b

(* What the kernel reported for a call survives every stage on its way to  *)
(* the caller, and the buffer is filtered by the time the caller is told:  *)
(* the slot's OVERLAPPED holds the outcome until the slot is freed, the    *)
(* worker filters a buffer the kernel has written, and once the event is   *)
(* set the caller's OVERLAPPED equals the kernel's report.                 *)
AnswerIntact ==
  /\ \A r \in Requests :
       /\ hook[r] \in {"idle", "scan", "sleep", "fill", "call", "release", "syncCall"}
            => outcome[r] = NoOutcome
       /\ hook[r] = "syncFilter" => outcome[r] # NoOutcome /\ BufferIs(r, "raw")
       /\ hook[r] = "returned" => outcome[r] # NoOutcome /\ BufferIs(r, "filtered")
       /\ realEvent[r] => /\ outcome[r] # NoOutcome
                          /\ realInternal[r] = outcome[r].internal
                          /\ realHigh[r] = outcome[r].high
                          /\ BufferIs(r, "filtered")
  /\ \A s \in Slots : LET r == owner[s] IN
       /\ s \in irp => outcome[r] = NoOutcome
       /\ event[s] \/ (Worked(s) /\ wpc # "free") =>
            /\ outcome[r] # NoOutcome
            /\ internal[s] = outcome[r].internal
            /\ high[s] = outcome[r].high
       /\ event[s] \/ (Worked(s) /\ wpc = "filter") => BufferIs(r, "raw")
       /\ Worked(s) /\ wpc \in {"copyInternal", "copyHigh", "signal"}
            => BufferIs(r, "filtered")
       /\ Worked(s) /\ wpc \in {"copyHigh", "signal"}
            => realInternal[r] = internal[s]
       /\ Worked(s) /\ wpc = "signal" => realHigh[r] = high[s]

(* While the emulation thread works on a slot no caller and no kernel      *)
(* write goes to it, and only the thread itself gives it back, which makes *)
(* the plain loads and stores of OverlappEmuThread free of races.          *)
WorkedSlotStable ==
  [][\A s \in Slots : Worked(s) =>
       /\ <<owner[s], internal[s], high[s]>>' = <<owner[s], internal[s], high[s]>>
       /\ inUse'[s] = inUse[s] \/ (wpc = "free" /\ wpc' = "wait")]_vars

(* From SetEvent until the application takes its result, nothing writes    *)
(* the caller's OVERLAPPED or the notification buffer any more.            *)
DeliveredStable ==
  [][\A r \in Requests : realEvent[r] /\ realEvent'[r] =>
       <<realInternal[r], realHigh[r], buf[r]>>' = <<realInternal[r], realHigh[r], buf[r]>>]_vars

(* A completion is taken off its slot and the slot is freed, unless slots  *)
(* of smaller index keep completing: WaitForMultipleObjects always returns *)
(* the smallest, so that starvation is possible and is not excluded here.  *)
ServedUnlessStarved ==
  \A s \in Slots :
    \/ (event[s] \/ Worked(s)) ~> (inUse[s] = 0)
    \/ []<>(\E t \in Slots : t < s /\ event[t])

(* A caller that scans for a slot does not overlook one that stays free:   *)
(* the scan reaches every index and starts over after Sleep.               *)
FreeSlotFound ==
  \A r \in Requests, s \in Slots :
    <>[](inUse[s] = 0) => []<>(hook[r] \notin {"scan", "sleep"})

(* The emulator implements WatchService: a call is issued while the hook   *)
(* has it, completed when the kernel has reported, and delivered when the  *)
(* caller's event is set (or the call without OVERLAPPED has returned).    *)
Phase(r) ==
  IF hook[r] = "idle" THEN "idle"
  ELSE IF realEvent[r] \/ hook[r] = "returned" THEN "delivered"
  ELSE IF outcome[r] # NoOutcome THEN "completed"
  ELSE "issued"

(* A byte count of zero tells the caller not to look at the buffer.        *)
Reading(o, b) == [outcome |-> o, buffer |-> IF o.high # 0 THEN b ELSE "none"]

Seen(r) ==
  IF realEvent[r]
    THEN Reading([internal |-> realInternal[r], high |-> realHigh[r]], buf[r])
  ELSE IF hook[r] = "returned" THEN Reading(outcome[r], buf[r])
  ELSE Reading(NoOutcome, "none")

phaseBar == [r \in Requests |-> Phase(r)]

seenBar == [r \in Requests |-> Seen(r)]

Watch == INSTANCE WatchService
           WITH phase <- phaseBar, result <- outcome, seen <- seenBar

(* Every request is answered once, with its own result and a filtered      *)
(* buffer, whatever the interleaving of callers, kernel and thread.        *)
ImplementsWatchService == Watch!Spec

=============================================================================
