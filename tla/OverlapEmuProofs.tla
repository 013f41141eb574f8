-------------------------- MODULE OverlapEmuProofs --------------------------
(***************************************************************************)
(* Proofs about OverlapEmu for any set of requests and any pool size.      *)
(***************************************************************************)
EXTENDS OverlapEmu, TLAPS

(* The pool is not empty.                                                  *)
LEMMA FirstSlot == 1 \in Slots
  BY CountAssumption DEF Slots

(* What the kernel can report.                                             *)
LEMMA OutcomeFields ==
  /\ \A o \in Outcomes : o.internal \in Statuses /\ o.high \in Bytes /\ o # NoOutcome
  BY DEF Outcomes, NoOutcome, Statuses, Bytes

(* Every step keeps the types.                                             *)
LEMMA TypeStep == TypeOK /\ [Next]_vars => TypeOK'
<1> SUFFICES ASSUME TypeOK, [Next]_vars PROVE TypeOK'
  OBVIOUS
<1> USE DEF TypeOK, HookStates, WorkerStates, BufferStates,
            hookVars, dataVars, slotVars, workerVars, realVars, callerVars
<1>1. ASSUME NEW r \in Requests, Issue(r) PROVE TypeOK'
  BY <1>1 DEF Issue
<1>2. ASSUME NEW r \in Requests, Claim(r) PROVE TypeOK'
  BY <1>2 DEF Claim
<1>3. ASSUME NEW r \in Requests, Skip(r) PROVE TypeOK'
  <2>1. pos[r] < Count => pos[r] + 1 \in Slots
    BY CountAssumption DEF Slots
  <2> QED
    BY <1>3, <2>1 DEF Skip
<1>4. ASSUME NEW r \in Requests, Wake(r) PROVE TypeOK'
  BY <1>4, FirstSlot DEF Wake
<1>5. ASSUME NEW r \in Requests, Fill(r) PROVE TypeOK'
  BY <1>5 DEF Fill
<1>6. ASSUME NEW r \in Requests, Accept(r) PROVE TypeOK'
  BY <1>6, FirstSlot DEF Accept, Statuses
<1>7. ASSUME NEW r \in Requests, Reject(r) PROVE TypeOK'
  BY <1>7 DEF Reject, Statuses
<1>8. ASSUME NEW r \in Requests, EmulateOverlappedRelease(r) PROVE TypeOK'
  BY <1>8, FirstSlot DEF EmulateOverlappedRelease
<1>9. ASSUME NEW r \in Requests, NEW o \in Outcomes, SyncReturn(r, o) PROVE TypeOK'
  BY <1>9 DEF SyncReturn
<1>10. ASSUME NEW r \in Requests, SyncFail(r) PROVE TypeOK'
  BY <1>10 DEF SyncFail
<1>11. ASSUME NEW r \in Requests, SyncFilter(r) PROVE TypeOK'
  BY <1>11 DEF SyncFilter, FilterNotifyInformation
<1>12. ASSUME NEW s \in Slots, NEW o \in Outcomes, Complete(s, o) PROVE TypeOK'
  BY <1>12, OutcomeFields DEF Complete
<1>13. ASSUME NEW r \in Requests, Consume(r) PROVE TypeOK'
  BY <1>13 DEF Consume
<1>14. ASSUME NEW r \in Requests, ConsumeSync(r) PROVE TypeOK'
  BY <1>14 DEF ConsumeSync
<1>15. ASSUME WorkerWait PROVE TypeOK'
  BY <1>15 DEF WorkerWait
<1>16. ASSUME WorkerFilter PROVE TypeOK'
  BY <1>16 DEF WorkerFilter, FilterNotifyInformation
<1>17. ASSUME WorkerCopyInternal PROVE TypeOK'
  BY <1>17 DEF WorkerCopyInternal
<1>18. ASSUME WorkerCopyHigh PROVE TypeOK'
  BY <1>18 DEF WorkerCopyHigh
<1>19. ASSUME WorkerSignal PROVE TypeOK'
  BY <1>19 DEF WorkerSignal
<1>20. ASSUME WorkerFree PROVE TypeOK'
  BY <1>20 DEF WorkerFree
<1>21. CASE UNCHANGED vars
  BY <1>21 DEF vars
<1> QED
  BY <1>1, <1>2, <1>3, <1>4, <1>5, <1>6, <1>7, <1>8, <1>9, <1>10, <1>11,
     <1>12, <1>13, <1>14, <1>15, <1>16, <1>17, <1>18, <1>19, <1>20, <1>21
  DEF Next, HookStep, Environment, WorkerStep

(* Every step keeps the ownership of the slots.                             *)
LEMMA OwnershipStep == TypeOK /\ SlotOwnership /\ [Next]_vars => SlotOwnership'
<1> SUFFICES ASSUME TypeOK, SlotOwnership, [Next]_vars PROVE SlotOwnership'
  OBVIOUS
<1> USE DEF TypeOK, SlotOwnership, Holds, Worked, HookStates, WorkerStates,
            hookVars, dataVars, slotVars, workerVars, realVars, callerVars
<1>1. ASSUME NEW r \in Requests, Issue(r) PROVE SlotOwnership'
  BY <1>1 DEF Issue
<1>2. ASSUME NEW r \in Requests, Claim(r) PROVE SlotOwnership'
  BY <1>2 DEF Claim
<1>3. ASSUME NEW r \in Requests, Skip(r) PROVE SlotOwnership'
  <2>1. /\ hook[r] = "scan" /\ hook'[r] \in {"scan", "sleep"}
        /\ \A q \in Requests \ {r} : hook'[q] = hook[q] /\ pos'[q] = pos[q]
        /\ UNCHANGED <<slotVars, workerVars, callerVars>>
    BY <1>3 DEF Skip
  <2>2. \A q \in Requests, s \in Slots : Holds(q, s)' <=> Holds(q, s)
    BY <2>1
  <2>3. UNCHANGED <<inUse, irp, event, wpc, cur>>
    BY <2>1
  <2> HIDE DEF Holds
  <2> QED
    BY <2>2, <2>3
<1>4. ASSUME NEW r \in Requests, Wake(r) PROVE SlotOwnership'
  BY <1>4 DEF Wake
<1>5. ASSUME NEW r \in Requests, Fill(r) PROVE SlotOwnership'
  BY <1>5 DEF Fill
<1>6. ASSUME NEW r \in Requests, Accept(r) PROVE SlotOwnership'
  BY <1>6 DEF Accept
<1>7. ASSUME NEW r \in Requests, Reject(r) PROVE SlotOwnership'
  BY <1>7 DEF Reject
<1>8. ASSUME NEW r \in Requests, EmulateOverlappedRelease(r) PROVE SlotOwnership'
  BY <1>8 DEF EmulateOverlappedRelease
<1>9. ASSUME NEW r \in Requests, NEW o \in Outcomes, SyncReturn(r, o) PROVE SlotOwnership'
  <2>1. /\ hook[r] = "syncCall"
        /\ hook' = [hook EXCEPT ![r] = "syncFilter"]
        /\ UNCHANGED <<pos, slotVars, workerVars>>
    BY <1>9 DEF SyncReturn
  <2> QED
    BY <2>1
<1>10. ASSUME NEW r \in Requests, SyncFail(r) PROVE SlotOwnership'
  BY <1>10 DEF SyncFail
<1>11. ASSUME NEW r \in Requests, SyncFilter(r) PROVE SlotOwnership'
  BY <1>11 DEF SyncFilter
<1>12. ASSUME NEW s \in Slots, NEW o \in Outcomes, Complete(s, o) PROVE SlotOwnership'
  BY <1>12 DEF Complete
<1>13. ASSUME NEW r \in Requests, Consume(r) PROVE SlotOwnership'
  BY <1>13 DEF Consume
<1>14. ASSUME NEW r \in Requests, ConsumeSync(r) PROVE SlotOwnership'
  BY <1>14 DEF ConsumeSync
<1>15. ASSUME WorkerWait PROVE SlotOwnership'
  BY <1>15 DEF WorkerWait
<1>16. ASSUME WorkerFilter PROVE SlotOwnership'
  BY <1>16 DEF WorkerFilter
<1>17. ASSUME WorkerCopyInternal PROVE SlotOwnership'
  BY <1>17 DEF WorkerCopyInternal
<1>18. ASSUME WorkerCopyHigh PROVE SlotOwnership'
  BY <1>18 DEF WorkerCopyHigh
<1>19. ASSUME WorkerSignal PROVE SlotOwnership'
  BY <1>19 DEF WorkerSignal
<1>20. ASSUME WorkerFree PROVE SlotOwnership'
  BY <1>20 DEF WorkerFree
<1>21. CASE UNCHANGED vars
  BY <1>21 DEF vars
<1> QED
  BY <1>1, <1>2, <1>3, <1>4, <1>5, <1>6, <1>7, <1>8, <1>9, <1>10, <1>11,
     <1>12, <1>13, <1>14, <1>15, <1>16, <1>17, <1>18, <1>19, <1>20, <1>21
  DEF Next, HookStep, Environment, WorkerStep

(* Every step keeps one answer per request.                                 *)
LEMMA OneAnswerStep == TypeOK /\ SlotOwnership /\ OneAnswer /\ [Next]_vars => OneAnswer'
<1> SUFFICES ASSUME TypeOK, SlotOwnership, OneAnswer, [Next]_vars PROVE OneAnswer'
  OBVIOUS
<1> USE DEF TypeOK, SlotOwnership, OneAnswer, InFlight, Holds, Worked, HookStates,
            WorkerStates, hookVars, dataVars, slotVars, workerVars, realVars, callerVars
<1>1. ASSUME NEW r \in Requests, Issue(r) PROVE OneAnswer'
  BY <1>1 DEF Issue
<1>2. ASSUME NEW r \in Requests, Claim(r) PROVE OneAnswer'
  BY <1>2 DEF Claim
<1>3. ASSUME NEW r \in Requests, Skip(r) PROVE OneAnswer'
  <2>1. /\ hook[r] = "scan" /\ hook'[r] \in {"scan", "sleep"}
        /\ \A q \in Requests \ {r} : hook'[q] = hook[q] /\ pos'[q] = pos[q]
        /\ UNCHANGED <<slotVars, workerVars, callerVars>>
    BY <1>3 DEF Skip
  <2> QED
    BY <2>1
<1>4. ASSUME NEW r \in Requests, Wake(r) PROVE OneAnswer'
  BY <1>4 DEF Wake
<1>5. ASSUME NEW r \in Requests, Fill(r) PROVE OneAnswer'
  BY <1>5 DEF Fill
<1>6. ASSUME NEW r \in Requests, Accept(r) PROVE OneAnswer'
  BY <1>6 DEF Accept
<1>7. ASSUME NEW r \in Requests, Reject(r) PROVE OneAnswer'
  BY <1>7 DEF Reject
<1>8. ASSUME NEW r \in Requests, EmulateOverlappedRelease(r) PROVE OneAnswer'
  BY <1>8 DEF EmulateOverlappedRelease
<1>9. ASSUME NEW r \in Requests, NEW o \in Outcomes, SyncReturn(r, o) PROVE OneAnswer'
  BY <1>9 DEF SyncReturn
<1>10. ASSUME NEW r \in Requests, SyncFail(r) PROVE OneAnswer'
  BY <1>10 DEF SyncFail
<1>11. ASSUME NEW r \in Requests, SyncFilter(r) PROVE OneAnswer'
  BY <1>11 DEF SyncFilter
<1>12. ASSUME NEW s \in Slots, NEW o \in Outcomes, Complete(s, o) PROVE OneAnswer'
  BY <1>12 DEF Complete
<1>13. ASSUME NEW r \in Requests, Consume(r) PROVE OneAnswer'
  BY <1>13 DEF Consume
<1>14. ASSUME NEW r \in Requests, ConsumeSync(r) PROVE OneAnswer'
  BY <1>14 DEF ConsumeSync
<1>15. ASSUME WorkerWait PROVE OneAnswer'
  BY <1>15 DEF WorkerWait
<1>16. ASSUME WorkerFilter PROVE OneAnswer'
  BY <1>16 DEF WorkerFilter
<1>17. ASSUME WorkerCopyInternal PROVE OneAnswer'
  BY <1>17 DEF WorkerCopyInternal
<1>18. ASSUME WorkerCopyHigh PROVE OneAnswer'
  BY <1>18 DEF WorkerCopyHigh
<1>19. ASSUME WorkerSignal PROVE OneAnswer'
  BY <1>19 DEF WorkerSignal
<1>20. ASSUME WorkerFree PROVE OneAnswer'
  BY <1>20 DEF WorkerFree
<1>21. CASE UNCHANGED vars
  BY <1>21 DEF vars
<1> QED
  BY <1>1, <1>2, <1>3, <1>4, <1>5, <1>6, <1>7, <1>8, <1>9, <1>10, <1>11,
     <1>12, <1>13, <1>14, <1>15, <1>16, <1>17, <1>18, <1>19, <1>20, <1>21
  DEF Next, HookStep, Environment, WorkerStep

(* Every step keeps the answers on their way intact.                        *)
LEMMA AnswerStep == TypeOK /\ SlotOwnership /\ OneAnswer /\ AnswerIntact /\ [Next]_vars => AnswerIntact'
<1> SUFFICES ASSUME TypeOK, SlotOwnership, OneAnswer, AnswerIntact, [Next]_vars PROVE AnswerIntact'
  OBVIOUS
<1> USE DEF TypeOK, SlotOwnership, OneAnswer, AnswerIntact, InFlight, Holds, Worked,
            BufferIs, HookStates, WorkerStates,
            hookVars, dataVars, slotVars, workerVars, realVars, callerVars
<1>1. ASSUME NEW r \in Requests, Issue(r) PROVE AnswerIntact'
  BY <1>1 DEF Issue
<1>2. ASSUME NEW r \in Requests, Claim(r) PROVE AnswerIntact'
  BY <1>2 DEF Claim
<1>3. ASSUME NEW r \in Requests, Skip(r) PROVE AnswerIntact'
  <2>1. /\ hook[r] = "scan" /\ hook'[r] \in {"scan", "sleep"}
        /\ \A q \in Requests \ {r} : hook'[q] = hook[q] /\ pos'[q] = pos[q]
        /\ UNCHANGED <<slotVars, workerVars, callerVars>>
    BY <1>3 DEF Skip
  <2> QED
    BY <2>1
<1>4. ASSUME NEW r \in Requests, Wake(r) PROVE AnswerIntact'
  BY <1>4 DEF Wake
<1>5. ASSUME NEW r \in Requests, Fill(r) PROVE AnswerIntact'
  BY <1>5 DEF Fill
<1>6. ASSUME NEW r \in Requests, Accept(r) PROVE AnswerIntact'
  BY <1>6 DEF Accept
<1>7. ASSUME NEW r \in Requests, Reject(r) PROVE AnswerIntact'
  BY <1>7 DEF Reject
<1>8. ASSUME NEW r \in Requests, EmulateOverlappedRelease(r) PROVE AnswerIntact'
  BY <1>8 DEF EmulateOverlappedRelease
<1>9. ASSUME NEW r \in Requests, NEW o \in Outcomes, SyncReturn(r, o) PROVE AnswerIntact'
  BY <1>9, OutcomeFields DEF SyncReturn
<1>10. ASSUME NEW r \in Requests, SyncFail(r) PROVE AnswerIntact'
  BY <1>10 DEF SyncFail
<1>11. ASSUME NEW r \in Requests, SyncFilter(r) PROVE AnswerIntact'
  BY <1>11 DEF SyncFilter, FilterNotifyInformation
<1>12. ASSUME NEW s \in Slots, NEW o \in Outcomes, Complete(s, o) PROVE AnswerIntact'
  BY <1>12, OutcomeFields DEF Complete
<1>13. ASSUME NEW r \in Requests, Consume(r) PROVE AnswerIntact'
  BY <1>13 DEF Consume
<1>14. ASSUME NEW r \in Requests, ConsumeSync(r) PROVE AnswerIntact'
  BY <1>14 DEF ConsumeSync
<1>15. ASSUME WorkerWait PROVE AnswerIntact'
  BY <1>15 DEF WorkerWait
<1>16. ASSUME WorkerFilter PROVE AnswerIntact'
  BY <1>16 DEF WorkerFilter, FilterNotifyInformation
<1>17. ASSUME WorkerCopyInternal PROVE AnswerIntact'
  BY <1>17 DEF WorkerCopyInternal
<1>18. ASSUME WorkerCopyHigh PROVE AnswerIntact'
  BY <1>18 DEF WorkerCopyHigh
<1>19. ASSUME WorkerSignal PROVE AnswerIntact'
  BY <1>19 DEF WorkerSignal
<1>20. ASSUME WorkerFree PROVE AnswerIntact'
  BY <1>20 DEF WorkerFree
<1>21. CASE UNCHANGED vars
  BY <1>21 DEF vars
<1> QED
  BY <1>1, <1>2, <1>3, <1>4, <1>5, <1>6, <1>7, <1>8, <1>9, <1>10, <1>11,
     <1>12, <1>13, <1>14, <1>15, <1>16, <1>17, <1>18, <1>19, <1>20, <1>21
  DEF Next, HookStep, Environment, WorkerStep

-----------------------------------------------------------------------------
(* The invariants.  Each is inductive relative to the ones before it: the  *)
(* answer to a request is traced through slots that no two parties share.  *)
IInv == TypeOK /\ SlotOwnership /\ OneAnswer /\ AnswerIntact

LEMMA InitIInv == Init => IInv
  BY FirstSlot
  DEF Init, IInv, TypeOK, SlotOwnership, OneAnswer, AnswerIntact, InFlight, Holds, Worked,
      BufferIs, HookStates, WorkerStates, BufferStates, Statuses, Bytes

LEMMA NextIInv == IInv /\ [Next]_vars => IInv'
  BY TypeStep, OwnershipStep, OneAnswerStep, AnswerStep DEF IInv

LEMMA Invariance == Spec => []IInv
  BY InitIInv, NextIInv, PTL DEF Spec

(* Every variable keeps its type, for any number of requests and slots.    *)
THEOREM TypeCorrect == Spec => []TypeOK
<1>1. IInv => TypeOK
  BY DEF IInv
<1> QED
  BY <1>1, Invariance, PTL

(* No slot of overlappedEmuData is shared by two parties, given back while *)
(* it is used, or leaked, whatever the pool size.                          *)
THEOREM SlotsOwned == Spec => []SlotOwnership
<1>1. IInv => SlotOwnership
  BY DEF IInv
<1> QED
  BY <1>1, Invariance, PTL

(* An accepted request is answered once, and nobody else is.               *)
THEOREM AnsweredOnce == Spec => []OneAnswer
<1>1. IInv => OneAnswer
  BY DEF IInv
<1> QED
  BY <1>1, Invariance, PTL

(* The answer is the kernel's, and its buffer has been filtered.           *)
THEOREM AnswersIntact == Spec => []AnswerIntact
<1>1. IInv => AnswerIntact
  BY DEF IInv
<1> QED
  BY <1>1, Invariance, PTL

-----------------------------------------------------------------------------
(* Action properties.                                                      *)

(* Nobody but the emulation thread touches the slot it works on.           *)
THEOREM WorkedSlotsStable == Spec => WorkedSlotStable
<1>1. IInv /\ [Next]_vars =>
        [\A s \in Slots : Worked(s) =>
           /\ <<owner[s], internal[s], high[s]>>' = <<owner[s], internal[s], high[s]>>
           /\ inUse'[s] = inUse[s] \/ (wpc = "free" /\ wpc' = "wait")]_vars
  <2> SUFFICES ASSUME IInv, Next, NEW s \in Slots, Worked(s)
               PROVE /\ <<owner[s], internal[s], high[s]>>' = <<owner[s], internal[s], high[s]>>
                     /\ inUse'[s] = inUse[s] \/ (wpc = "free" /\ wpc' = "wait")
    OBVIOUS
  <2> USE DEF IInv, TypeOK, SlotOwnership, Holds, Worked, dataVars, slotVars, workerVars
  <2>1. CASE \E r \in Requests : Issue(r)
    BY <2>1 DEF Issue
  <2>2. CASE \E r \in Requests : Claim(r)
    BY <2>2 DEF Claim
  <2>3. CASE \E r \in Requests : Skip(r)
    BY <2>3 DEF Skip
  <2>4. CASE \E r \in Requests : Wake(r)
    BY <2>4 DEF Wake
  <2>5. CASE \E r \in Requests : Fill(r)
    BY <2>5 DEF Fill
  <2>6. CASE \E r \in Requests : Accept(r)
    BY <2>6 DEF Accept
  <2>7. CASE \E r \in Requests : Reject(r)
    BY <2>7 DEF Reject
  <2>8. CASE \E r \in Requests : EmulateOverlappedRelease(r)
    BY <2>8 DEF EmulateOverlappedRelease
  <2>9. CASE \E r \in Requests, o \in Outcomes : SyncReturn(r, o)
    BY <2>9 DEF SyncReturn
  <2>10. CASE \E r \in Requests : SyncFail(r)
    BY <2>10 DEF SyncFail
  <2>11. CASE \E r \in Requests : SyncFilter(r)
    BY <2>11 DEF SyncFilter
  <2>12. CASE \E t \in Slots, o \in Outcomes : Complete(t, o)
    BY <2>12 DEF Complete
  <2>13. CASE \E r \in Requests : Consume(r)
    BY <2>13 DEF Consume
  <2>14. CASE \E r \in Requests : ConsumeSync(r)
    BY <2>14 DEF ConsumeSync
  <2>15. CASE WorkerWait
    BY <2>15 DEF WorkerWait
  <2>16. CASE WorkerFilter
    BY <2>16 DEF WorkerFilter
  <2>17. CASE WorkerCopyInternal
    BY <2>17 DEF WorkerCopyInternal
  <2>18. CASE WorkerCopyHigh
    BY <2>18 DEF WorkerCopyHigh
  <2>19. CASE WorkerSignal
    BY <2>19 DEF WorkerSignal
  <2>20. CASE WorkerFree
    BY <2>20 DEF WorkerFree
  <2> QED
    BY <2>1, <2>2, <2>3, <2>4, <2>5, <2>6, <2>7, <2>8, <2>9, <2>10,
       <2>11, <2>12, <2>13, <2>14, <2>15, <2>16, <2>17, <2>18, <2>19, <2>20
    DEF Next, HookStep, Environment, WorkerStep
<1> QED
  BY <1>1, Invariance, PTL DEF Spec, WorkedSlotStable

(* What the caller was told stays as it is until the caller takes it.      *)
THEOREM DeliveredAnswersStable == Spec => DeliveredStable
<1>1. IInv /\ [Next]_vars =>
        [\A r \in Requests : realEvent[r] /\ realEvent'[r] =>
           <<realInternal[r], realHigh[r], buf[r]>>' = <<realInternal[r], realHigh[r], buf[r]>>]_vars
  <2> SUFFICES ASSUME IInv, Next, NEW q \in Requests, realEvent[q], realEvent'[q]
               PROVE <<realInternal[q], realHigh[q], buf[q]>>' = <<realInternal[q], realHigh[q], buf[q]>>
    OBVIOUS
  <2> USE DEF IInv, TypeOK, OneAnswer, InFlight, Worked, realVars, callerVars
  <2>1. CASE \E r \in Requests : Issue(r)
    BY <2>1 DEF Issue
  <2>2. CASE \E r \in Requests : Claim(r)
    BY <2>2 DEF Claim
  <2>3. CASE \E r \in Requests : Skip(r)
    BY <2>3 DEF Skip
  <2>4. CASE \E r \in Requests : Wake(r)
    BY <2>4 DEF Wake
  <2>5. CASE \E r \in Requests : Fill(r)
    BY <2>5 DEF Fill
  <2>6. CASE \E r \in Requests : Accept(r)
    BY <2>6 DEF Accept
  <2>7. CASE \E r \in Requests : Reject(r)
    BY <2>7 DEF Reject
  <2>8. CASE \E r \in Requests : EmulateOverlappedRelease(r)
    BY <2>8 DEF EmulateOverlappedRelease
  <2>9. CASE \E r \in Requests, o \in Outcomes : SyncReturn(r, o)
    BY <2>9 DEF SyncReturn
  <2>10. CASE \E r \in Requests : SyncFail(r)
    BY <2>10 DEF SyncFail
  <2>11. CASE \E r \in Requests : SyncFilter(r)
    BY <2>11 DEF SyncFilter
  <2>12. CASE \E t \in Slots, o \in Outcomes : Complete(t, o)
    BY <2>12 DEF Complete
  <2>13. CASE \E r \in Requests : Consume(r)
    BY <2>13 DEF Consume
  <2>14. CASE \E r \in Requests : ConsumeSync(r)
    BY <2>14 DEF ConsumeSync
  <2>15. CASE WorkerWait
    BY <2>15 DEF WorkerWait
  <2>16. CASE WorkerFilter
    BY <2>16 DEF WorkerFilter
  <2>17. CASE WorkerCopyInternal
    BY <2>17 DEF WorkerCopyInternal
  <2>18. CASE WorkerCopyHigh
    BY <2>18 DEF WorkerCopyHigh
  <2>19. CASE WorkerSignal
    BY <2>19 DEF WorkerSignal
  <2>20. CASE WorkerFree
    BY <2>20 DEF WorkerFree
  <2> QED
    BY <2>1, <2>2, <2>3, <2>4, <2>5, <2>6, <2>7, <2>8, <2>9, <2>10,
       <2>11, <2>12, <2>13, <2>14, <2>15, <2>16, <2>17, <2>18, <2>19, <2>20
    DEF Next, HookStep, Environment, WorkerStep
<1> QED
  BY <1>1, Invariance, PTL DEF Spec, DeliveredStable

-----------------------------------------------------------------------------
(* The emulator implements WatchService.                                   *)

(* The mapping changes at one request alone.                               *)
LEMMA PhaseAt ==
  ASSUME NEW r \in Requests, NEW p, Phase(r)' = p,
         \A q \in Requests \ {r} : Phase(q)' = Phase(q)
  PROVE  phaseBar' = [phaseBar EXCEPT ![r] = p]
  BY DEF phaseBar

LEMMA SeenAt ==
  ASSUME NEW r \in Requests, NEW z, Seen(r)' = z,
         \A q \in Requests \ {r} : Seen(q)' = Seen(q)
  PROVE  seenBar' = [seenBar EXCEPT ![r] = z]
  BY DEF seenBar

LEMMA MappingSame ==
  ASSUME \A q \in Requests : Phase(q)' = Phase(q) /\ Seen(q)' = Seen(q)
  PROVE  UNCHANGED <<phaseBar, seenBar>>
  BY DEF phaseBar, seenBar

(* What the caller reads once its event is set is the answer the abstract  *)
(* specification gives: this is where AnswerIntact is needed.              *)
LEMMA SeenIsAnswer ==
  IInv => \A r \in Requests :
            realEvent[r] \/ hook[r] = "returned" => Seen(r) = Watch!Answer(outcome[r])
<1> SUFFICES ASSUME IInv, NEW r \in Requests, realEvent[r] \/ hook[r] = "returned"
             PROVE  Seen(r) = Watch!Answer(outcome[r])
  OBVIOUS
<1>1. CASE realEvent[r]
  <2>1. /\ outcome[r] \in Outcomes
        /\ realInternal[r] = outcome[r].internal
        /\ realHigh[r] = outcome[r].high
        /\ outcome[r].high # 0 => buf[r] = "filtered"
    BY <1>1 DEF IInv, TypeOK, AnswerIntact, BufferIs
  <2>2. outcome[r] = [internal |-> outcome[r].internal, high |-> outcome[r].high]
    BY <2>1 DEF Outcomes
  <2> QED
    BY <1>1, <2>1, <2>2 DEF Seen, Reading, Watch!Answer
<1>2. CASE hook[r] = "returned" /\ ~realEvent[r]
  <2>1. outcome[r].high # 0 => buf[r] = "filtered"
    BY <1>2 DEF IInv, AnswerIntact, BufferIs
  <2> QED
    BY <1>2, <2>1 DEF Seen, Reading, Watch!Answer
<1> QED
  BY <1>1, <1>2

LEMMA SeenIsAnswerNext ==
  IInv' => \A r \in Requests :
             (realEvent[r] \/ hook[r] = "returned")' => Seen(r)' = Watch!Answer(outcome[r])'
<1>1. (IInv => \A r \in Requests :
             realEvent[r] \/ hook[r] = "returned" => Seen(r) = Watch!Answer(outcome[r]))'
  BY SeenIsAnswer, PTL
<1> QED
  BY <1>1

LEMMA InitMaps == Init => Watch!Init
  BY DEF Init, Watch!Init, phaseBar, Phase, seenBar, Seen, Reading, Watch!Nothing, NoOutcome

(* Every step of the emulator is a step of WatchService or a stutter.      *)
LEMMA StepMaps == IInv /\ IInv' /\ [Next]_vars => [Watch!Next]_(Watch!vars)
<1> SUFFICES ASSUME IInv, IInv', [Next]_vars PROVE [Watch!Next]_(Watch!vars)
  OBVIOUS
<1> DEFINE Stutter == UNCHANGED <<phaseBar, outcome, seenBar>>
<1> USE DEF IInv, TypeOK, HookStates, hookVars, dataVars, slotVars, workerVars, realVars, callerVars
<1>1. ASSUME NEW r \in Requests, Issue(r) PROVE Watch!Issue(r)
  <2>1. /\ Phase(r) = "idle" /\ Phase(r)' = "issued"
        /\ \A q \in Requests \ {r} : Phase(q)' = Phase(q)
    BY <1>1 DEF Issue, Phase, OneAnswer, AnswerIntact, InFlight, Worked
  <2>2. phaseBar' = [phaseBar EXCEPT ![r] = "issued"] /\ phaseBar[r] = "idle"
    BY <2>1, PhaseAt DEF phaseBar
  <2>3. \A q \in Requests : Seen(q)' = Seen(q)
    BY <1>1 DEF Issue, Seen, OneAnswer, AnswerIntact, InFlight, Worked
  <2>4. seenBar' = seenBar
    BY <2>3 DEF seenBar
  <2> QED
    BY <1>1, <2>2, <2>4 DEF Issue, Watch!Issue
<1>2. ASSUME NEW r \in Requests, Claim(r) PROVE Stutter
  <2>1. outcome' = outcome /\ \A q \in Requests : Phase(q)' = Phase(q) /\ Seen(q)' = Seen(q)
    BY <1>2 DEF Claim, Phase, Seen, OneAnswer, AnswerIntact, InFlight, Worked
  <2> QED
    BY <2>1, MappingSame
<1>3. ASSUME NEW r \in Requests, Skip(r) PROVE Stutter
  <2>1. outcome' = outcome /\ \A q \in Requests : Phase(q)' = Phase(q) /\ Seen(q)' = Seen(q)
    BY <1>3 DEF Skip, Phase, Seen, OneAnswer, AnswerIntact, InFlight, Worked
  <2> QED
    BY <2>1, MappingSame
<1>4. ASSUME NEW r \in Requests, Wake(r) PROVE Stutter
  <2>1. outcome' = outcome /\ \A q \in Requests : Phase(q)' = Phase(q) /\ Seen(q)' = Seen(q)
    BY <1>4 DEF Wake, Phase, Seen, OneAnswer, AnswerIntact, InFlight, Worked
  <2> QED
    BY <2>1, MappingSame
<1>5. ASSUME NEW r \in Requests, Fill(r) PROVE Stutter
  <2>1. outcome' = outcome /\ \A q \in Requests : Phase(q)' = Phase(q) /\ Seen(q)' = Seen(q)
    BY <1>5 DEF Fill, Phase, Seen, OneAnswer, AnswerIntact, InFlight, Worked
  <2> QED
    BY <2>1, MappingSame
<1>6. ASSUME NEW r \in Requests, Accept(r) PROVE Stutter
  <2>1. outcome' = outcome /\ \A q \in Requests : Phase(q)' = Phase(q) /\ Seen(q)' = Seen(q)
    BY <1>6 DEF Accept, Phase, Seen, OneAnswer, AnswerIntact, InFlight, Worked
  <2> QED
    BY <2>1, MappingSame
<1>7. ASSUME NEW r \in Requests, Reject(r) PROVE Stutter
  <2>1. outcome' = outcome /\ \A q \in Requests : Phase(q)' = Phase(q) /\ Seen(q)' = Seen(q)
    BY <1>7 DEF Reject, Phase, Seen, OneAnswer, AnswerIntact, InFlight, Worked
  <2> QED
    BY <2>1, MappingSame
<1>8. ASSUME NEW r \in Requests, EmulateOverlappedRelease(r) PROVE Watch!Refuse(r)
  <2>1. /\ Phase(r) = "issued" /\ Phase(r)' = "idle"
        /\ \A q \in Requests \ {r} : Phase(q)' = Phase(q)
    BY <1>8 DEF EmulateOverlappedRelease, Phase, OneAnswer, AnswerIntact, InFlight, Worked
  <2>2. phaseBar' = [phaseBar EXCEPT ![r] = "idle"] /\ phaseBar[r] = "issued"
    BY <2>1, PhaseAt DEF phaseBar
  <2>3. \A q \in Requests : Seen(q)' = Seen(q)
    BY <1>8 DEF EmulateOverlappedRelease, Seen, OneAnswer, AnswerIntact, InFlight, Worked
  <2>4. seenBar' = seenBar
    BY <2>3 DEF seenBar
  <2> QED
    BY <1>8, <2>2, <2>4 DEF EmulateOverlappedRelease, Watch!Refuse
<1>9. ASSUME NEW r \in Requests, NEW o \in Outcomes, SyncReturn(r, o) PROVE Watch!Complete(r, o)
  <2>1. /\ Phase(r) = "issued" /\ Phase(r)' = "completed"
        /\ \A q \in Requests \ {r} : Phase(q)' = Phase(q)
    BY <1>9, OutcomeFields DEF SyncReturn, Phase, OneAnswer, AnswerIntact, InFlight, Worked
  <2>2. phaseBar' = [phaseBar EXCEPT ![r] = "completed"] /\ phaseBar[r] = "issued"
    BY <2>1, PhaseAt DEF phaseBar
  <2>3. \A q \in Requests : Seen(q)' = Seen(q)
    BY <1>9 DEF SyncReturn, Seen, OneAnswer, AnswerIntact, InFlight, Worked
  <2>4. seenBar' = seenBar
    BY <2>3 DEF seenBar
  <2> QED
    BY <1>9, <2>2, <2>4 DEF SyncReturn, Watch!Complete
<1>10. ASSUME NEW r \in Requests, SyncFail(r) PROVE Watch!Refuse(r)
  <2>1. /\ Phase(r) = "issued" /\ Phase(r)' = "idle"
        /\ \A q \in Requests \ {r} : Phase(q)' = Phase(q)
    BY <1>10 DEF SyncFail, Phase, OneAnswer, AnswerIntact, InFlight, Worked
  <2>2. phaseBar' = [phaseBar EXCEPT ![r] = "idle"] /\ phaseBar[r] = "issued"
    BY <2>1, PhaseAt DEF phaseBar
  <2>3. \A q \in Requests : Seen(q)' = Seen(q)
    BY <1>10 DEF SyncFail, Seen, OneAnswer, AnswerIntact, InFlight, Worked
  <2>4. seenBar' = seenBar
    BY <2>3 DEF seenBar
  <2> QED
    BY <1>10, <2>2, <2>4 DEF SyncFail, Watch!Refuse
<1>11. ASSUME NEW r \in Requests, SyncFilter(r) PROVE Watch!Deliver(r)
  <2>1. /\ Phase(r) = "completed" /\ Phase(r)' = "delivered"
        /\ \A q \in Requests \ {r} : Phase(q)' = Phase(q)
    BY <1>11 DEF SyncFilter, Phase, OneAnswer, AnswerIntact, InFlight, Worked
  <2>2. phaseBar' = [phaseBar EXCEPT ![r] = "delivered"] /\ phaseBar[r] = "completed"
    BY <2>1, PhaseAt DEF phaseBar
  <2>3. Seen(r)' = Watch!Answer(outcome[r])
    BY <1>11, SeenIsAnswerNext DEF SyncFilter, Watch!Answer
  <2>4. \A q \in Requests \ {r} : Seen(q)' = Seen(q)
    BY <1>11 DEF SyncFilter, Seen
  <2>5. seenBar' = [seenBar EXCEPT ![r] = Watch!Answer(outcome[r])]
    BY <2>3, <2>4, SeenAt
  <2> QED
    BY <1>11, <2>2, <2>5 DEF SyncFilter, Watch!Deliver
<1>12. ASSUME NEW s \in Slots, NEW o \in Outcomes, Complete(s, o) PROVE Watch!Complete(owner[s], o)
  <2>0. PICK r \in Requests : r = owner[s]
    BY <1>12 DEF Complete, OneAnswer, InFlight, Worked
  <2>1. /\ Phase(r) = "issued" /\ Phase(r)' = "completed"
        /\ \A q \in Requests \ {r} : Phase(q)' = Phase(q)
    BY <2>0, <1>12, OutcomeFields DEF Complete, Phase, OneAnswer, AnswerIntact, InFlight, Worked
  <2>2. phaseBar' = [phaseBar EXCEPT ![r] = "completed"] /\ phaseBar[r] = "issued"
    BY <2>0, <2>1, PhaseAt DEF phaseBar
  <2>3. \A q \in Requests : Seen(q)' = Seen(q)
    BY <2>0, <1>12 DEF Complete, Seen, OneAnswer, AnswerIntact, InFlight, Worked
  <2>4. seenBar' = seenBar
    BY <2>3 DEF seenBar
  <2> QED
    BY <2>0, <1>12, <2>2, <2>4 DEF Complete, Watch!Complete
<1>13. ASSUME NEW r \in Requests, Consume(r) PROVE Watch!Consume(r)
  <2>1. /\ Phase(r) = "delivered" /\ Phase(r)' = "idle"
        /\ \A q \in Requests \ {r} : Phase(q)' = Phase(q)
    BY <1>13 DEF Consume, Phase, OneAnswer, AnswerIntact, InFlight, Worked
  <2>2. phaseBar' = [phaseBar EXCEPT ![r] = "idle"] /\ phaseBar[r] = "delivered"
    BY <2>1, PhaseAt DEF phaseBar
  <2>3. Seen(r)' = Watch!Nothing
    BY <1>13 DEF Consume, Seen, Reading, Watch!Nothing, OneAnswer
  <2>4. \A q \in Requests \ {r} : Seen(q)' = Seen(q)
    BY <1>13 DEF Consume, Seen
  <2>5. seenBar' = [seenBar EXCEPT ![r] = Watch!Nothing]
    BY <2>3, <2>4, SeenAt
  <2> QED
    BY <1>13, <2>2, <2>5 DEF Consume, Watch!Consume
<1>14. ASSUME NEW r \in Requests, ConsumeSync(r) PROVE Watch!Consume(r)
  <2>1. /\ Phase(r) = "delivered" /\ Phase(r)' = "idle"
        /\ \A q \in Requests \ {r} : Phase(q)' = Phase(q)
    BY <1>14 DEF ConsumeSync, Phase, OneAnswer, AnswerIntact, InFlight, Worked
  <2>2. phaseBar' = [phaseBar EXCEPT ![r] = "idle"] /\ phaseBar[r] = "delivered"
    BY <2>1, PhaseAt DEF phaseBar
  <2>3. Seen(r)' = Watch!Nothing
    BY <1>14 DEF ConsumeSync, Seen, Reading, Watch!Nothing, OneAnswer
  <2>4. \A q \in Requests \ {r} : Seen(q)' = Seen(q)
    BY <1>14 DEF ConsumeSync, Seen
  <2>5. seenBar' = [seenBar EXCEPT ![r] = Watch!Nothing]
    BY <2>3, <2>4, SeenAt
  <2> QED
    BY <1>14, <2>2, <2>5 DEF ConsumeSync, Watch!Consume
<1>15. ASSUME WorkerWait PROVE Stutter
  <2>1. outcome' = outcome /\ \A q \in Requests : Phase(q)' = Phase(q) /\ Seen(q)' = Seen(q)
    BY <1>15 DEF WorkerWait, Phase, Seen, OneAnswer, AnswerIntact, InFlight, Worked
  <2> QED
    BY <2>1, MappingSame
<1>16. ASSUME WorkerFilter PROVE Stutter
  <2>1. outcome' = outcome /\ \A q \in Requests : Phase(q)' = Phase(q) /\ Seen(q)' = Seen(q)
    BY <1>16 DEF WorkerFilter, Phase, Seen, OneAnswer, AnswerIntact, InFlight, Worked
  <2> QED
    BY <2>1, MappingSame
<1>17. ASSUME WorkerCopyInternal PROVE Stutter
  <2>1. outcome' = outcome /\ \A q \in Requests : Phase(q)' = Phase(q) /\ Seen(q)' = Seen(q)
    BY <1>17 DEF WorkerCopyInternal, Phase, Seen, OneAnswer, AnswerIntact, InFlight, Worked
  <2> QED
    BY <2>1, MappingSame
<1>18. ASSUME WorkerCopyHigh PROVE Stutter
  <2>1. outcome' = outcome /\ \A q \in Requests : Phase(q)' = Phase(q) /\ Seen(q)' = Seen(q)
    BY <1>18 DEF WorkerCopyHigh, Phase, Seen, OneAnswer, AnswerIntact, InFlight, Worked
  <2> QED
    BY <2>1, MappingSame
<1>19. ASSUME WorkerSignal PROVE Watch!Deliver(owner[cur])
  <2>0. PICK r \in Requests : r = owner[cur]
    BY <1>19 DEF WorkerSignal, OneAnswer, InFlight, Worked
  <2>1. /\ Phase(r) = "completed" /\ Phase(r)' = "delivered"
        /\ \A q \in Requests \ {r} : Phase(q)' = Phase(q)
    BY <2>0, <1>19 DEF WorkerSignal, Phase, OneAnswer, AnswerIntact, InFlight, Worked
  <2>2. phaseBar' = [phaseBar EXCEPT ![r] = "delivered"] /\ phaseBar[r] = "completed"
    BY <2>0, <2>1, PhaseAt DEF phaseBar
  <2>3. Seen(r)' = Watch!Answer(outcome[r])
    BY <2>0, <1>19, SeenIsAnswerNext DEF WorkerSignal, Watch!Answer
  <2>4. \A q \in Requests \ {r} : Seen(q)' = Seen(q)
    BY <2>0, <1>19 DEF WorkerSignal, Seen
  <2>5. seenBar' = [seenBar EXCEPT ![r] = Watch!Answer(outcome[r])]
    BY <2>0, <2>3, <2>4, SeenAt
  <2> QED
    BY <2>0, <1>19, <2>2, <2>5 DEF WorkerSignal, Watch!Deliver
<1>20. ASSUME WorkerFree PROVE Stutter
  <2>1. outcome' = outcome /\ \A q \in Requests : Phase(q)' = Phase(q) /\ Seen(q)' = Seen(q)
    BY <1>20 DEF WorkerFree, Phase, Seen, OneAnswer, AnswerIntact, InFlight, Worked
  <2> QED
    BY <2>1, MappingSame
<1>21. CASE UNCHANGED vars
  BY <1>21 DEF vars, Watch!vars, phaseBar, seenBar, Phase, Seen
<1>22. \A s \in Slots : (s \in irp => owner[s] \in Requests) /\ (wpc = "signal" => owner[cur] \in Requests)
  BY DEF OneAnswer, InFlight, Worked
<1> QED
  BY <1>1, <1>2, <1>3, <1>4, <1>5, <1>6, <1>7, <1>8, <1>9, <1>10, <1>11,
     <1>12, <1>13, <1>14, <1>15, <1>16, <1>17, <1>18, <1>19, <1>20, <1>21, <1>22
  DEF Next, HookStep, Environment, WorkerStep, Watch!Next, Watch!vars, Complete, WorkerSignal

(* Callers, kernel and emulation thread together give the service that     *)
(* WatchService describes: the refinement holds for every pool size.       *)
THEOREM Implementation == Spec => ImplementsWatchService
<1>1. Spec => []IInv
  BY Invariance
<1> QED
  BY <1>1, InitMaps, StepMaps, PTL DEF Spec, ImplementsWatchService, Watch!Spec

=============================================================================
