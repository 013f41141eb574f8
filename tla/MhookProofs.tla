---------------------------- MODULE MhookProofs ----------------------------
(***************************************************************************)
(* Proofs about Mhook for any functions, threads, table and tries.         *)
(***************************************************************************)
EXTENDS Mhook, FiniteSetTheorems, TLAPS

-----------------------------------------------------------------------------
(* The inductive invariant.                                                *)

Suspending == {"suspend", "look", "retry"}
Hooking    == {"alloc", "protect", "copy", "patch", "patched", "publish"}
Unhooking  == {"unprotect", "restore", "restored", "unpublish"}

(* What the code, the pointer and the table say of a function.             *)
Unhooked(f) == f \notin hooks /\ code[f] = "original" /\ pointer[f] = "system"
Redirected(f) == f \in hooks /\ trampoline[f] = "ready" /\ pointer[f] = "trampoline"
Settled(f) == Unhooked(f) \/ (Redirected(f) /\ code[f] = "jump")

(* Every function but the one at hand is settled, and Hook has not come to *)
(* those behind it.                                                        *)
TableInv ==
  /\ IsFiniteSet(hooks) /\ hooksInUse = Cardinality(hooks)
  /\ \A f \in Funcs \ {f0} : Settled(f)
  /\ op = "hook" /\ pc # "attached" /\ pc # "detached" =>
       \A i \in index + 1 .. Len(Functions) : Unhooked(Functions[i])
  /\ pc = "load" => index = 1

(* How far the function at hand is.                                        *)
StageInv ==
  /\ pc \in Hooking \cup {"load", "attached"} => op = "hook"
  /\ pc \in Unhooking => op = "unhook"
  /\ op = "hook" /\ pc \in {"load", "begin", "snapshot", "alloc"} \cup Suspending => Unhooked(f0)
  /\ op = "unhook" /\ pc \in {"snapshot", "unprotect", "restore"} \cup Suspending =>
       Redirected(f0) /\ code[f0] = "jump"
  /\ pc \in {"begin", "leave", "resume", "attached", "detached"} => Settled(f0)
  /\ pc \in {"protect", "copy", "patch", "patched", "publish"} =>
       f0 \in hooks /\ pointer[f0] = "system"
  /\ pc \in {"protect", "copy", "patch"} => code[f0] = "original"
  /\ pc \in {"patch", "patched", "publish"} => trampoline[f0] = "ready"
  /\ pc = "publish" => code[f0] = "jump"
  /\ pc \in {"restored", "unpublish"} => Redirected(f0)
  /\ pc = "unpublish" => code[f0] = "original"

(* Where the handles of the suspended threads are.                         *)
HandlesInv ==
  /\ handles \subseteq suspended
  /\ pc # "look" => suspended = handles
  /\ pc = "look" => suspended = handles \cup {checking}
  /\ pc \in {"look", "retry"} => checking \in Threads \ (handles \cup snapshot)
  /\ pc = "retry" => tries < MaxTries
  /\ pc \in Suspending => snapshot \cap handles = {}
  /\ pc \notin Suspending => snapshot = {}
  /\ pc \notin Work \/ pc = "snapshot" => handles = {}

(* A thread that was there from the snapshot on, and could be suspended    *)
(* and looked at, is yet to be, or is kept outside of the bytes.           *)
CheckedInv ==
  \A t \in Threads \ missed :
    /\ place[t] # "unborn" /\ pc \in Suspending \cup Hooking \cup Unhooking =>
         \/ t \in snapshot \cup handles
         \/ pc \in {"look", "retry"} /\ t = checking
    /\ t \in handles /\ pc # "resume" => ~Collides(t)

(* Where it may be.                                                        *)
PlaceInv ==
  \A t \in Threads \ missed :
    /\ t \notin lost /\ t \notin recursed
    /\ place[t] = "inside" => code[func[t]] = "original"
    /\ place[t] = "again" => op = "unhook" /\ func[t] \notin hooks
    /\ place[t] \in {"hook", "trampoline"} /\ op = "hook" => pointer[func[t]] = "trampoline"
    /\ place[t] = "trampoline" => trampoline[func[t]] = "ready"

IInv == TypeOK /\ TableInv /\ StageInv /\ HandlesInv /\ CheckedInv /\ PlaceInv

-----------------------------------------------------------------------------
(* The function at hand.                                                   *)
LEMMA Lengths == Len(Functions) \in Nat /\ Len(Functions) > 0
<1>1. Len(Functions) \in Nat /\ (Len(Functions) = 0 => Functions = <<>>)
  BY FunctionsAssumption
<1> QED
  BY <1>1, FunctionsAssumption

LEMMA AtHand ==
  ASSUME TypeOK
  PROVE  /\ index \in 1 .. Len(Functions)
         /\ f0 \in Funcs
         /\ \A i \in index + 1 .. Len(Functions) :
              i \in 1 .. Len(Functions) /\ Functions[i] \in Funcs \ {f0}
<1>1. index \in 1 .. Len(Functions)
  BY DEF TypeOK
<1>2. ASSUME NEW i \in index + 1 .. Len(Functions)
      PROVE  i \in 1 .. Len(Functions) /\ i # index
  BY <1>1, Lengths
<1> QED
  BY <1>1, <1>2, DistinctAssumption DEF Funcs, f0

(* The next one, and the first one.                                        *)
LEMMA Others ==
  ASSUME NEW i \in 1 .. Len(Functions), NEW j \in 1 .. Len(Functions), i # j
  PROVE  Functions[i] \in Funcs /\ Functions[i] # Functions[j]
  BY DistinctAssumption DEF Funcs

LEMMA TypeInit == Init => TypeOK
<1>1. 1 \in 1 .. Len(Functions) /\ Functions[1] \in Funcs
  BY Lengths DEF Funcs
<1>2. Init => place \in [Threads -> Places] /\ func \in [Threads -> Funcs]
  BY <1>1 DEF Init, Places
<1>3. 0 \in 0 .. MaxHooks /\ 0 \in 0 .. MaxTries
  BY BoundsAssumption
<1>4. Init => /\ code \in [Funcs -> {"original", "torn", "jump"}]
              /\ pointer \in [Funcs -> {"system", "trampoline"}]
              /\ trampoline \in [Funcs -> {"none", "empty", "ready"}]
  BY DEF Init
<1> QED
  BY <1>1, <1>2, <1>3, <1>4 DEF Init, TypeOK, Work

(* A table that is counted fits.                                           *)
LEMMA Count ==
  ASSUME IsFiniteSet(hooks), hooksInUse = Cardinality(hooks), NEW f \in Funcs
  PROVE  /\ hooksInUse \in Nat
         /\ IsFiniteSet(hooks \ {f}) /\ IsFiniteSet(hooks \cup {f})
         /\ f \in hooks => Cardinality(hooks \ {f}) = hooksInUse - 1 /\ hooksInUse - 1 \in Nat
         /\ f \notin hooks => Cardinality(hooks \cup {f}) = hooksInUse + 1
  BY FS_CardinalityType, FS_AddElement, FS_RemoveElement

(* Every step keeps the types.                                             *)
LEMMA TypeStep == IInv /\ [Next]_vars => TypeOK'
<1> SUFFICES ASSUME IInv, [Next]_vars PROVE TypeOK'
  OBVIOUS
<1> USE DEF TypeOK, Work, Places, memory, walking, stopping, control
<1>a. TypeOK /\ TableInv /\ StageInv /\ HandlesInv
  BY DEF IInv
<1>f. f0 \in Funcs
  BY <1>a, AtHand
<1>l. Len(Functions) \in Nat
  BY Lengths
<1>1. CASE Begin
  BY <1>a, <1>1 DEF Begin
<1>2. CASE Leave
  <2>1. index' \in 1 .. Len(Functions)
    BY <1>a, <1>l, <1>2 DEF Leave
  <2>2. pc' \in {"begin", "attached", "detached"} /\ hooked' \in BOOLEAN
    BY <1>a, <1>2 DEF Leave
  <2> QED
    BY <1>a, <2>1, <2>2, <1>2 DEF Leave
<1>3. CASE Snapshot
  BY <1>a, <1>3 DEF Snapshot
<1>4. CASE Look
  BY <1>a, <1>4 DEF Look, Hold, HandlesInv
<1>5. CASE Retry
  BY <1>a, <1>5, BoundsAssumption DEF Retry, HandlesInv
<1>6. CASE AllSuspended
  BY <1>a, <1>6, BoundsAssumption DEF AllSuspended
<1>7. CASE ResumeOtherThreads
  BY <1>a, <1>7 DEF ResumeOtherThreads
<1>8. CASE TrampolineAlloc
  BY <1>a, <1>f, <1>8, BoundsAssumption DEF TrampolineAlloc
<1>9. CASE Protect
  <2>1. hooksInUse' \in 0 .. MaxHooks
    <3>1. f0 \in hooks /\ IsFiniteSet(hooks) /\ hooksInUse = Cardinality(hooks)
      BY <1>a, <1>9 DEF Protect, TableInv, StageInv
    <3>2. hooksInUse - 1 \in Nat /\ hooksInUse \in 0 .. MaxHooks
      BY <1>a, <1>f, <3>1, Count
    <3> QED
      BY <3>2, <1>9, BoundsAssumption DEF Protect
  <2> QED
    BY <1>a, <1>9, <2>1 DEF Protect
<1>10. CASE Copy
  BY <1>a, <1>10 DEF Copy
<1>11. CASE Patch
  BY <1>a, <1>11 DEF Patch
<1>12. CASE Publish
  BY <1>a, <1>12 DEF Publish
<1>13. CASE Unprotect
  BY <1>a, <1>13 DEF Unprotect
<1>14. CASE Restore
  BY <1>a, <1>14 DEF Restore
<1>15. CASE Unpublish
  <2>1. hooksInUse' \in 0 .. MaxHooks
    <3>1. f0 \in hooks /\ IsFiniteSet(hooks) /\ hooksInUse = Cardinality(hooks)
      BY <1>a, <1>15 DEF Unpublish, TableInv, StageInv, Redirected
    <3>2. hooksInUse - 1 \in Nat /\ hooksInUse \in 0 .. MaxHooks
      BY <1>a, <1>f, <3>1, Count
    <3> QED
      BY <3>2, <1>15, BoundsAssumption DEF Unpublish
  <2> QED
    BY <1>a, <1>15, <2>1 DEF Unpublish
<1>16. ASSUME NEW t \in Threads, Suspend(t) PROVE TypeOK'
  BY <1>a, <1>16, BoundsAssumption DEF Suspend
<1>17. CASE Attach
  BY <1>a, <1>17 DEF Attach
<1>18. CASE Detatch
  BY <1>a, Lengths, <1>18 DEF Detatch
<1>19. ASSUME NEW t \in Threads, Birth(t) PROVE TypeOK'
  BY <1>a, <1>19 DEF Birth
<1>20. ASSUME NEW t \in Threads, Execute(t) PROVE TypeOK'
  <2>1. Following(t) \in Places \cup {"lost"}
    BY <1>20 DEF Following
  <2>2. Functions[1] \in Funcs
    BY Lengths DEF Funcs
  <2> QED
    BY <1>a, <1>20, <2>1, <2>2 DEF Execute
<1>21. ASSUME NEW t \in Threads, NEW f \in Funcs, Call(t, f) PROVE TypeOK'
  BY <1>a, <1>21 DEF Call
<1>22. CASE UNCHANGED vars
  BY <1>a, <1>22 DEF vars
<1> QED
  BY <1>1, <1>2, <1>3, <1>4, <1>5, <1>6, <1>7, <1>8, <1>9, <1>10, <1>11, <1>12, <1>13, <1>14,
     <1>15, <1>16, <1>17, <1>18, <1>19, <1>20, <1>21, <1>22 DEF Next, HookingStep

(* The threads, and the actions that do not touch a function, leave the    *)
(* table and the function at hand.                                         *)
LEMMA Kept ==
  ASSUME UNCHANGED <<memory, index, op>>
  PROVE  /\ f0' = f0
         /\ \A f \in Funcs : Settled(f)' <=> Settled(f)
         /\ \A f \in Funcs : Unhooked(f)' <=> Unhooked(f)
         /\ \A f \in Funcs : Redirected(f)' <=> Redirected(f)
         /\ UNCHANGED <<code, pointer, trampoline, hooks, hooksInUse>>
  BY DEF memory, f0, Settled, Unhooked, Redirected

(* A step that changes the function at hand leaves the others.             *)
LEMMA Rest ==
  ASSUME TypeOK, UNCHANGED <<index, op>>,
         \A f \in Funcs \ {f0} :
           /\ code'[f] = code[f] /\ pointer'[f] = pointer[f] /\ trampoline'[f] = trampoline[f]
           /\ (f \in hooks' <=> f \in hooks)
  PROVE  /\ f0' = f0
         /\ \A f \in Funcs \ {f0} : Settled(f)' <=> Settled(f)
         /\ \A i \in index + 1 .. Len(Functions) :
              Unhooked(Functions[i])' <=> Unhooked(Functions[i])
  BY AtHand DEF f0, Settled, Unhooked, Redirected

LEMMA TableInit == Init => TableInv /\ StageInv
<1>1. Functions[1] \in Funcs /\ \A i \in 2 .. Len(Functions) : Functions[i] \in Funcs
  BY Lengths DEF Funcs
<1> QED
  BY <1>1, FS_EmptySet
     DEF Init, TableInv, StageInv, Settled, Unhooked, f0, Hooking, Unhooking, Suspending

(* Every step keeps the table, and the function at hand at its stage.      *)
LEMMA TableStep == IInv /\ [Next]_vars => TableInv' /\ StageInv'
<1> SUFFICES ASSUME IInv, [Next]_vars PROVE TableInv' /\ StageInv'
  OBVIOUS
<1> USE DEF Hooking, Unhooking, Suspending
<1>a. TypeOK /\ TableInv /\ StageInv
  BY DEF IInv
<1>f. f0 \in Funcs /\ index \in 1 .. Len(Functions)
  BY <1>a, AtHand
<1>n. \A i \in index + 1 .. Len(Functions) :
        i \in 1 .. Len(Functions) /\ Functions[i] \in Funcs \ {f0}
  BY <1>a, AtHand
<1>m. /\ code \in [Funcs -> {"original", "torn", "jump"}]
      /\ pointer \in [Funcs -> {"system", "trampoline"}]
      /\ trampoline \in [Funcs -> {"none", "empty", "ready"}]
      /\ hooks \subseteq Funcs
  BY <1>a DEF TypeOK
<1>k. ASSUME UNCHANGED <<memory, index, op>>, StageInv', pc' = "load" => index = 1,
             pc' \notin {"attached", "detached"} => pc \notin {"attached", "detached"}
      PROVE  TableInv' /\ StageInv'
  BY <1>k, <1>a, <1>n, Kept DEF TableInv
<1>o. op \in {"hook", "unhook"}
  BY <1>a DEF TypeOK
<1>1. CASE Begin
  <2>1. UNCHANGED <<memory, index, op>>
    BY <1>1 DEF Begin, control
  <2>2. pc = "begin" /\ pc' \in {"snapshot", "leave"} /\ Settled(f0)
    BY <1>1, <1>a DEF Begin, StageInv
  <2>3. op = "hook" => Unhooked(f0)
    BY <2>2, <1>a DEF StageInv
  <2>4. pc' = "snapshot" /\ op = "unhook" => Redirected(f0) /\ code[f0] = "jump"
    BY <2>2, <1>1 DEF Begin, Settled, Unhooked
  <2>5. StageInv'
    BY <1>o, <1>f, <2>1, <2>2, <2>3, <2>4, Kept DEF StageInv
  <2> QED
    BY <1>k, <2>1, <2>2, <2>5
<1>2. CASE Leave
  <2>1. UNCHANGED <<code, pointer, trampoline, hooks, hooksInUse, op>> /\ pc = "leave"
    BY <1>2 DEF Leave, memory
  <2>2. \A f \in Funcs : Settled(f)' /\ Settled(f)
    BY <1>2, <1>a, <2>1 DEF TableInv, StageInv, Settled, Unhooked, Redirected
  <2>3. CASE index < Len(Functions)
    <3>1. index' = index + 1 /\ pc' = "begin"
      BY <2>3, <1>2 DEF Leave
    <3>2. index' \in index + 1 .. Len(Functions) /\ f0' = Functions[index + 1]
      BY <3>1, <2>3, <1>f, Lengths DEF f0
    <3>3. op = "hook" => \A i \in index + 1 .. Len(Functions) : Unhooked(Functions[i])'
      BY <1>a, <2>1 DEF TableInv, Unhooked
    <3>4. \A i \in index' + 1 .. Len(Functions) : i \in index + 1 .. Len(Functions)
      BY <3>1, <1>f, Lengths
    <3>5. TableInv'
      BY <2>1, <2>2, <3>1, <3>3, <3>4, <1>a DEF TableInv
    <3>6. StageInv'
      BY <2>1, <2>2, <3>1, <3>2, <3>3, <1>n DEF StageInv
    <3> QED
      BY <3>5, <3>6
  <2>4. CASE ~(index < Len(Functions))
    <3>1. index' = index /\ pc' = IF op = "hook" THEN "attached" ELSE "detached"
      BY <2>4, <1>2 DEF Leave
    <3>2. f0' = f0
      BY <3>1 DEF f0
    <3> QED
      BY <1>o, <1>a, <1>f, <2>1, <2>2, <3>1, <3>2 DEF TableInv, StageInv
  <2> QED
    BY <2>3, <2>4
<1>3. CASE Snapshot \/ Look \/ Retry \/ (\E t \in Threads : Suspend(t))
  <2>1. UNCHANGED <<memory, index, op>>
    BY <1>3 DEF Snapshot, Look, Retry, Suspend, control
  <2>2. pc \in {"snapshot"} \cup Suspending /\ pc' \in Suspending
    BY <1>3 DEF Snapshot, Look, Retry, Suspend, Hold
  <2>3. StageInv'
    BY <1>a, <1>f, <2>1, <2>2, Kept DEF StageInv
  <2> QED
    BY <1>k, <2>1, <2>2, <2>3
<1>4. CASE AllSuspended
  <2>1. UNCHANGED <<memory, index, op>>
    BY <1>4 DEF AllSuspended, control
  <2>2. pc = "suspend" /\ pc' = IF op = "hook" THEN "alloc" ELSE "unprotect"
    BY <1>4 DEF AllSuspended
  <2>3. StageInv'
    BY <1>o, <1>a, <1>f, <2>1, <2>2, Kept DEF StageInv
  <2> QED
    BY <1>k, <2>1, <2>2, <2>3
<1>5. CASE ResumeOtherThreads
  <2>1. UNCHANGED <<memory, index, op>>
    BY <1>5 DEF ResumeOtherThreads, control
  <2>2. pc = "resume" /\ pc' \in {"resume", "leave"}
    BY <1>5 DEF ResumeOtherThreads
  <2>3. StageInv'
    BY <1>a, <1>f, <2>1, <2>2, Kept DEF StageInv
  <2> QED
    BY <1>k, <2>1, <2>2, <2>3
<1>6. CASE Attach
  <2>1. UNCHANGED <<memory, index, op>>
    BY <1>6 DEF Attach, control
  <2>2. pc = "load" /\ pc' \in {"begin", "detached"} /\ op = "hook" /\ Unhooked(f0)
    BY <1>6, <1>a DEF Attach, StageInv
  <2>3. StageInv'
    BY <1>f, <2>1, <2>2, Kept DEF StageInv, Settled
  <2> QED
    BY <1>k, <2>1, <2>2, <2>3
<1>7. CASE Unprotect
  <2>1. UNCHANGED <<memory, index, op>>
    BY <1>7 DEF Unprotect, control
  <2>2. pc = "unprotect" /\ pc' \in {"restore", "resume"} /\ op = "unhook"
    BY <1>7, <1>a DEF Unprotect, StageInv
  <2>3. StageInv'
    BY <1>a, <1>f, <2>1, <2>2, Kept DEF StageInv, Settled
  <2> QED
    BY <1>k, <2>1, <2>2, <2>3
<1>8. CASE \/ UNCHANGED vars
           \/ \E t \in Threads : Birth(t) \/ Execute(t) \/ \E f \in Funcs : Call(t, f)
  <2>1. UNCHANGED <<memory, index, op>> /\ pc' = pc
    BY <1>8 DEF vars, memory, Birth, Execute, Call, control, stopping
  <2>2. StageInv'
    BY <1>a, <1>f, <2>1, Kept DEF StageInv
  <2>3. pc = "load" => index = 1
    BY <1>a DEF TableInv
  <2> QED
    BY <1>k, <2>1, <2>2, <2>3
<1>9. CASE Detatch
  <2>1. UNCHANGED <<code, pointer, trampoline, hooks, hooksInUse>> /\ pc = "attached"
        /\ op' = "unhook" /\ pc' = "begin"
    BY <1>9 DEF Detatch, memory
  <2>2. \A f \in Funcs : Settled(f)' /\ Settled(f)
    BY <1>a, <2>1 DEF TableInv, StageInv, Settled, Unhooked, Redirected
  <2>3. index' = 1 /\ f0' \in Funcs
    BY <1>9, Lengths DEF Detatch, f0, Funcs
  <2> QED
    BY <1>a, <2>1, <2>2, <2>3 DEF TableInv, StageInv
<1>10. CASE TrampolineAlloc
  <2>1. UNCHANGED <<code, pointer, index, op>> /\ pc = "alloc" /\ op = "hook" /\ Unhooked(f0)
    BY <1>10, <1>a DEF TrampolineAlloc, control, StageInv
  <2>2. CASE hooks' = hooks \cup {f0}
    <3>1. /\ hooksInUse' = hooksInUse + 1 /\ pc' = "protect"
          /\ trampoline' = [trampoline EXCEPT ![f0] = "empty"]
      BY <2>1, <2>2, <1>10 DEF TrampolineAlloc, Unhooked
    <3>2. /\ f0' = f0 /\ \A f \in Funcs \ {f0} : Settled(f)'
          /\ \A i \in index + 1 .. Len(Functions) : Unhooked(Functions[i])'
      BY <1>a, <1>m, <2>1, <2>2, <3>1, Rest DEF TableInv
    <3>3. IsFiniteSet(hooks') /\ hooksInUse' = Cardinality(hooks')
      BY <1>a, <1>f, <2>1, <2>2, <3>1, Count DEF TableInv, Unhooked
    <3>4. TableInv'
      BY <2>1, <3>1, <3>2, <3>3 DEF TableInv
    <3>5. StageInv'
      BY <2>1, <2>2, <3>1, <3>2 DEF StageInv, Unhooked
    <3> QED
      BY <3>4, <3>5
  <2>3. CASE pc' = "resume" /\ UNCHANGED <<hooks, hooksInUse, trampoline>>
    <3>1. UNCHANGED <<memory, index, op>>
      BY <2>1, <2>3 DEF memory
    <3>2. StageInv'
      BY <1>f, <2>1, <2>3, <3>1, Kept DEF StageInv, Settled
    <3> QED
      BY <1>k, <2>1, <2>3, <3>1, <3>2
  <2> QED
    BY <1>10, <2>2, <2>3 DEF TrampolineAlloc
<1>11. CASE Protect
  <2>1. UNCHANGED <<code, pointer, index, op>> /\ pc = "protect" /\ op = "hook"
        /\ f0 \in hooks /\ code[f0] = "original" /\ pointer[f0] = "system"
    BY <1>11, <1>a DEF Protect, control, memory, StageInv
  <2>2. CASE pc' = "copy" /\ UNCHANGED memory
    <3>1. StageInv'
      BY <1>f, <2>1, <2>2, Kept DEF StageInv
    <3> QED
      BY <1>k, <2>1, <2>2, <3>1
  <2>3. CASE /\ pc' = "resume"
             /\ hooks' = hooks \ {f0} /\ hooksInUse' = hooksInUse - 1
             /\ trampoline' = [trampoline EXCEPT ![f0] = "none"]
    <3>1. /\ f0' = f0 /\ \A f \in Funcs \ {f0} : Settled(f)'
          /\ \A i \in index + 1 .. Len(Functions) : Unhooked(Functions[i])'
      BY <1>a, <1>m, <2>1, <2>3, Rest DEF TableInv
    <3>2. IsFiniteSet(hooks') /\ hooksInUse' = Cardinality(hooks')
      BY <1>a, <1>f, <2>1, <2>3, Count DEF TableInv
    <3>3. TableInv'
      BY <2>1, <2>3, <3>1, <3>2 DEF TableInv
    <3>4. Unhooked(f0)'
      BY <2>1, <2>3, <3>1 DEF Unhooked
    <3>5. StageInv'
      BY <2>1, <2>3, <3>1, <3>4 DEF StageInv, Settled
    <3> QED
      BY <3>3, <3>5
  <2> QED
    BY <1>11, <2>2, <2>3 DEF Protect
<1>12. CASE Copy \/ Patch \/ Publish \/ Restore
  <2>1. UNCHANGED <<hooks, hooksInUse, index, op>>
    BY <1>12 DEF Copy, Patch, Publish, Restore, control
  <2>2. \A f \in Funcs \ {f0} : /\ code'[f] = code[f] /\ pointer'[f] = pointer[f]
                                /\ trampoline'[f] = trampoline[f]
    BY <1>12, <1>m DEF Copy, Patch, Publish, Restore
  <2>3. /\ f0' = f0 /\ \A f \in Funcs \ {f0} : Settled(f)' <=> Settled(f)
        /\ \A i \in index + 1 .. Len(Functions) : Unhooked(Functions[i])' <=> Unhooked(Functions[i])
    BY <1>a, <2>1, <2>2, Rest
  <2>4. pc' \notin {"load", "attached", "detached"} /\ pc \notin {"attached", "detached"}
    BY <1>12 DEF Copy, Patch, Publish, Restore
  <2>5. TableInv'
    BY <1>a, <2>1, <2>3, <2>4 DEF TableInv
  <2>6. CASE Copy
    <3>1. /\ pc = "copy" /\ op = "hook" /\ f0 \in hooks
          /\ pointer[f0] = "system" /\ code[f0] = "original"
      BY <1>a, <2>6 DEF Copy, StageInv
    <3>2. UNCHANGED <<code, pointer>> /\ pc' = "patch" /\ trampoline'[f0] = "ready"
      BY <1>f, <1>m, <2>6 DEF Copy
    <3> QED
      BY <2>5, <2>1, <2>3, <3>1, <3>2 DEF StageInv
  <2>7. CASE Patch
    <3>1. /\ pc \in {"patch", "patched"} /\ op = "hook" /\ f0 \in hooks
          /\ pointer[f0] = "system" /\ trampoline[f0] = "ready"
      BY <1>a, <2>7 DEF Patch, StageInv
    <3>2. /\ UNCHANGED <<pointer, trampoline>>
          /\ pc' = "patched" \/ (pc' = "publish" /\ code'[f0] = "jump")
      BY <1>f, <1>m, <2>7 DEF Patch
    <3> QED
      BY <2>5, <2>1, <2>3, <3>1, <3>2 DEF StageInv
  <2>8. CASE Publish
    <3>1. /\ pc = "publish" /\ f0 \in hooks
          /\ code[f0] = "jump" /\ trampoline[f0] = "ready"
      BY <1>a, <2>8 DEF Publish, StageInv
    <3>2. UNCHANGED <<code, trampoline>> /\ pc' = "resume" /\ pointer'[f0] = "trampoline"
      BY <1>f, <1>m, <2>8 DEF Publish
    <3>3. Settled(f0)'
      BY <2>1, <2>3, <3>1, <3>2 DEF Settled, Redirected
    <3> QED
      BY <2>5, <3>2, <3>3 DEF StageInv
  <2>9. CASE Restore
    <3>1. pc \in {"restore", "restored"} /\ op = "unhook" /\ Redirected(f0)
      BY <1>a, <2>9 DEF Restore, StageInv
    <3>2. /\ UNCHANGED <<pointer, trampoline>>
          /\ pc' = "restored" \/ (pc' = "unpublish" /\ code'[f0] = "original")
      BY <1>f, <1>m, <2>9 DEF Restore
    <3>3. Redirected(f0)'
      BY <2>1, <2>3, <3>1, <3>2 DEF Redirected
    <3> QED
      BY <2>5, <2>1, <2>3, <3>1, <3>2, <3>3 DEF StageInv
  <2> QED
    BY <1>12, <2>5, <2>6, <2>7, <2>8, <2>9
<1>13. CASE Unpublish
  <2>1. UNCHANGED <<code, trampoline, index, op>> /\ pc = "unpublish" /\ pc' = "resume"
        /\ op = "unhook" /\ f0 \in hooks /\ code[f0] = "original"
        /\ hooks' = hooks \ {f0} /\ hooksInUse' = hooksInUse - 1
        /\ pointer' = [pointer EXCEPT ![f0] = "system"]
    BY <1>13, <1>a DEF Unpublish, control, StageInv, Redirected
  <2>2. f0' = f0 /\ \A f \in Funcs \ {f0} : Settled(f)'
    BY <1>a, <1>m, <2>1, Rest DEF TableInv
  <2>3. IsFiniteSet(hooks') /\ hooksInUse' = Cardinality(hooks')
    BY <1>a, <1>f, <2>1, Count DEF TableInv
  <2>4. TableInv'
    BY <2>1, <2>2, <2>3 DEF TableInv
  <2>5. Unhooked(f0)'
    BY <1>f, <1>m, <2>1, <2>2 DEF Unhooked
  <2>6. StageInv'
    BY <2>1, <2>2, <2>5 DEF StageInv, Settled
  <2> QED
    BY <2>4, <2>6
<1> QED
  BY <1>1, <1>2, <1>3, <1>4, <1>5, <1>6, <1>7, <1>8, <1>9, <1>10, <1>11, <1>12, <1>13
     DEF Next, HookingStep

-----------------------------------------------------------------------------
(* Where the handles and the snapshot are.                                 *)
LEMMA HandlesInit == Init => HandlesInv
  BY DEF Init, HandlesInv, Work, Suspending

LEMMA HandlesStep == IInv /\ [Next]_vars => HandlesInv'
<1> SUFFICES ASSUME IInv, [Next]_vars PROVE HandlesInv'
  OBVIOUS
<1> USE DEF Suspending, Work
<1>a. TypeOK /\ HandlesInv
  BY DEF IInv
<1>1. ASSUME UNCHANGED <<suspended, handles, snapshot, checking, tries, pc>> PROVE HandlesInv'
  BY <1>a, <1>1 DEF HandlesInv
<1>2. CASE Snapshot
  BY <1>a, <1>2 DEF Snapshot, HandlesInv
<1>3. ASSUME NEW t \in Threads, Suspend(t) PROVE HandlesInv'
  BY <1>a, <1>3 DEF Suspend, HandlesInv
<1>4. CASE Look
  <2>1. pc = "look" /\ UNCHANGED <<snapshot, checking, tries>>
    BY <1>4 DEF Look
  <2>2. CASE Hold(checking)
    BY <1>a, <2>1, <2>2 DEF Hold, HandlesInv
  <2>3. CASE tries < MaxTries /\ suspended' = suspended \ {checking} /\ pc' = "retry"
             /\ UNCHANGED handles
    BY <1>a, <2>1, <2>3 DEF HandlesInv
  <2>4. CASE suspended' = suspended \ {checking} /\ pc' = "suspend" /\ UNCHANGED handles
    BY <1>a, <2>1, <2>4 DEF HandlesInv
  <2> QED
    BY <1>4, <2>2, <2>3, <2>4 DEF Look
<1>5. CASE Retry
  BY <1>a, <1>5 DEF Retry, HandlesInv
<1>6. CASE AllSuspended
  BY <1>a, <1>6 DEF AllSuspended, HandlesInv
<1>7. CASE ResumeOtherThreads
  BY <1>a, <1>7 DEF ResumeOtherThreads, HandlesInv
<1>8. CASE \/ TrampolineAlloc \/ Protect \/ Copy \/ Patch \/ Publish
           \/ Unprotect \/ Restore \/ Unpublish
  <2>1. UNCHANGED <<suspended, handles, snapshot, checking, tries>>
    BY <1>8 DEF TrampolineAlloc, Protect, Copy, Patch, Publish, Unprotect, Restore, Unpublish,
                stopping
  <2>2. /\ pc \in Work \ (Suspending \cup {"snapshot"})
        /\ pc' \in Work \ (Suspending \cup {"snapshot"})
    BY <1>8 DEF TrampolineAlloc, Protect, Copy, Patch, Publish, Unprotect, Restore, Unpublish
  <2> QED
    BY <1>a, <2>1, <2>2 DEF HandlesInv
<1>9. CASE Begin \/ Leave \/ Attach \/ Detatch
  <2>1. UNCHANGED <<suspended, handles, snapshot, checking, tries>>
    BY <1>9 DEF Begin, Leave, Attach, Detatch, stopping
  <2>2. pc \notin Work /\ pc' \notin Work \ {"snapshot"}
    BY <1>9 DEF Begin, Leave, Attach, Detatch
  <2> QED
    BY <1>a, <2>1, <2>2 DEF HandlesInv
<1>10. CASE \/ UNCHANGED vars
            \/ \E t \in Threads : Birth(t) \/ Execute(t) \/ \E f \in Funcs : Call(t, f)
  BY <1>1, <1>10 DEF vars, Birth, Execute, Call, stopping
<1> QED
  BY <1>2, <1>3, <1>4, <1>5, <1>6, <1>7, <1>8, <1>9, <1>10 DEF Next, HookingStep

-----------------------------------------------------------------------------
(* The threads.                                                            *)

(* Those whose instructions may change are not the ones that run.          *)
LEMMA Stopped ==
  ASSUME IInv, NEW t \in Threads \ missed, place[t] # "unborn",
         t \notin suspended, pc \in Work
  PROVE  pc \in {"snapshot", "resume"} \cup Suspending
  BY DEF IInv, HandlesInv, CheckedInv, Work, Suspending, Hooking, Unhooking

LEMMA AllSettled ==
  ASSUME IInv, pc \notin (Hooking \cup Unhooking) \ {"alloc"}
  PROVE  \A f \in Funcs : Settled(f)
<1>1. pc \in Work \cup {"load", "begin", "leave", "attached", "detached"} /\ op \in {"hook", "unhook"}
  BY DEF IInv, TypeOK
<1>2. Settled(f0)
  BY <1>1 DEF IInv, StageInv, Settled, Work, Suspending, Hooking, Unhooking
<1> QED
  BY <1>2 DEF IInv, TableInv

(* Every step keeps account of the checked threads.                        *)
LEMMA CheckedInit == Init => CheckedInv
  BY DEF Init, CheckedInv, Suspending, Hooking, Unhooking

LEMMA CheckedStep == IInv /\ [Next]_vars => CheckedInv'
<1> SUFFICES ASSUME IInv, [Next]_vars PROVE CheckedInv'
  OBVIOUS
<1> USE DEF Suspending, Hooking, Unhooking, Work
<1>a. TypeOK /\ HandlesInv /\ CheckedInv
  BY DEF IInv
<1>b. missed \subseteq missed'
  BY DEF Next, HookingStep, Begin, Leave, Snapshot, Look, Retry, AllSuspended, ResumeOtherThreads,
         TrampolineAlloc, Protect, Copy, Patch, Publish, Unprotect, Restore, Unpublish, Suspend,
         Attach, Detatch, Birth, Execute, Call, stopping, vars
<1>1. CASE Snapshot
  BY <1>a, <1>1 DEF Snapshot, HandlesInv, CheckedInv, walking, control
<1>2. ASSUME NEW t \in Threads, Suspend(t) PROVE CheckedInv'
  <2>1. f0' = f0 /\ UNCHANGED <<place, func, handles>> /\ pc = "suspend"
    BY <1>2 DEF Suspend, walking, control, f0
  <2> QED
    BY <1>a, <1>2, <2>1 DEF Suspend, CheckedInv, Collides
<1>3. CASE Look
  <2>1. f0' = f0 /\ UNCHANGED <<place, func, snapshot, checking>> /\ pc = "look"
    BY <1>3 DEF Look, walking, control, f0
  <2>2. \A u \in Threads : Collides(u)' <=> Collides(u)
    BY <2>1 DEF Collides
  <2>3. checking \in Threads
    BY <1>a, <2>1 DEF HandlesInv
  <2> QED
    BY <1>a, <1>3, <2>1, <2>2, <2>3 DEF Look, Hold, CheckedInv
<1>4. CASE Retry
  <2>1. f0' = f0 /\ UNCHANGED <<place, func, snapshot, checking, handles, missed>>
        /\ pc = "retry" /\ pc' = "look"
    BY <1>4 DEF Retry, walking, control, f0
  <2> QED
    BY <1>a, <2>1 DEF CheckedInv, Collides
<1>5. CASE AllSuspended
  <2>1. f0' = f0 /\ UNCHANGED <<place, func, snapshot, handles, missed>>
        /\ pc = "suspend" /\ snapshot = {} /\ pc' \in Hooking \cup Unhooking
    BY <1>5 DEF AllSuspended, walking, control, f0
  <2> QED
    BY <1>a, <2>1 DEF CheckedInv, Collides
<1>6. CASE ResumeOtherThreads
  <2>1. pc' \in {"resume", "leave"} /\ (pc' = "leave" => handles' = {})
    BY <1>6 DEF ResumeOtherThreads
  <2> QED
    BY <2>1 DEF CheckedInv
<1>7. CASE \/ TrampolineAlloc \/ Protect \/ Copy \/ Patch \/ Publish
           \/ Unprotect \/ Restore \/ Unpublish
  <2>1. f0' = f0 /\ UNCHANGED <<place, func, snapshot, handles, missed>>
    BY <1>7 DEF TrampolineAlloc, Protect, Copy, Patch, Publish, Unprotect, Restore, Unpublish,
                stopping, walking, control, f0
  <2>2. pc \in Hooking \cup Unhooking /\ pc' \in Hooking \cup Unhooking \cup {"resume"}
    BY <1>7 DEF TrampolineAlloc, Protect, Copy, Patch, Publish, Unprotect, Restore, Unpublish
  <2> QED
    BY <1>a, <2>1, <2>2 DEF CheckedInv, Collides
<1>8. CASE Begin \/ Leave \/ Attach \/ Detatch
  <2>1. UNCHANGED handles /\ handles = {}
    BY <1>a, <1>8 DEF Begin, Leave, Attach, Detatch, stopping, HandlesInv
  <2>2. pc' \notin Work \ {"snapshot"}
    BY <1>8 DEF Begin, Leave, Attach, Detatch
  <2> QED
    BY <2>1, <2>2 DEF CheckedInv
<1>9. ASSUME NEW t \in Threads, Birth(t) PROVE CheckedInv'
  <2>1. f0' = f0 /\ UNCHANGED <<func, snapshot, handles, checking, pc>> /\ place[t] = "unborn"
        /\ place' = [place EXCEPT ![t] = "out"]
    BY <1>9 DEF Birth, control, f0
  <2>2. pc \in Suspending \cup Hooking \cup Unhooking => t \in missed'
    BY <1>9 DEF Birth
  <2>3. \A u \in Threads : Collides(u)' => Collides(u)
    BY <1>a, <2>1 DEF Collides, TypeOK
  <2> QED
    BY <1>a, <1>b, <2>1, <2>2, <2>3 DEF CheckedInv, TypeOK
<1>10. ASSUME NEW t \in Threads, Execute(t) \/ \E f \in Funcs : Call(t, f) PROVE CheckedInv'
  <2>1. f0' = f0 /\ UNCHANGED <<snapshot, handles, checking, pc, missed>>
        /\ place[t] # "unborn" /\ t \notin handles
    BY <1>a, <1>10 DEF Execute, Call, Runs, control, stopping, f0, HandlesInv
  <2>2. \A u \in Threads \ {t} : place'[u] = place[u] /\ func'[u] = func[u]
    BY <1>a, <1>10 DEF Execute, Call, TypeOK
  <2>3. \A u \in Threads \ {t} : Collides(u)' <=> Collides(u)
    BY <2>1, <2>2 DEF Collides
  <2> QED
    BY <1>a, <2>1, <2>2, <2>3 DEF CheckedInv
<1>11. CASE UNCHANGED vars
  BY <1>a, <1>11 DEF vars, CheckedInv, Collides, f0
<1> QED
  BY <1>1, <1>2, <1>3, <1>4, <1>5, <1>6, <1>7, <1>8, <1>9, <1>10, <1>11 DEF Next, HookingStep

LEMMA PlaceInit == Init => PlaceInv
  BY DEF Init, PlaceInv

(* A checked thread's next instruction, while the functions are settled.   *)
LEMMA NextPlace ==
  ASSUME IInv, NEW t \in Threads \ missed, place[t] \notin {"unborn", "out"},
         Settled(func[t])
  PROVE  /\ Following(t) # "lost"
         /\ place[t] = "again" => Following(t) # "hook"
         /\ Following(t) = "inside" => code[func[t]] = "original"
         /\ Following(t) = "again" => op = "unhook" /\ func[t] \notin hooks
         /\ Following(t) = "hook" => pointer[func[t]] = "trampoline"
         /\ Following(t) = "trampoline" =>
              pointer[func[t]] = "trampoline" /\ trampoline[func[t]] = "ready"
<1>1. PlaceInv /\ place[t] \in Places /\ op \in {"hook", "unhook"}
  BY DEF IInv, TypeOK
<1>2. CASE Unhooked(func[t])
  BY <1>1, <1>2 DEF Unhooked, PlaceInv, Following, Places
<1>3. CASE Redirected(func[t]) /\ code[func[t]] = "jump"
  BY <1>1, <1>3 DEF Redirected, PlaceInv, Following, Places
<1> QED
  BY <1>2, <1>3 DEF Settled

(* Every step keeps the checked threads where instructions are.            *)
LEMMA PlaceStep == IInv /\ [Next]_vars => PlaceInv'
<1> SUFFICES ASSUME IInv, [Next]_vars PROVE PlaceInv'
  OBVIOUS
<1>a. TypeOK /\ TableInv /\ StageInv /\ HandlesInv /\ CheckedInv /\ PlaceInv
  BY DEF IInv
<1>f. f0 \in Funcs
  BY <1>a, AtHand
<1>m. /\ code \in [Funcs -> {"original", "torn", "jump"}]
      /\ pointer \in [Funcs -> {"system", "trampoline"}]
      /\ trampoline \in [Funcs -> {"none", "empty", "ready"}]
      /\ hooks \subseteq Funcs /\ op \in {"hook", "unhook"}
      /\ place \in [Threads -> Places] /\ func \in [Threads -> Funcs]
  BY <1>a DEF TypeOK
<1>1. ASSUME UNCHANGED <<memory, op, place, func, lost, recursed>>, missed \subseteq missed'
      PROVE  PlaceInv'
  BY <1>a, <1>1 DEF PlaceInv, memory
<1>2. CASE \/ UNCHANGED vars \/ Begin \/ Leave \/ Snapshot \/ Look \/ Retry \/ AllSuspended
           \/ ResumeOtherThreads \/ Unprotect \/ Attach \/ \E t \in Threads : Suspend(t)
  BY <1>1, <1>2 DEF vars, Begin, Leave, Snapshot, Look, Retry, AllSuspended, ResumeOtherThreads,
                    Unprotect, Attach, Suspend, walking, control, stopping, memory
<1>3. CASE Detatch
  <2>1. UNCHANGED <<memory, place, func, lost, recursed, missed>> /\ op' = "unhook" /\ op = "hook"
    BY <1>a, <1>3 DEF Detatch, walking, stopping, StageInv
  <2> QED
    BY <1>a, <2>1 DEF PlaceInv, memory
<1>4. ASSUME NEW t \in Threads, Birth(t) PROVE PlaceInv'
  <2>1. /\ UNCHANGED <<memory, op, func, lost, recursed>> /\ missed \subseteq missed'
        /\ place' = [place EXCEPT ![t] = "out"]
    BY <1>4 DEF Birth, control
  <2> QED
    BY <1>a, <1>m, <2>1 DEF PlaceInv, memory
<1>5. ASSUME NEW t \in Threads, NEW f \in Funcs, Call(t, f) PROVE PlaceInv'
  <2>1. /\ UNCHANGED <<memory, op, lost, recursed, missed>>
        /\ place' = [place EXCEPT ![t] = "entry"] /\ func' = [func EXCEPT ![t] = f]
    BY <1>5 DEF Call, control, stopping
  <2> QED
    BY <1>a, <1>m, <2>1 DEF PlaceInv, memory
<1>6. ASSUME NEW t \in Threads, Execute(t) PROVE PlaceInv'
  <2>1. UNCHANGED <<code, pointer, trampoline, hooks, op, missed>>
    BY <1>6 DEF Execute, control, stopping, memory
  <2>2. place[t] \notin {"unborn", "out"} /\ t \notin suspended
    BY <1>6 DEF Execute, Runs
  <2>3. \A u \in Threads \ {t} :
          /\ place'[u] = place[u] /\ func'[u] = func[u]
          /\ (u \in lost' <=> u \in lost) /\ (u \in recursed' <=> u \in recursed)
    BY <1>6, <1>m DEF Execute
  <2>4. CASE t \in missed
    BY <1>a, <2>1, <2>3, <2>4 DEF PlaceInv
  <2>5. CASE t \notin missed
    <3>1. pc \notin Hooking \cup Unhooking
      BY <2>2, <2>5, Stopped DEF Hooking, Unhooking, Work, Suspending
    <3>2. Settled(func[t])
      BY <1>m, <3>1, AllSettled
    <3>3. Following(t) \in Places \cup {"lost"}
      BY DEF Following, Places
    <3>4. t \notin lost' /\ t \notin recursed' /\ place'[t] = Following(t)
          /\ (Following(t) # "out" => func'[t] = func[t])
      BY <1>a, <1>6, <1>m, <2>2, <2>5, <3>2, NextPlace DEF Execute, PlaceInv
    <3> QED
      BY <1>a, <2>1, <2>2, <2>3, <2>5, <3>2, <3>4, NextPlace DEF PlaceInv
  <2> QED
    BY <2>4, <2>5
<1>7. CASE TrampolineAlloc \/ Protect \/ Copy
  <2>1. UNCHANGED <<code, pointer, op, place, func, lost, recursed, missed>>
    BY <1>7 DEF TrampolineAlloc, Protect, Copy, walking, control, stopping, memory
  <2>2. op = "hook" /\ pointer[f0] = "system"
    BY <1>a, <1>7 DEF TrampolineAlloc, Protect, Copy, StageInv, Hooking, Unhooked
  <2>3. \A f \in Funcs \ {f0} : trampoline'[f] = trampoline[f] /\ (f \in hooks' <=> f \in hooks)
    BY <1>7, <1>m DEF TrampolineAlloc, Protect, Copy, memory
  <2>4. \A t \in Threads \ missed : place[t] \in {"hook", "trampoline"} => func[t] # f0
    BY <1>a, <2>2 DEF PlaceInv
  <2>5. \A t \in Threads : func[t] \in Funcs
    BY <1>m
  <2> QED
    BY <1>a, <2>1, <2>2, <2>3, <2>4, <2>5 DEF PlaceInv
<1>8. CASE Patch \/ Publish
  <2>1. UNCHANGED <<trampoline, hooks, op, place, func, lost, recursed, missed>> /\ op = "hook"
    BY <1>a, <1>8 DEF Patch, Publish, walking, control, stopping, StageInv, Hooking
  <2>2. \A f \in Funcs : /\ pointer'[f] = pointer[f] \/ pointer'[f] = "trampoline"
                         /\ f # f0 => code'[f] = code[f]
                         /\ Publish => code'[f] = code[f]
    BY <1>8, <1>m DEF Patch, Publish
  <2>3. Patch => \A t \in Threads \ missed : place[t] = "inside" => func[t] # f0
    BY <1>a DEF Patch, CheckedInv, HandlesInv, Collides, Hooking, Suspending
  <2>4. \A t \in Threads : func[t] \in Funcs
    BY <1>m
  <2> QED
    BY <1>a, <1>8, <2>1, <2>2, <2>3, <2>4 DEF PlaceInv
<1>9. CASE Restore \/ Unpublish
  <2>1. UNCHANGED <<trampoline, op, place, func, lost, recursed, missed>> /\ op = "unhook"
    BY <1>a, <1>9 DEF Restore, Unpublish, walking, control, stopping, StageInv, Unhooking
  <2>2. hooks' \subseteq hooks /\ \A f \in Funcs \ {f0} : code'[f] = code[f]
    BY <1>9, <1>m DEF Restore, Unpublish
  <2>3. \A t \in Threads \ missed : place[t] = "inside" => func[t] # f0
    BY <1>a, <1>9 DEF Restore, Unpublish, CheckedInv, HandlesInv, Collides, Unhooking, Suspending
  <2>4. \A t \in Threads : func[t] \in Funcs
    BY <1>m
  <2> QED
    BY <1>a, <2>1, <2>2, <2>3, <2>4 DEF PlaceInv
<1> QED
  BY <1>2, <1>3, <1>4, <1>5, <1>6, <1>7, <1>8, <1>9 DEF Next, HookingStep

-----------------------------------------------------------------------------
(* The theorems.                                                           *)

LEMMA Invariance == Spec => []IInv
<1>1. Init => IInv
  BY TypeInit, TableInit, HandlesInit, CheckedInit, PlaceInit DEF IInv
<1>2. IInv /\ [Next]_vars => IInv'
  BY TypeStep, TableStep, HandlesStep, CheckedStep, PlaceStep DEF IInv
<1> QED
  BY <1>1, <1>2, PTL DEF Spec

(* The variables keep their types, the count of the table and the tries    *)
(* their bounds.                                                           *)
THEOREM Types == Spec => []TypeOK
<1>1. IInv => TypeOK
  BY DEF IInv
<1> QED
  BY <1>1, Invariance, PTL

(* A thread that was suspended and looked at executes only instructions,   *)
(* whatever functions it runs through while they are hooked and unhooked.  *)
THEOREM NeverLost == Spec => []CheckedNeverLost
<1>1. IInv => CheckedNeverLost
  BY DEF IInv, TypeOK, PlaceInv, CheckedNeverLost
<1> QED
  BY <1>1, Invariance, PTL

(* No such thread finds a jump without the pointer its hook calls.         *)
THEOREM NeverRecurses == Spec => []CheckedNeverRecurses
<1>1. IInv => CheckedNeverRecurses
  BY DEF IInv, TypeOK, PlaceInv, CheckedNeverRecurses
<1> QED
  BY <1>1, Invariance, PTL

(* Each suspended thread is one that will be resumed.                      *)
THEOREM Resumed == Spec => []NoneForgotten
<1>1. IInv => NoneForgotten
  BY DEF IInv, HandlesInv, NoneForgotten, Work
<1> QED
  BY <1>1, Invariance, PTL

(* The table of trampolines, its count, the code and the pointers agree.   *)
THEOREM Counted == Spec => []TableCounted
<1>1. ASSUME IInv PROVE TableCounted
  <2>1. hooksInUse = Cardinality(hooks)
    BY <1>1 DEF IInv, TableInv
  <2>2. ASSUME NEW f \in Funcs, pointer[f] = "trampoline"
        PROVE  f \in hooks /\ trampoline[f] = "ready"
    <3>1. CASE f = f0
      <4>1. pc \in Work \cup {"load", "begin", "leave", "attached", "detached"}
            /\ op \in {"hook", "unhook"}
        BY <1>1 DEF IInv, TypeOK
      <4> QED
        BY <1>1, <2>2, <3>1, <4>1
           DEF IInv, StageInv, Settled, Unhooked, Redirected, Work, Hooking, Unhooking, Suspending
    <3>2. CASE f # f0
      BY <1>1, <2>2, <3>2 DEF IInv, TableInv, Settled, Unhooked, Redirected
    <3> QED
      BY <3>1, <3>2
  <2>3. ASSUME NEW f \in Funcs, pc \notin Work
        PROVE  (f \in hooks <=> code[f] = "jump") /\ (f \in hooks <=> pointer[f] = "trampoline")
    <3>1. Settled(f)
      BY <1>1, <2>3, AllSettled DEF Work, Hooking, Unhooking
    <3> QED
      BY <3>1 DEF Settled, Unhooked, Redirected
  <2> QED
    BY <2>1, <2>2, <2>3 DEF TableCounted
<1> QED
  BY <1>1, Invariance, PTL

=============================================================================
