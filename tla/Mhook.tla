------------------------------- MODULE Mhook -------------------------------
(***************************************************************************)
(* How the hooks get in and out: Mhook_SetHook and Mhook_Unhook of         *)
(* Inject/mhook-lib/mhook.cpp, called for each function in turn by Hook    *)
(* and UnHook of Inject/Hook.cpp, from DllMain of Inject/Inject.cpp.       *)
(*                                                                         *)
(* The first bytes of a system function are overwritten by a jump while    *)
(* the process's other threads run through it, so they are suspended, one  *)
(* after the other, each with its instruction pointer outside of the       *)
(* overwritten bytes.  Every call of the system may fail.  The bytes are   *)
(* abstracted to what a thread meets that executes them.                   *)
(***************************************************************************)
EXTENDS Integers, FiniteSets, Sequences

CONSTANTS
  Functions,   \* the functions to hook, in order
  Threads,     \* the other threads of the process
  Hookable,    \* the functions whose first instructions make room for a jump
  MaxHooks,    \* MHOOKS_MAX_SUPPORTED_HOOKS
  MaxTries,    \* how often a thread is let go to get out of the bytes, 3
  NoThread

Funcs == {Functions[i] : i \in 1 .. Len(Functions)}

ASSUME FunctionsAssumption ==
  Functions \in Seq(Funcs) /\ Functions # <<>> /\ Hookable \subseteq Funcs
ASSUME DistinctAssumption ==
  \A i, j \in 1 .. Len(Functions) : Functions[i] = Functions[j] => i = j
ASSUME BoundsAssumption == MaxHooks \in Nat /\ MaxTries \in Nat
ASSUME NoThreadAssumption == NoThread \notin Threads

VARIABLES
  code,        \* per function, its first bytes: "original", "torn", "jump"
  pointer,     \* per function, FindFirstFileW_sys etc.: "system", "trampoline"
  trampoline,  \* per function, its memory: "none", "empty", "ready"
  hooks,       \* g_pHooks: the functions whose trampolines are in it
  hooksInUse,  \* g_nHooksInUse
  place,       \* per thread: "unborn", "out", or where it is in func
  func,        \* per thread: the function it last called
  suspended,   \* the threads that are suspended
  handles,     \* g_hThreadHandles
  snapshot,    \* the threads of the snapshot that are still to be suspended
  checking,    \* dwThreadId of SuspendOneThread
  tries,       \* nTries
  pc,          \* where the hooking thread is
  op,          \* "hook" or "unhook"
  index,       \* the function it is at
  hooked,      \* the flag of Inject.cpp
  missed,      \* history: threads that ran, or may have been in the bytes, meanwhile
  lost,        \* history: threads that executed bytes that are no instruction
  recursed     \* history: threads whose hook called itself by its pointer

memory   == <<code, pointer, trampoline, hooks, hooksInUse>>
walking  == <<place, func, lost, recursed>>
stopping == <<suspended, handles, snapshot, checking, tries, missed>>
control  == <<op, index, hooked>>
vars == <<code, pointer, trampoline, hooks, hooksInUse, place, func, suspended, handles,
          snapshot, checking, tries, pc, op, index, hooked, missed, lost, recursed>>

-----------------------------------------------------------------------------
(* "entry": at the first byte; "again": there once more, from the hook's   *)
(* own call; "inside": behind the first instruction, within the bytes that *)
(* a jump takes; "rest": behind them.                                      *)
Places == {"unborn", "out", "entry", "again", "inside", "rest", "hook", "trampoline"}

Work == {"snapshot", "suspend", "look", "retry", "alloc", "protect", "copy", "patch",
         "patched", "publish", "unprotect", "restore", "restored", "unpublish", "resume"}

TypeOK ==
  /\ code \in [Funcs -> {"original", "torn", "jump"}]
  /\ pointer \in [Funcs -> {"system", "trampoline"}]
  /\ trampoline \in [Funcs -> {"none", "empty", "ready"}]
  /\ hooks \subseteq Funcs /\ hooksInUse \in 0 .. MaxHooks
  /\ place \in [Threads -> Places] /\ func \in [Threads -> Funcs]
  /\ suspended \subseteq Threads /\ handles \subseteq Threads /\ snapshot \subseteq Threads
  /\ checking \in Threads \cup {NoThread} /\ tries \in 0 .. MaxTries
  /\ pc \in Work \cup {"load", "begin", "leave", "attached", "detached"}
  /\ op \in {"hook", "unhook"} /\ index \in 1 .. Len(Functions) /\ hooked \in BOOLEAN
  /\ missed \subseteq Threads /\ lost \subseteq Threads /\ recursed \subseteq Threads

Init ==
  /\ code = [f \in Funcs |-> "original"] /\ pointer = [f \in Funcs |-> "system"]
  /\ trampoline = [f \in Funcs |-> "none"] /\ hooks = {} /\ hooksInUse = 0
  /\ place \in [Threads -> {"unborn", "out"}] /\ func = [t \in Threads |-> Functions[1]]
  /\ suspended = {} /\ handles = {} /\ snapshot = {} /\ checking = NoThread /\ tries = 0
  /\ pc = "load" /\ op = "hook" /\ index = 1 /\ hooked = FALSE
  /\ missed = {} /\ lost = {} /\ recursed = {}

f0 == Functions[index]

-----------------------------------------------------------------------------
(* The other threads.                                                      *)

(* A thread that is created while the others are being suspended or are    *)
(* suspended is not in the snapshot.                                       *)
Birth(t) ==
  /\ place[t] = "unborn"
  /\ place' = [place EXCEPT ![t] = "out"]
  /\ missed' = IF pc \in Work \ {"snapshot"} THEN missed \cup {t} ELSE missed
  /\ UNCHANGED <<memory, func, suspended, handles, snapshot, checking, tries, pc, control,
                 lost, recursed>>

Runs(t) == place[t] # "unborn" /\ t \notin suspended /\ t \notin lost

Call(t, f) ==
  /\ Runs(t) /\ place[t] = "out"
  /\ place' = [place EXCEPT ![t] = "entry"]
  /\ func'  = [func EXCEPT ![t] = f]
  /\ UNCHANGED <<memory, stopping, pc, control, lost, recursed>>

(* Where the next instruction leads; "lost" where there is none.           *)
Following(t) ==
  LET f == func[t] IN
  CASE place[t] \in {"entry", "again"} ->
         (IF code[f] = "original" THEN "inside" ELSE IF code[f] = "jump" THEN "hook" ELSE "lost")
    [] place[t] = "inside" -> IF code[f] = "original" THEN "rest" ELSE "lost"
    [] place[t] = "hook"   -> IF pointer[f] = "system" THEN "again" ELSE "trampoline"
    [] place[t] = "trampoline" -> IF trampoline[f] = "ready" THEN "rest" ELSE "lost"
    [] OTHER -> "out"

Execute(t) ==
  LET next == Following(t) IN
  /\ Runs(t) /\ place[t] # "out"
  /\ place' = IF next = "lost" THEN place ELSE [place EXCEPT ![t] = next]
  /\ lost' = IF next = "lost" THEN lost \cup {t} ELSE lost
  /\ recursed' = IF place[t] = "again" /\ next = "hook" THEN recursed \cup {t} ELSE recursed
  /\ func' = IF next = "out" THEN [func EXCEPT ![t] = Functions[1]] ELSE func
  /\ UNCHANGED <<memory, stopping, pc, control>>

-----------------------------------------------------------------------------
(* SuspendOtherThreads and ResumeOtherThreads.                             *)

(* The snapshot of the process's threads, or none when it fails.           *)
Snapshot ==
  LET born == {t \in Threads : place[t] # "unborn"} IN
  /\ pc = "snapshot"
  /\ \/ snapshot' = born /\ UNCHANGED missed
     \/ snapshot' = {} /\ missed' = missed \cup born
  /\ pc' = "suspend"
  /\ UNCHANGED <<memory, walking, suspended, handles, checking, tries, control>>

(* A thread that cannot be opened or suspended is passed over.             *)
Suspend(t) ==
  /\ pc = "suspend" /\ t \in snapshot
  /\ snapshot' = snapshot \ {t}
  /\ \/ /\ suspended' = suspended \cup {t}
        /\ checking' = t /\ tries' = 0 /\ pc' = "look"
        /\ UNCHANGED missed
     \/ missed' = missed \cup {t} /\ UNCHANGED <<suspended, checking, tries, pc>>
  /\ UNCHANGED <<memory, walking, handles, control>>

Collides(t) == func[t] = f0 /\ place[t] \in {"entry", "again", "inside"}

Hold(t) == handles' = handles \cup {t} /\ pc' = "suspend" /\ UNCHANGED suspended

(* Mutants: the instruction pointer is not looked at; a thread that has    *)
(* been given up stays suspended.                                          *)
LookAway ==
  LET t == checking IN
  /\ pc = "look"
  /\ Hold(t)
  /\ UNCHANGED <<memory, walking, snapshot, checking, tries, missed, control>>

LookKeepsSuspended ==
  LET t == checking IN
  /\ pc = "look"
  /\ \/ ~Collides(t) /\ Hold(t) /\ UNCHANGED missed
     \/ Hold(t) /\ missed' = missed \cup {t}
     \/ /\ Collides(t) /\ tries < MaxTries
        /\ suspended' = suspended \ {t} /\ pc' = "retry" /\ UNCHANGED <<handles, missed>>
     \/ /\ Collides(t) /\ tries = MaxTries
        /\ missed' = missed \cup {t} /\ pc' = "suspend" /\ UNCHANGED <<suspended, handles>>
  /\ UNCHANGED <<memory, walking, snapshot, checking, tries, control>>

(* GetThreadContext tells where the thread is: outside of the bytes it is  *)
(* kept suspended; inside it is let go for a while, and given up after the *)
(* last try.  Where GetThreadContext fails the thread is kept as it is.    *)
Look ==
  LET t == checking IN
  /\ pc = "look"
  /\ \/ ~Collides(t) /\ Hold(t) /\ UNCHANGED missed
     \/ Hold(t) /\ missed' = missed \cup {t}
     \/ /\ Collides(t) /\ tries < MaxTries
        /\ suspended' = suspended \ {t} /\ pc' = "retry" /\ UNCHANGED <<handles, missed>>
     \/ /\ Collides(t) /\ tries = MaxTries
        /\ suspended' = suspended \ {t} /\ pc' = "suspend"
        /\ missed' = missed \cup {t} /\ UNCHANGED handles
  /\ UNCHANGED <<memory, walking, snapshot, checking, tries, control>>

(* Mutant: nTries is not counted.                                          *)
RetryForever ==
  /\ pc = "retry"
  /\ suspended' = suspended \cup {checking} /\ pc' = "look"
  /\ UNCHANGED <<memory, walking, handles, snapshot, checking, tries, missed, control>>

(* Sleep(100) is over.                                                     *)
Retry ==
  /\ pc = "retry"
  /\ suspended' = suspended \cup {checking} /\ tries' = tries + 1 /\ pc' = "look"
  /\ UNCHANGED <<memory, walking, handles, snapshot, checking, missed, control>>

AllSuspended ==
  /\ pc = "suspend" /\ snapshot = {}
  /\ pc' = IF op = "hook" THEN "alloc" ELSE "unprotect"
  /\ checking' = NoThread /\ tries' = 0
  /\ UNCHANGED <<memory, walking, suspended, handles, snapshot, missed, control>>

(* One handle after the other.                                             *)
ResumeOtherThreads ==
  /\ pc = "resume"
  /\ IF handles = {}
       THEN pc' = "leave" /\ UNCHANGED <<suspended, handles>>
       ELSE \E t \in handles :
              /\ suspended' = suspended \ {t} /\ handles' = handles \ {t} /\ UNCHANGED pc
  /\ UNCHANGED <<memory, walking, snapshot, checking, tries, missed, control>>

-----------------------------------------------------------------------------
(* Mhook_SetHook for f0.                                                   *)

TrampolineAlloc ==
  /\ pc = "alloc"
  /\ \/ /\ hooksInUse < MaxHooks
        /\ hooks' = hooks \cup {f0} /\ hooksInUse' = hooksInUse + 1
        /\ trampoline' = [trampoline EXCEPT ![f0] = "empty"]
        /\ pc' = "protect"
     \/ pc' = "resume" /\ UNCHANGED <<hooks, hooksInUse, trampoline>>
  /\ UNCHANGED <<code, pointer, walking, stopping, control>>

(* Mutant: the trampoline stays in the table.                              *)
ProtectKeeps ==
  /\ pc = "protect"
  /\ pc' \in {"copy", "resume"}
  /\ UNCHANGED <<memory, walking, stopping, control>>

(* Both pages are made writable, or the trampoline is freed.               *)
Protect ==
  /\ pc = "protect"
  /\ \/ pc' = "copy" /\ UNCHANGED memory
     \/ /\ pc' = "resume"
        /\ hooks' = hooks \ {f0} /\ hooksInUse' = hooksInUse - 1
        /\ trampoline' = [trampoline EXCEPT ![f0] = "none"]
        /\ UNCHANGED <<code, pointer>>
  /\ UNCHANGED <<walking, stopping, control>>

(* The bytes are copied, with a jump behind them to the rest.              *)
Copy ==
  /\ pc = "copy"
  /\ trampoline' = [trampoline EXCEPT ![f0] = "ready"] /\ pc' = "patch"
  /\ UNCHANGED <<code, pointer, hooks, hooksInUse, walking, stopping, control>>

(* EmitJump writes the operation first and its operand next.               *)
Patch ==
  /\ pc \in {"patch", "patched"}
  /\ code' = [code EXCEPT ![f0] = IF pc = "patch" THEN "torn" ELSE "jump"]
  /\ pc' = IF pc = "patch" THEN "patched" ELSE "publish"
  /\ UNCHANGED <<pointer, trampoline, hooks, hooksInUse, walking, stopping, control>>

(* Mutant: the threads go on before the hook's pointer is set.             *)
PublishLate ==
  /\ pc = "publish"
  /\ IF handles # {}
       THEN \E t \in handles :
              /\ suspended' = suspended \ {t} /\ handles' = handles \ {t}
              /\ UNCHANGED <<pointer, pc>>
       ELSE /\ pointer' = [pointer EXCEPT ![f0] = "trampoline"] /\ pc' = "resume"
            /\ UNCHANGED <<suspended, handles>>
  /\ UNCHANGED <<code, trampoline, hooks, hooksInUse, walking, snapshot, checking, tries,
                 missed, control>>

Publish ==
  /\ pc = "publish"
  /\ pointer' = [pointer EXCEPT ![f0] = "trampoline"] /\ pc' = "resume"
  /\ UNCHANGED <<code, trampoline, hooks, hooksInUse, walking, stopping, control>>

-----------------------------------------------------------------------------
(* Mhook_Unhook for f0.                                                    *)

Unprotect ==
  /\ pc = "unprotect"
  /\ pc' \in {"restore", "resume"}
  /\ UNCHANGED <<memory, walking, stopping, control>>

Restore ==
  /\ pc \in {"restore", "restored"}
  /\ code' = [code EXCEPT ![f0] = IF pc = "restore" THEN "torn" ELSE "original"]
  /\ pc' = IF pc = "restore" THEN "restored" ELSE "unpublish"
  /\ UNCHANGED <<pointer, trampoline, hooks, hooksInUse, walking, stopping, control>>

(* The trampoline is taken off the table; its memory stays.                *)
Unpublish ==
  /\ pc = "unpublish"
  /\ pointer' = [pointer EXCEPT ![f0] = "system"]
  /\ hooks' = hooks \ {f0} /\ hooksInUse' = hooksInUse - 1
  /\ pc' = "resume"
  /\ UNCHANGED <<code, trampoline, walking, stopping, control>>

-----------------------------------------------------------------------------
(* DllMain, Hook and UnHook.                                               *)

(* DLL_PROCESS_ATTACH; in a process other than dropbox.exe there is        *)
(* nothing to hook and the DLL is not loaded.                              *)
Attach ==
  /\ pc = "load"
  /\ pc' \in {"begin", "detached"}
  /\ UNCHANGED <<memory, walking, stopping, control>>

(* Mhook_SetHook goes on when a jump fits, Mhook_Unhook when the pointer   *)
(* is that of a trampoline in the table.                                   *)
Begin ==
  /\ pc = "begin"
  /\ pc' = IF (op = "hook" /\ f0 \in Hookable)
              \/ (op = "unhook" /\ pointer[f0] = "trampoline" /\ f0 \in hooks)
             THEN "snapshot" ELSE "leave"
  /\ UNCHANGED <<memory, walking, stopping, control>>

(* On to the next function, or the end of Hook or UnHook.                  *)
Leave ==
  /\ pc = "leave"
  /\ IF index < Len(Functions)
       THEN index' = index + 1 /\ pc' = "begin" /\ UNCHANGED hooked
       ELSE /\ pc' = IF op = "hook" THEN "attached" ELSE "detached"
            /\ hooked' = (hooked \/ op = "hook") /\ UNCHANGED index
  /\ UNCHANGED <<memory, walking, stopping, op>>

Detatch ==
  /\ pc = "attached" /\ hooked
  /\ op' = "unhook" /\ index' = 1 /\ pc' = "begin"
  /\ UNCHANGED <<memory, walking, stopping, hooked>>

HookingStep ==
  \/ Begin \/ Leave \/ Snapshot \/ Look \/ Retry \/ AllSuspended \/ ResumeOtherThreads
  \/ TrampolineAlloc \/ Protect \/ Copy \/ Patch \/ Publish
  \/ Unprotect \/ Restore \/ Unpublish
  \/ \E t \in Threads : Suspend(t)

Next ==
  \/ HookingStep \/ Attach \/ Detatch
  \/ \E t \in Threads : Birth(t) \/ Execute(t) \/ \E f \in Funcs : Call(t, f)

Spec == Init /\ [][Next]_vars

(* The hooking thread runs; it has been given the highest priority.        *)
FairSpec == Spec /\ WF_vars(HookingStep)

-----------------------------------------------------------------------------
(* Properties.                                                             *)

(* "make sure their IP is not in the code we're about to overwrite": a     *)
(* thread that was suspended and looked at executes only instructions, in  *)
(* the function before, while and after it is hooked or unhooked, and in a *)
(* trampoline that is not in use any more.  The code ignores the threads   *)
(* it could not suspend, could not look at, or that were created since.    *)
CheckedNeverLost == lost \subseteq missed

(* ... and never finds the jump in place before the pointer its hook calls *)
(* is set, which would have the hook call itself.                          *)
CheckedNeverRecurses == recursed \subseteq missed

(* A suspended thread is one that ResumeOtherThreads has a handle of, or   *)
(* that is being looked at: each goes on when the function is left.        *)
NoneForgotten ==
  /\ suspended \subseteq handles \cup {checking}
  /\ pc \notin Work => suspended = {} /\ handles = {}

(* The table holds one trampoline per hooked function, and is counted.     *)
TableCounted ==
  /\ hooksInUse = Cardinality(hooks)
  /\ \A f \in Funcs :
       /\ pointer[f] = "trampoline" => f \in hooks /\ trampoline[f] = "ready"
       /\ pc \notin Work => (f \in hooks <=> code[f] = "jump")
                           /\ (f \in hooks <=> pointer[f] = "trampoline")

(* Hooking a function ends and lets every thread go on, also when a thread *)
(* never gets out of the bytes.                                            *)
ThreadsGoOn == \A t \in Threads : t \in suspended ~> pc \notin Work

=============================================================================
