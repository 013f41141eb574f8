------------------------------ MODULE FindHooks ------------------------------
(***************************************************************************)
(* The hooks of FindFirstFileW, FindFirstFileExW and FindNextFileW in      *)
(* Inject/Hook.cpp: directory enumerations that leave filtered entries     *)
(* out, by several threads that share the map handle2path.                 *)
(*                                                                         *)
(* The two hooks of FindFirst are the same code and are one operation      *)
(* here.  FindClose_hook is written and never installed, so the system     *)
(* reuses handle values that handle2path still has entries for.  The rules *)
(* do not change here (SettingsReload is about that): Filter is a          *)
(* constant.  Each critical section of handle2pathMutex is one action.     *)
(***************************************************************************)
EXTENDS Integers, Sequences

CONSTANTS
  Threads,    \* the application's threads
  Handles,    \* the handle values the system has
  Dirs,       \* what FindFirst is called for: the path up to the last separator
  Names,      \* the names of directory entries
  Listing,    \* per directory: the entries the system enumerates, in order
  Dots,       \* the entries named "." and ".."
  Filtered,   \* the pairs of directory and entry that Filter says to filter
  NoDir,      \* a handle that is not open
  NoPath      \* handle2path has no entry for the handle

ASSUME ListingAssumption == Listing \in [Dirs -> Seq(Names)]
ASSUME NoneAssumption == NoDir \notin Dirs /\ NoPath \notin Dirs

VARIABLES
  opened,      \* system, per handle: the directory it enumerates
  cursor,      \* system, per handle: how many entries it has returned
  handle2path,
  pc,          \* per thread: where it is in a hook
  handle,      \* per thread: hRet, hFindFile
  path,        \* per thread: the local variable path
  user,        \* per handle: "none", or the application has it, from a "hooked"
               \* or a "foreign" function (one that is not hooked)
  given        \* history, per handle: positions of the entries the application got

threadVars == <<pc, handle, path>>
vars == <<opened, cursor, handle2path, pc, handle, path, user, given>>

-----------------------------------------------------------------------------
Entries(d) == 1 .. Len(Listing[d])

Paths == Dirs \cup {NoPath}

Places == {"idle", "store", "check", "next", "close", "findNext", "lookup", "filter"}

TypeOK ==
  /\ opened      \in [Handles -> Dirs \cup {NoDir}]
  /\ cursor      \in [Handles -> Nat]
  /\ handle2path \in [Handles -> Paths]
  /\ pc          \in [Threads -> Places]
  /\ handle      \in [Threads -> Handles]
  /\ path        \in [Threads -> Paths]
  /\ user        \in [Handles -> {"none", "hooked", "foreign"}]
  /\ given       \in [Handles -> SUBSET Nat]

Init ==
  /\ opened      = [h \in Handles |-> NoDir]
  /\ cursor      = [h \in Handles |-> 0]
  /\ handle2path = [h \in Handles |-> NoPath]
  /\ pc          = [t \in Threads |-> "idle"]
  /\ handle      \in [Threads -> Handles]
  /\ path        = [t \in Threads |-> NoPath]
  /\ user        = [h \in Handles |-> "none"]
  /\ given       = [h \in Handles |-> {}]

-----------------------------------------------------------------------------
(* Filter(path + cFileName): a path that is not below the Dropbox          *)
(* directory, such as an entry name alone, is never filtered.              *)
Filter(p, entry) == p # NoPath /\ <<p, entry>> \in Filtered

(* The entry that the system has put into lpFindFileData.                  *)
Found(h) == Listing[opened[h]][cursor[h]]

(* The hook returns to the application with an entry.                      *)
Give(t, h) ==
  /\ given' = [given EXCEPT ![h] = @ \cup {cursor[h]}]
  /\ pc'    = [pc EXCEPT ![t] = "idle"]

(* FindFirstFileW_sys succeeds with a handle value that is free.           *)
FindFirst(t, h, d) ==
  /\ pc[t] = "idle"
  /\ opened[h] = NoDir
  /\ Listing[d] # <<>>
  /\ opened' = [opened EXCEPT ![h] = d]
  /\ cursor' = [cursor EXCEPT ![h] = 1]
  /\ given'  = [given EXCEPT ![h] = {}]
  /\ handle' = [handle EXCEPT ![t] = h]
  /\ path'   = [path EXCEPT ![t] = d]
  /\ pc'     = [pc EXCEPT ![t] = "store"]
  /\ UNCHANGED <<handle2path, user>>

(* Mutant: map::insert, which keeps an entry that is there.                *)
StoreNew(t) ==
  /\ pc[t] = "store"
  /\ handle2path' = [handle2path EXCEPT ![handle[t]] = IF @ = NoPath THEN path[t] ELSE @]
  /\ pc' = [pc EXCEPT ![t] = "check"]
  /\ UNCHANGED <<opened, cursor, handle, path, user, given>>

(* handle2path[hRet] = path;                                               *)
Store(t) ==
  /\ pc[t] = "store"
  /\ handle2path' = [handle2path EXCEPT ![handle[t]] = path[t]]
  /\ pc' = [pc EXCEPT ![t] = "check"]
  /\ UNCHANGED <<opened, cursor, handle, path, user, given>>

(* Mutant: the first entry is returned as it is.                           *)
CheckNothing(t) ==
  LET h == handle[t] IN
  /\ pc[t] = "check"
  /\ Give(t, h) /\ user' = [user EXCEPT ![h] = "hooked"]
  /\ UNCHANGED <<opened, cursor, handle2path, handle, path>>

(* The first entry that is "." or ".." or not filtered is returned with    *)
(* the handle.                                                             *)
Check(t) ==
  LET h == handle[t] IN
  /\ pc[t] = "check"
  /\ IF Found(h) \in Dots \/ ~Filter(path[t], Found(h))
       THEN Give(t, h) /\ user' = [user EXCEPT ![h] = "hooked"]
       ELSE pc' = [pc EXCEPT ![t] = "next"] /\ UNCHANGED <<user, given>>
  /\ UNCHANGED <<opened, cursor, handle2path, handle, path>>

(* FindNextFileW_sys inside the hook of FindFirst.                         *)
Next1(t) ==
  LET h == handle[t] IN
  /\ pc[t] = "next"
  /\ IF cursor[h] < Len(Listing[opened[h]])
       THEN cursor' = [cursor EXCEPT ![h] = @ + 1] /\ pc' = [pc EXCEPT ![t] = "check"]
       ELSE pc' = [pc EXCEPT ![t] = "close"] /\ UNCHANGED cursor
  /\ UNCHANGED <<opened, handle2path, handle, path, user, given>>

(* Every entry was filtered: FindClose(hRet), return INVALID_HANDLE_VALUE. *)
Close1(t) ==
  /\ pc[t] = "close"
  /\ opened' = [opened EXCEPT ![handle[t]] = NoDir]
  /\ cursor' = [cursor EXCEPT ![handle[t]] = 0]
  /\ pc' = [pc EXCEPT ![t] = "idle"]
  /\ UNCHANGED <<handle2path, handle, path, user, given>>

-----------------------------------------------------------------------------
(* The application calls FindNextFileW_hook or FindClose for a handle that *)
(* it has and that no other thread is using.                               *)
Free(t, h) ==
  /\ pc[t] = "idle"
  /\ user[h] # "none"
  /\ \A q \in Threads : pc[q] = "idle" \/ handle[q] # h

FindNext(t, h) ==
  /\ Free(t, h)
  /\ handle' = [handle EXCEPT ![t] = h]
  /\ pc' = [pc EXCEPT ![t] = "findNext"]
  /\ UNCHANGED <<opened, cursor, handle2path, path, user, given>>

(* FindNextFileW_sys: no more entries, "." or "..", or an entry to check.  *)
NextSys(t) ==
  LET h == handle[t] IN
  /\ pc[t] = "findNext"
  /\ IF cursor[h] = Len(Listing[opened[h]])
       THEN pc' = [pc EXCEPT ![t] = "idle"] /\ UNCHANGED <<cursor, given>>
       ELSE /\ cursor' = [cursor EXCEPT ![h] = @ + 1]
            /\ IF Listing[opened[h]][cursor[h] + 1] \in Dots
                 THEN /\ given' = [given EXCEPT ![h] = @ \cup {cursor[h] + 1}]
                      /\ pc' = [pc EXCEPT ![t] = "idle"]
                 ELSE pc' = [pc EXCEPT ![t] = "lookup"] /\ UNCHANGED given
  /\ UNCHANGED <<opened, handle2path, handle, path, user>>

(* handle2path.find(hFindFile), copied under the mutex.                    *)
Lookup(t) ==
  /\ pc[t] = "lookup"
  /\ path' = [path EXCEPT ![t] = handle2path[handle[t]]]
  /\ pc' = [pc EXCEPT ![t] = "filter"]
  /\ UNCHANGED <<opened, cursor, handle2path, handle, user, given>>

(* Mutant: continue without FindNextFileW.                                 *)
FilterAgain(t) ==
  LET h == handle[t] IN
  /\ pc[t] = "filter"
  /\ IF Filter(path[t], Found(h))
       THEN pc' = [pc EXCEPT ![t] = "lookup"] /\ UNCHANGED given
       ELSE Give(t, h)
  /\ UNCHANGED <<opened, cursor, handle2path, handle, path, user>>

(* A filtered entry is passed over, any other goes to the application.     *)
FilterEntry(t) ==
  LET h == handle[t] IN
  /\ pc[t] = "filter"
  /\ IF Filter(path[t], Found(h))
       THEN pc' = [pc EXCEPT ![t] = "findNext"] /\ UNCHANGED given
       ELSE Give(t, h)
  /\ UNCHANGED <<opened, cursor, handle2path, handle, path, user>>

(* FindClose is not hooked: handle2path keeps the entry.                   *)
FindClose(t, h) ==
  /\ Free(t, h)
  /\ opened' = [opened EXCEPT ![h] = NoDir]
  /\ cursor' = [cursor EXCEPT ![h] = 0]
  /\ user'   = [user EXCEPT ![h] = "none"]
  /\ UNCHANGED <<handle2path, threadVars, given>>

(* A find handle comes from a function that is not hooked, as              *)
(* FindFirstFileTransactedW; FindNextFileW is used with it all the same.   *)
OpenForeign(t, h, d) ==
  /\ pc[t] = "idle"
  /\ opened[h] = NoDir
  /\ Listing[d] # <<>>
  /\ opened' = [opened EXCEPT ![h] = d]
  /\ cursor' = [cursor EXCEPT ![h] = 1]
  /\ given'  = [given EXCEPT ![h] = {1}]
  /\ user'   = [user EXCEPT ![h] = "foreign"]
  /\ UNCHANGED <<handle2path, threadVars>>

-----------------------------------------------------------------------------
HookStep(t) ==
  \/ Store(t) \/ Check(t) \/ Next1(t) \/ Close1(t)
  \/ NextSys(t) \/ Lookup(t) \/ FilterEntry(t)

Next ==
  \E t \in Threads :
    \/ HookStep(t)
    \/ \E h \in Handles : FindNext(t, h) \/ FindClose(t, h)
    \/ \E h \in Handles, d \in Dirs : FindFirst(t, h, d) \/ OpenForeign(t, h, d)

Spec == Init /\ [][Next]_vars

FairSpec == Spec /\ \A t \in Threads : WF_vars(HookStep(t))

-----------------------------------------------------------------------------
(* Properties.                                                             *)

InCall(t, h) == pc[t] # "idle" /\ handle[t] = h

(* The entries of a directory the application is meant to see.             *)
Visible(d) == {i \in Entries(d) : Listing[d][i] \in Dots \/ <<d, Listing[d][i]>> \notin Filtered}

(* The first k entries have been dealt with: the application has those it  *)
(* may see.                                                                *)
GivenUpTo(h, k) == given[h] = Visible(opened[h]) \cap 1 .. k

(* A handle that FindFirst's hook has given away stands for its directory  *)
(* in handle2path until it is closed, though entries of closed handles are *)
(* never removed and the system reuses the handle values.                  *)
HandleKnowsDirectory ==
  \A h \in Handles : user[h] = "hooked" => handle2path[h] = opened[h]

(* An enumeration that the hooks began gives the application every visible *)
(* entry up to the system's position and no other, whatever other threads  *)
(* and handles do.                                                         *)
VisibleGiven ==
  \A h \in Handles :
    user[h] = "hooked" /\ (\A t \in Threads : ~InCall(t, h))
      => GivenUpTo(h, cursor[h])

(* What a call in progress may rely on: the handle is its own and stays    *)
(* open, its local path is the directory of the handle before the handle   *)
(* is known to anyone else, and the entry in lpFindFileData is the only    *)
(* one that is not dealt with.                                             *)
CallState(t) == LET h == handle[t] IN
  /\ pc[t] # "idle" => opened[h] # NoDir /\ cursor[h] \in Entries(opened[h])
  /\ pc[t] \in {"store", "check", "next", "close"} => user[h] = "none" /\ path[t] = opened[h]
  /\ pc[t] \in {"check", "next", "close"} => handle2path[h] = opened[h]
  /\ pc[t] \in {"store", "check"} => GivenUpTo(h, cursor[h] - 1)
  /\ pc[t] \in {"next", "close"} => GivenUpTo(h, cursor[h])
  /\ pc[t] \in {"findNext", "lookup", "filter"} => user[h] # "none"
  /\ pc[t] = "findNext" /\ user[h] = "hooked" => GivenUpTo(h, cursor[h])
  /\ pc[t] \in {"lookup", "filter"} => Found(h) \notin Dots
  /\ pc[t] \in {"lookup", "filter"} /\ user[h] = "hooked" => GivenUpTo(h, cursor[h] - 1)
  /\ pc[t] = "filter" => path[t] = handle2path[h]

OneCall ==
  \A t, q \in Threads : pc[t] # "idle" /\ pc[q] # "idle" /\ handle[t] = handle[q] => t = q

OpenHandles ==
  \A h \in Handles : user[h] # "none" => opened[h] # NoDir /\ cursor[h] \in Entries(opened[h])

CallsInProgress == OneCall /\ OpenHandles /\ \A t \in Threads : CallState(t)

(* Every call of a hook returns: filtered entries are passed over, not     *)
(* waited for.                                                             *)
CallsReturn == \A t \in Threads : pc[t] # "idle" ~> pc[t] = "idle"

=============================================================================
