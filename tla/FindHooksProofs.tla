--------------------------- MODULE FindHooksProofs ---------------------------
(***************************************************************************)
(* Proofs about FindHooks for any threads, handles, directories and rules. *)
(***************************************************************************)
EXTENDS FindHooks, TLAPS

(* One more entry of a directory: it is visible, or it adds nothing.       *)
LEMMA EntryPassed ==
  ASSUME NEW d \in Dirs, NEW k \in Entries(d), k \notin Visible(d)
  PROVE  Visible(d) \cap 1 .. k = Visible(d) \cap 1 .. (k - 1)
<1>1. Visible(d) \subseteq Nat /\ k \in Nat
  BY ListingAssumption DEF Entries, Visible
<1>2. \A i \in Visible(d) : i \in 1 .. k <=> i \in 1 .. (k - 1)
  BY <1>1
<1> QED
  BY <1>2

LEMMA EntryAdded ==
  ASSUME NEW d \in Dirs, NEW k \in Entries(d), k \in Visible(d)
  PROVE  Visible(d) \cap 1 .. k = (Visible(d) \cap 1 .. (k - 1)) \cup {k}
  BY ListingAssumption DEF Entries, Visible

(* Whether the hooks pass an entry over is whether it is visible, once the *)
(* path is the directory.                                                  *)
LEMMA FilterIsVisible ==
  ASSUME NEW d \in Dirs, NEW k \in Entries(d), Listing[d][k] \notin Dots
  PROVE  Filter(d, Listing[d][k]) <=> k \notin Visible(d)
  BY NoneAssumption DEF Filter, Visible

LEMMA DotsVisible ==
  ASSUME NEW d \in Dirs, NEW k \in Entries(d), Listing[d][k] \in Dots
  PROVE  k \in Visible(d)
  BY DEF Visible

LEMMA EntriesNat == \A d \in Dirs : /\ Len(Listing[d]) \in Nat
                                    /\ Entries(d) \subseteq Nat
                                    /\ Listing[d] # <<>> => 1 \in Entries(d)
  BY ListingAssumption DEF Entries

(* Every step keeps the types.                                             *)
LEMMA TypeStep == TypeOK /\ [Next]_vars => TypeOK'
<1> SUFFICES ASSUME TypeOK, [Next]_vars PROVE TypeOK'
  OBVIOUS
<1> USE DEF TypeOK, Paths, Places, threadVars, Give, Free
<1>1. ASSUME NEW t \in Threads, NEW h \in Handles, NEW d \in Dirs, FindFirst(t, h, d) PROVE TypeOK'
  BY <1>1 DEF FindFirst
<1>2. ASSUME NEW t \in Threads, Store(t) PROVE TypeOK'
  BY <1>2 DEF Store
<1>3. ASSUME NEW t \in Threads, Check(t) PROVE TypeOK'
  <2>1. given' \in [Handles -> SUBSET Nat]
    BY <1>3 DEF Check
  <2>2. pc' \in [Threads -> Places] /\ user' \in [Handles -> {"none", "hooked", "foreign"}]
    BY <1>3 DEF Check
  <2>3. UNCHANGED <<opened, cursor, handle2path, handle, path>>
    BY <1>3 DEF Check
  <2> QED
    BY <2>1, <2>2, <2>3
<1>4. ASSUME NEW t \in Threads, Next1(t) PROVE TypeOK'
  <2>1. cursor' \in [Handles -> Nat]
    BY <1>4 DEF Next1
  <2>2. pc' \in [Threads -> Places]
    BY <1>4 DEF Next1
  <2>3. UNCHANGED <<opened, handle2path, handle, path, user, given>>
    BY <1>4 DEF Next1
  <2> QED
    BY <2>1, <2>2, <2>3
<1>5. ASSUME NEW t \in Threads, Close1(t) PROVE TypeOK'
  BY <1>5 DEF Close1
<1>6. ASSUME NEW t \in Threads, NEW h \in Handles, FindNext(t, h) PROVE TypeOK'
  BY <1>6 DEF FindNext
<1>7. ASSUME NEW t \in Threads, NextSys(t) PROVE TypeOK'
  <2>1. cursor' \in [Handles -> Nat]
    BY <1>7 DEF NextSys
  <2>2. given' \in [Handles -> SUBSET Nat]
    <3>1. \/ given' = given
          \/ given' = [given EXCEPT ![handle[t]] = @ \cup {cursor[handle[t]] + 1}]
      BY <1>7 DEF NextSys
    <3>2. cursor[handle[t]] + 1 \in Nat
      OBVIOUS
    <3> QED
      BY <3>1, <3>2
  <2>3. \/ pc' = [pc EXCEPT ![t] = "idle"]
        \/ pc' = [pc EXCEPT ![t] = "lookup"]
    BY <1>7 DEF NextSys
  <2>4. UNCHANGED <<opened, handle2path, handle, path, user>>
    BY <1>7 DEF NextSys
  <2> QED
    BY <2>1, <2>2, <2>3, <2>4
<1>8. ASSUME NEW t \in Threads, Lookup(t) PROVE TypeOK'
  BY <1>8 DEF Lookup
<1>9. ASSUME NEW t \in Threads, FilterEntry(t) PROVE TypeOK'
  <2>1. given' \in [Handles -> SUBSET Nat]
    BY <1>9 DEF FilterEntry
  <2>2. pc' \in [Threads -> Places]
    BY <1>9 DEF FilterEntry
  <2>3. UNCHANGED <<opened, cursor, handle2path, handle, path, user>>
    BY <1>9 DEF FilterEntry
  <2> QED
    BY <2>1, <2>2, <2>3
<1>10. ASSUME NEW t \in Threads, NEW h \in Handles, FindClose(t, h) PROVE TypeOK'
  BY <1>10 DEF FindClose
<1>11. ASSUME NEW t \in Threads, NEW h \in Handles, NEW d \in Dirs, OpenForeign(t, h, d) PROVE TypeOK'
  BY <1>11 DEF OpenForeign
<1>12. CASE UNCHANGED vars
  BY <1>12 DEF vars
<1> QED
  BY <1>1, <1>2, <1>3, <1>4, <1>5, <1>6, <1>7, <1>8, <1>9, <1>10, <1>11, <1>12
  DEF Next, HookStep

-----------------------------------------------------------------------------
(* The inductive invariant: TypeOK and CallsInProgress make the two        *)
(* properties of handles that no call is working on inductive.             *)
IInv == TypeOK /\ CallsInProgress /\ HandleKnowsDirectory /\ VisibleGiven

LEMMA InitIInv == Init => IInv
  BY DEF Init, IInv, TypeOK, CallsInProgress, OneCall, OpenHandles, CallState, HandleKnowsDirectory, VisibleGiven,
         InCall, Paths, Places

(* The loops of the hooks, entry by entry.                                 *)
LEMMA LoopStep ==
  ASSUME IInv, TypeOK', NEW t \in Threads, Check(t) \/ Next1(t) \/ NextSys(t) \/ FilterEntry(t)
  PROVE  CallsInProgress' /\ HandleKnowsDirectory' /\ VisibleGiven'
<1> DEFINE h == handle[t]
           d == opened[h]
<1> USE DEF IInv, TypeOK
<1>0. /\ h \in Handles /\ d \in Dirs /\ cursor[h] \in Entries(d) /\ cursor[h] \in Nat
      /\ \A q \in Threads \ {t} : pc[q] # "idle" => handle[q] # h
      /\ CallState(t)
      /\ pc[t] # "idle"
  <2>1. pc[t] # "idle"
    BY DEF Check, Next1, NextSys, FilterEntry
  <2> QED
    BY <2>1 DEF CallsInProgress, OneCall, CallState
<1>1. CASE Check(t)
  <2>1. CASE Found(h) \in Dots \/ ~Filter(path[t], Found(h))
    <3>1. /\ given' = [given EXCEPT ![h] = @ \cup {cursor[h]}]
          /\ pc' = [pc EXCEPT ![t] = "idle"]
          /\ user' = [user EXCEPT ![h] = "hooked"]
          /\ UNCHANGED <<opened, cursor, handle2path, handle, path>>
          /\ pc[t] = "check"
      BY <1>1, <2>1 DEF Check, Give
    <3>2. cursor[h] \in Visible(d)
      BY <1>0, <2>1, <3>1, FilterIsVisible, DotsVisible DEF CallState, Found
    <3>3. GivenUpTo(h, cursor[h])'
      BY <1>0, <3>1, <3>2, EntryAdded DEF CallState, GivenUpTo
    <3> QED
      BY <1>0, <3>1, <3>3 DEF CallsInProgress, OneCall, OpenHandles, CallState, HandleKnowsDirectory, VisibleGiven,
                              InCall, GivenUpTo, Found
  <2>2. CASE ~(Found(h) \in Dots \/ ~Filter(path[t], Found(h)))
    <3>1. /\ pc' = [pc EXCEPT ![t] = "next"]
          /\ UNCHANGED <<opened, cursor, handle2path, handle, path, user, given>>
          /\ pc[t] = "check"
      BY <1>1, <2>2 DEF Check
    <3>2. cursor[h] \notin Visible(d)
      BY <1>0, <2>2, <3>1, FilterIsVisible DEF CallState, Found
    <3>3. GivenUpTo(h, cursor[h])
      BY <1>0, <3>1, <3>2, EntryPassed DEF CallState, GivenUpTo
    <3> QED
      BY <1>0, <3>1, <3>3 DEF CallsInProgress, OneCall, OpenHandles, CallState, HandleKnowsDirectory, VisibleGiven,
                              InCall, GivenUpTo, Found
  <2> QED
    BY <2>1, <2>2
<1>2. CASE Next1(t)
  <2>1. CASE cursor[h] < Len(Listing[d])
    <3>1. /\ cursor' = [cursor EXCEPT ![h] = @ + 1]
          /\ pc' = [pc EXCEPT ![t] = "check"]
          /\ UNCHANGED <<opened, handle2path, handle, path, user, given>>
          /\ pc[t] = "next"
      BY <1>2, <2>1 DEF Next1
    <3>2. /\ cursor'[h] \in Entries(d) /\ cursor'[h] - 1 = cursor[h]
          /\ user[h] = "none"
          /\ GivenUpTo(h, cursor[h])
      BY <1>0, <2>1, <3>1, EntriesNat DEF CallState, Entries
    <3>3. GivenUpTo(h, cursor[h] - 1)'
      BY <3>1, <3>2 DEF GivenUpTo
    <3> QED
      BY <1>0, <3>1, <3>2, <3>3 DEF CallsInProgress, OneCall, OpenHandles, CallState, HandleKnowsDirectory,
                                    VisibleGiven, InCall, GivenUpTo, Found
  <2>2. CASE ~(cursor[h] < Len(Listing[d]))
    <3>1. /\ pc' = [pc EXCEPT ![t] = "close"]
          /\ UNCHANGED <<opened, cursor, handle2path, handle, path, user, given>>
          /\ pc[t] = "next"
      BY <1>2, <2>2 DEF Next1
    <3> QED
      BY <1>0, <3>1 DEF CallsInProgress, OneCall, OpenHandles, CallState, HandleKnowsDirectory, VisibleGiven,
                        InCall, GivenUpTo, Found
  <2> QED
    BY <2>1, <2>2
<1>3. CASE NextSys(t)
  <2>0. /\ pc[t] = "findNext"
        /\ UNCHANGED <<opened, handle2path, handle, path, user>>
    BY <1>3 DEF NextSys
  <2>1. CASE cursor[h] = Len(Listing[d])
    <3>1. /\ pc' = [pc EXCEPT ![t] = "idle"]
          /\ UNCHANGED <<cursor, given>>
      BY <1>3, <2>1 DEF NextSys
    <3> QED
      BY <1>0, <2>0, <3>1 DEF CallsInProgress, OneCall, OpenHandles, CallState, HandleKnowsDirectory, VisibleGiven,
                              InCall, GivenUpTo, Found
  <2>2. CASE cursor[h] # Len(Listing[d]) /\ Listing[d][cursor[h] + 1] \in Dots
    <3>1. /\ cursor' = [cursor EXCEPT ![h] = @ + 1]
          /\ given' = [given EXCEPT ![h] = @ \cup {cursor[h] + 1}]
          /\ pc' = [pc EXCEPT ![t] = "idle"]
      BY <1>3, <2>2 DEF NextSys
    <3>2. cursor[h] + 1 \in Entries(d) /\ (cursor[h] + 1) - 1 = cursor[h]
      BY <1>0, <2>2, EntriesNat DEF Entries
    <3>3. user[h] = "hooked" => GivenUpTo(h, cursor[h])'
      BY <1>0, <2>0, <2>2, <3>1, <3>2, DotsVisible, EntryAdded DEF CallState, GivenUpTo
    <3> QED
      BY <1>0, <2>0, <3>1, <3>2, <3>3 DEF CallsInProgress, OneCall, OpenHandles, CallState, HandleKnowsDirectory,
                                          VisibleGiven, InCall, GivenUpTo, Found
  <2>3. CASE cursor[h] # Len(Listing[d]) /\ Listing[d][cursor[h] + 1] \notin Dots
    <3>1. /\ cursor' = [cursor EXCEPT ![h] = @ + 1]
          /\ pc' = [pc EXCEPT ![t] = "lookup"]
          /\ given' = given
      BY <1>3, <2>3 DEF NextSys
    <3>2. cursor[h] + 1 \in Entries(d) /\ (cursor[h] + 1) - 1 = cursor[h]
      BY <1>0, <2>3, EntriesNat DEF Entries
    <3>3. user[h] = "hooked" => GivenUpTo(h, cursor[h] - 1)'
      BY <1>0, <2>0, <3>1, <3>2 DEF CallState, GivenUpTo
    <3>4. (Found(h) \notin Dots)'
      BY <1>0, <2>0, <2>3, <3>1 DEF Found
    <3> QED
      BY <1>0, <2>0, <3>1, <3>2, <3>3, <3>4 DEF CallsInProgress, OneCall, OpenHandles, CallState,
         HandleKnowsDirectory, VisibleGiven, InCall, GivenUpTo, Found
  <2> QED
    BY <2>1, <2>2, <2>3
<1>4. CASE FilterEntry(t)
  <2>0. /\ pc[t] = "filter"
        /\ UNCHANGED <<opened, cursor, handle2path, handle, path, user>>
    BY <1>4 DEF FilterEntry
  <2>1. CASE Filter(path[t], Found(h))
    <3>1. pc' = [pc EXCEPT ![t] = "findNext"] /\ given' = given
      BY <1>4, <2>1 DEF FilterEntry
    <3>2. user[h] = "hooked" => cursor[h] \notin Visible(d)
      BY <1>0, <2>0, <2>1, FilterIsVisible DEF CallState, HandleKnowsDirectory, Found
    <3>3. user[h] = "hooked" => GivenUpTo(h, cursor[h])
      BY <1>0, <2>0, <3>2, EntryPassed DEF CallState, GivenUpTo
    <3> QED
      BY <1>0, <2>0, <3>1, <3>3 DEF CallsInProgress, OneCall, OpenHandles, CallState, HandleKnowsDirectory,
                                    VisibleGiven, InCall, GivenUpTo, Found
  <2>2. CASE ~Filter(path[t], Found(h))
    <3>1. /\ pc' = [pc EXCEPT ![t] = "idle"]
          /\ given' = [given EXCEPT ![h] = @ \cup {cursor[h]}]
      BY <1>4, <2>2 DEF FilterEntry, Give
    <3>2. user[h] = "hooked" => cursor[h] \in Visible(d)
      BY <1>0, <2>0, <2>2, FilterIsVisible DEF CallState, HandleKnowsDirectory, Found
    <3>3. user[h] = "hooked" => GivenUpTo(h, cursor[h])'
      BY <1>0, <2>0, <3>1, <3>2, EntryAdded DEF CallState, GivenUpTo
    <3> QED
      BY <1>0, <2>0, <3>1, <3>3 DEF CallsInProgress, OneCall, OpenHandles, CallState, HandleKnowsDirectory,
                                    VisibleGiven, InCall, GivenUpTo, Found
  <2> QED
    BY <2>1, <2>2
<1> QED
  BY <1>1, <1>2, <1>3, <1>4

LEMMA NextIInv == IInv /\ [Next]_vars => IInv'
<1> SUFFICES ASSUME IInv, [Next]_vars PROVE IInv'
  OBVIOUS
<1> DEFINE Rest == CallsInProgress /\ HandleKnowsDirectory /\ VisibleGiven
<1>0. TypeOK'
  BY TypeStep DEF IInv
<1> USE EntriesNat, NoneAssumption
    DEF IInv, TypeOK, CallsInProgress, OneCall, OpenHandles, CallState, HandleKnowsDirectory, VisibleGiven, InCall,
        GivenUpTo, Found, threadVars, Free
<1>1. ASSUME NEW t \in Threads, NEW h \in Handles, NEW d \in Dirs, FindFirst(t, h, d) PROVE Rest'
  <2>1. /\ pc[t] = "idle" /\ opened[h] = NoDir /\ 1 \in Entries(d)
        /\ user[h] = "none"
        /\ \A q \in Threads : pc[q] # "idle" => handle[q] # h
    BY <1>1 DEF FindFirst
  <2>2. CallState(t)' /\ OneCall'
    BY <1>1, <2>1 DEF FindFirst
  <2>3. \A q \in Threads \ {t} : CallState(q)'
    BY <1>1, <2>1 DEF FindFirst
  <2>4. OpenHandles'
    BY <1>1, <2>1 DEF FindFirst
  <2>5. HandleKnowsDirectory' /\ VisibleGiven'
    BY <1>1, <2>1 DEF FindFirst
  <2> HIDE DEF CallState, OneCall, OpenHandles, HandleKnowsDirectory, VisibleGiven
  <2> QED
    BY <2>2, <2>3, <2>4, <2>5
<1>2. ASSUME NEW t \in Threads, Store(t) PROVE Rest'
  <2>1. CallState(t)'
    BY <1>2 DEF Store
  <2>2. \A q \in Threads \ {t} : CallState(q)'
    BY <1>2 DEF Store
  <2>3. OneCall' /\ OpenHandles'
    BY <1>2 DEF Store
  <2>4. HandleKnowsDirectory' /\ VisibleGiven'
    BY <1>2 DEF Store
  <2> HIDE DEF CallState, OneCall, OpenHandles, HandleKnowsDirectory, VisibleGiven
  <2> QED
    BY <2>1, <2>2, <2>3, <2>4
<1>3. ASSUME NEW t \in Threads, Check(t) \/ Next1(t) \/ NextSys(t) \/ FilterEntry(t) PROVE Rest'
  BY <1>0, <1>3, LoopStep
<1>4. ASSUME NEW t \in Threads, Close1(t) PROVE Rest'
  <2>1. CallState(t)'
    BY <1>4 DEF Close1
  <2>2. \A q \in Threads \ {t} : CallState(q)'
    BY <1>4 DEF Close1
  <2>3. OneCall' /\ OpenHandles'
    BY <1>4 DEF Close1
  <2>4. HandleKnowsDirectory' /\ VisibleGiven'
    BY <1>4 DEF Close1
  <2> HIDE DEF CallState, OneCall, OpenHandles, HandleKnowsDirectory, VisibleGiven
  <2> QED
    BY <2>1, <2>2, <2>3, <2>4
<1>5. ASSUME NEW t \in Threads, NEW h \in Handles, FindNext(t, h) PROVE Rest'
  <2>1. CallState(t)'
    BY <1>5 DEF FindNext
  <2>2. \A q \in Threads \ {t} : CallState(q)'
    BY <1>5 DEF FindNext
  <2>3. OneCall' /\ OpenHandles'
    BY <1>5 DEF FindNext
  <2>4. HandleKnowsDirectory' /\ VisibleGiven'
    BY <1>5 DEF FindNext
  <2> HIDE DEF CallState, OneCall, OpenHandles, HandleKnowsDirectory, VisibleGiven
  <2> QED
    BY <2>1, <2>2, <2>3, <2>4
<1>6. ASSUME NEW t \in Threads, Lookup(t) PROVE Rest'
  <2>1. CallState(t)'
    BY <1>6 DEF Lookup
  <2>2. \A q \in Threads \ {t} : CallState(q)'
    BY <1>6 DEF Lookup
  <2>3. OneCall' /\ OpenHandles'
    BY <1>6 DEF Lookup
  <2>4. HandleKnowsDirectory' /\ VisibleGiven'
    BY <1>6 DEF Lookup
  <2> HIDE DEF CallState, OneCall, OpenHandles, HandleKnowsDirectory, VisibleGiven
  <2> QED
    BY <2>1, <2>2, <2>3, <2>4
<1>7. ASSUME NEW t \in Threads, NEW h \in Handles, FindClose(t, h) PROVE Rest'
  <2>1. ASSUME NEW q \in Threads PROVE CallState(q)'
    BY <1>7 DEF FindClose, Free
  <2>2. OneCall' /\ OpenHandles'
    BY <1>7 DEF FindClose
  <2>3. HandleKnowsDirectory'
    BY <1>7 DEF FindClose
  <2>4. VisibleGiven'
    BY <1>7 DEF FindClose
  <2> HIDE DEF CallState, OneCall, OpenHandles, HandleKnowsDirectory, VisibleGiven
  <2> QED
    BY <2>1, <2>2, <2>3, <2>4
<1>8. ASSUME NEW t \in Threads, NEW h \in Handles, NEW d \in Dirs, OpenForeign(t, h, d) PROVE Rest'
  <2>1. ASSUME NEW q \in Threads PROVE CallState(q)'
    BY <1>8 DEF OpenForeign, Free
  <2>2. OneCall' /\ OpenHandles'
    BY <1>8 DEF OpenForeign
  <2>3. HandleKnowsDirectory'
    BY <1>8 DEF OpenForeign
  <2>4. VisibleGiven'
    BY <1>8 DEF OpenForeign
  <2> HIDE DEF CallState, OneCall, OpenHandles, HandleKnowsDirectory, VisibleGiven
  <2> QED
    BY <2>1, <2>2, <2>3, <2>4
<1>9. ASSUME UNCHANGED vars PROVE Rest'
  <2>1. ASSUME NEW q \in Threads PROVE CallState(q)'
    BY <1>9 DEF vars
  <2>2. OneCall' /\ OpenHandles'
    BY <1>9 DEF vars
  <2>3. HandleKnowsDirectory' /\ VisibleGiven'
    BY <1>9 DEF vars
  <2> HIDE DEF CallState, OneCall, OpenHandles, HandleKnowsDirectory, VisibleGiven
  <2> QED
    BY <2>1, <2>2, <2>3
<1> HIDE DEF CallState, OneCall, OpenHandles, CallsInProgress, HandleKnowsDirectory, VisibleGiven
<1> QED
  BY <1>0, <1>1, <1>2, <1>3, <1>4, <1>5, <1>6, <1>7, <1>8, <1>9 DEF Next, HookStep

LEMMA Invariance == Spec => []IInv
  BY InitIInv, NextIInv, PTL DEF Spec

(* Every hook keeps the types, and a handle's position is one of its       *)
(* directory's entries.                                                    *)
THEOREM TypeCorrect == Spec => []TypeOK
<1>1. IInv => TypeOK
  BY DEF IInv
<1> QED
  BY <1>1, Invariance, PTL

(* What a call of FindFirstFileW_hook or FindNextFileW_hook relies on in   *)
(* between its steps holds whatever the other threads do.                  *)
THEOREM CallsUndisturbed == Spec => []CallsInProgress
<1>1. IInv => CallsInProgress
  BY DEF IInv
<1> QED
  BY <1>1, Invariance, PTL

(* The map is right for every open handle though entries are never removed *)
(* and handle values are used again.                                       *)
THEOREM DirectoriesKnown == Spec => []HandleKnowsDirectory
<1>1. IInv => HandleKnowsDirectory
  BY DEF IInv
<1> QED
  BY <1>1, Invariance, PTL

(* Enumerations leave out the filtered entries, and nothing else.          *)
THEOREM EnumerationsFiltered == Spec => []VisibleGiven
<1>1. IInv => VisibleGiven
  BY DEF IInv
<1> QED
  BY <1>1, Invariance, PTL

=============================================================================
