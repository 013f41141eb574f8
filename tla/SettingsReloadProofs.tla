------------------------ MODULE SettingsReloadProofs ------------------------
(***************************************************************************)
(* Proofs about SettingsReload for any readers, files, versions and        *)
(* bounds.                                                                 *)
(***************************************************************************)
EXTENDS SettingsReload, SequenceTheorems, WellFoundedInduction, TLAPS

-----------------------------------------------------------------------------
(* The inductive invariant.                                                *)

(* What the first n versions say.                                          *)
Written(s, n) == \E v \in 1 .. n : \E i \in 1 .. Len(Versions[v]) : Versions[v][i] = s

MadeOf(files, n) ==
  \E v \in 1 .. n : \E i \in 1 .. Len(Versions[v]) :
    ~Versions[v][i].exception /\ Versions[v][i].files = files

(* The rules, and the statements that are still to be pushed, are written. *)
RulesInv ==
  /\ \A i \in 1 .. Len(filterExpr) : MadeOf(filterExpr[i], version)
  /\ \A t \in Readers : \A i \in 1 .. Len(stack[t]) : \A j \in 1 .. Len(stack[t][i].rest) :
       Written(stack[t][i].rest[j], version)
  /\ FilteredByRule

(* A call waits for the one it has led to within _wstat64.                 *)
StackInv == \A t \in Readers : \A i \in 1 .. Len(stack[t]) - 1 : stack[t][i].pc = "decide"

Past(t) == stack[t] # <<>> /\ stack[t][1].pc \notin {"guard", "enter"}

(* As long as readers do not get past the guard together, the one that is  *)
(* has set the flag, up to the point where the lists are cleared.          *)
AloneInv ==
  ~raced =>
    /\ \A t, u \in Readers : Past(t) /\ Past(u) => t = u
    /\ \A t \in Readers :
         Past(t) /\ stack[t][1].pc \in {"stat", "decide", "record", "open", "clear"} => inside
    /\ \A t \in Readers : Len(stack[t]) > 1 => Len(stack[t]) = 2 /\ stack[t][2].pc = "guard"

EditInv == truncated => version < Len(Versions)

IInv == TypeOK /\ EditInv /\ RulesInv /\ StackInv /\ AloneInv

-----------------------------------------------------------------------------
(* Stacks.                                                                 *)

LEMMA Shortened ==
  ASSUME NEW S, NEW s \in Seq(S), Len(s) >= 1
  PROVE  /\ SubSeq(s, 1, Len(s) - 1) \in Seq(S)
         /\ Len(SubSeq(s, 1, Len(s) - 1)) = Len(s) - 1
         /\ \A i \in 1 .. Len(s) - 1 : SubSeq(s, 1, Len(s) - 1)[i] = s[i]
<1>1. Len(s) - 1 \in Int /\ \A i \in 1 .. Len(s) - 1 : s[i] \in S /\ 1 + i - 1 = i
  OBVIOUS
<1>2. /\ SubSeq(s, 1, Len(s) - 1) \in Seq(S)
      /\ Len(SubSeq(s, 1, Len(s) - 1)) = IF 1 <= Len(s) - 1 THEN Len(s) - 1 - 1 + 1 ELSE 0
      /\ \A i \in 1 .. Len(s) - 1 - 1 + 1 : SubSeq(s, 1, Len(s) - 1)[i] = s[1 + i - 1]
  BY <1>1, SubSeqProperties
<1>n. Len(s) \in Nat
  OBVIOUS
<1>3. /\ Len(s) - 1 - 1 + 1 = Len(s) - 1
      /\ (IF 1 <= Len(s) - 1 THEN Len(s) - 1 - 1 + 1 ELSE 0) = Len(s) - 1
  <2> SUFFICES ASSUME NEW n \in Nat, n >= 1
               PROVE  /\ n - 1 - 1 + 1 = n - 1
                      /\ (IF 1 <= n - 1 THEN n - 1 - 1 + 1 ELSE 0) = n - 1
    BY <1>n
  <2> QED
    OBVIOUS
<1>4. Len(SubSeq(s, 1, Len(s) - 1)) = Len(s) - 1
  BY ONLY <1>2, <1>3
<1>5. \A i \in 1 .. Len(s) - 1 : SubSeq(s, 1, Len(s) - 1)[i] = s[i]
  <2> SUFFICES ASSUME NEW i \in 1 .. Len(s) - 1
               PROVE  SubSeq(s, 1, Len(s) - 1)[i] = s[i]
    OBVIOUS
  <2>1. 1 + i - 1 = i
    BY <1>3
  <2>2. SubSeq(s, 1, Len(s) - 1)[i] = s[1 + i - 1]
    BY <1>2, <1>3, Zenon
  <2> QED
    BY <2>1, <2>2, Zenon
<1> QED
  BY <1>2, <1>4, <1>5, Zenon

LEMMA Depth ==
  ASSUME TypeOK, NEW t \in Readers
  PROVE  /\ Len(stack[t]) \in Nat
         /\ stack[t] # <<>> <=> Len(stack[t]) >= 1
         /\ stack[t] # <<>> => Top(t) \in Frames /\ Top(t) = stack[t][Len(stack[t])]
         /\ \A i \in 1 .. Len(stack[t]) : stack[t][i] \in Frames
<1>1. stack[t] \in Seq(Frames)
  BY DEF TypeOK
<1>2. Len(stack[t]) \in Nat /\ (stack[t] # <<>> <=> Len(stack[t]) >= 1)
  BY <1>1, EmptySeq
<1>3. \A i \in 1 .. Len(stack[t]) : stack[t][i] \in Frames
  BY <1>1
<1> QED
  BY <1>2, <1>3 DEF Top

(* The innermost call goes on.                                             *)
Moved(t, frame) == stack' = [stack EXCEPT ![t] = [stack[t] EXCEPT ![Len(stack[t])] = frame]]

LEMMA MovedShape ==
  ASSUME TypeOK, NEW t \in Readers, stack[t] # <<>>, NEW frame \in Frames, Moved(t, frame)
  PROVE  /\ stack' \in [Readers -> Seq(Frames)]
         /\ Len(stack'[t]) = Len(stack[t])
         /\ stack'[t][Len(stack[t])] = frame
         /\ \A i \in 1 .. Len(stack[t]) - 1 : stack'[t][i] = stack[t][i]
         /\ \A u \in Readers \ {t} : stack'[u] = stack[u]
<1>1. stack \in [Readers -> Seq(Frames)] /\ Len(stack[t]) \in 1 .. Len(stack[t])
  BY Depth DEF TypeOK
<1>2. stack'[t] = [stack[t] EXCEPT ![Len(stack[t])] = frame]
      /\ \A u \in Readers \ {t} : stack'[u] = stack[u]
  BY <1>1 DEF Moved
<1>3. stack'[t] \in Seq(Frames) /\ Len(stack'[t]) = Len(stack[t])
  BY <1>1, <1>2, ExceptSeq
<1>4. \A i \in 1 .. Len(stack[t]) : stack'[t][i] = IF i = Len(stack[t]) THEN frame ELSE stack[t][i]
  BY <1>1, <1>2, ExceptSeq
<1>5. stack' \in [Readers -> Seq(Frames)]
  BY <1>1, <1>2, <1>3 DEF Moved
<1> QED
  BY <1>1, <1>2, <1>3, <1>4, <1>5, Depth

LEMMA GotoMoves ==
  ASSUME TypeOK, NEW t \in Readers, stack[t] # <<>>, NEW place \in Places, Goto(t, place)
  PROVE  Moved(t, [Top(t) EXCEPT !.pc = place]) /\ [Top(t) EXCEPT !.pc = place] \in Frames
<1>1. Top(t) \in Frames
  BY Depth
<1> QED
  BY <1>1 DEF Goto, Moved, Top, Frames

(* The innermost call returns.                                             *)
LEMMA ReturnShape ==
  ASSUME TypeOK, NEW t \in Readers, stack[t] # <<>>, Return(t)
  PROVE  /\ stack' \in [Readers -> Seq(Frames)]
         /\ Len(stack'[t]) = Len(stack[t]) - 1
         /\ \A i \in 1 .. Len(stack[t]) - 1 : stack'[t][i] = stack[t][i]
         /\ \A u \in Readers \ {t} : stack'[u] = stack[u]
<1>1. stack \in [Readers -> Seq(Frames)] /\ Len(stack[t]) \in Nat /\ Len(stack[t]) >= 1
  BY Depth DEF TypeOK
<1>2. stack'[t] = SubSeq(stack[t], 1, Len(stack[t]) - 1)
      /\ \A u \in Readers \ {t} : stack'[u] = stack[u]
  BY <1>1 DEF Return
<1>3. /\ stack'[t] \in Seq(Frames) /\ Len(stack'[t]) = Len(stack[t]) - 1
      /\ \A i \in 1 .. Len(stack[t]) - 1 : stack'[t][i] = stack[t][i]
  BY <1>1, <1>2, Shortened
<1>4. stack' \in [Readers -> Seq(Frames)]
  BY <1>1, <1>2, <1>3 DEF Return
<1> QED
  BY <1>2, <1>3, <1>4

(* A call, and its frame after _wstat64.                                   *)
Frame(t, frame) == SubSeq(stack[t], 1, Len(stack[t]) - 1) \o <<frame>>

LEMMA FrameShape ==
  ASSUME TypeOK, NEW t \in Readers, stack[t] # <<>>, NEW frame \in Frames
  PROVE  /\ Frame(t, frame) \in Seq(Frames)
         /\ Len(Frame(t, frame)) = Len(stack[t])
         /\ Frame(t, frame)[Len(stack[t])] = frame
         /\ \A i \in 1 .. Len(stack[t]) - 1 : Frame(t, frame)[i] = stack[t][i]
         /\ Append(Frame(t, frame), Call) \in Seq(Frames)
         /\ Len(Append(Frame(t, frame), Call)) = Len(stack[t]) + 1
         /\ Append(Frame(t, frame), Call)[Len(stack[t]) + 1] = Call
         /\ \A i \in 1 .. Len(stack[t]) : Append(Frame(t, frame), Call)[i] = Frame(t, frame)[i]
<1> DEFINE below == SubSeq(stack[t], 1, Len(stack[t]) - 1)
<1>1. stack[t] \in Seq(Frames) /\ Len(stack[t]) \in Nat /\ Len(stack[t]) >= 1
  BY Depth DEF TypeOK
<1>2. /\ below \in Seq(Frames) /\ Len(below) = Len(stack[t]) - 1
      /\ \A i \in 1 .. Len(stack[t]) - 1 : below[i] = stack[t][i]
  BY <1>1, Shortened
<1>3. Call \in Frames
  BY BoundsAssumption DEF Call, NoStat, Frames, Places, Stats
<1> HIDE DEF below
<1>4. Frame(t, frame) = below \o <<frame>>
  BY DEF Frame, below
<1>5. /\ Frame(t, frame) \in Seq(Frames) /\ Len(Frame(t, frame)) = Len(stack[t])
      /\ Frame(t, frame)[Len(stack[t])] = frame
      /\ \A i \in 1 .. Len(stack[t]) - 1 : Frame(t, frame)[i] = below[i]
  BY <1>1, <1>2, <1>4
<1> HIDE DEF Frame
<1> QED
  BY <1>1, <1>2, <1>3, <1>5, AppendProperties

(* What a step of ReadSettings does to the reader's calls.                 *)
Edges ==
  {<<"guard", "enter">>, <<"enter", "stat">>, <<"stat", "decide">>, <<"decide", "leave">>,
   <<"decide", "record">>, <<"record", "open">>, <<"open", "clear">>, <<"open", "leave">>,
   <<"clear", "read">>, <<"read", "push">>, <<"push", "push">>, <<"push", "leave">>}

GoesOn(t) ==
  /\ Len(stack'[t]) >= Len(stack[t]) /\ Len(stack'[t]) <= MaxDepth
  /\ <<Top(t).pc, stack'[t][Len(stack[t])].pc>> \in Edges
  /\ \A i \in 1 .. Len(stack[t]) - 1 : stack'[t][i] = stack[t][i]
  /\ LET rest == stack'[t][Len(stack[t])].rest
     IN \/ rest = Top(t).rest \/ rest = Content
        \/ Top(t).rest # <<>> /\ rest = Tail(Top(t).rest)

Calls(t) ==
  /\ GoesOn(t) /\ At(t, "stat")
  /\ Len(stack'[t]) = Len(stack[t]) + 1 /\ stack'[t][Len(stack[t]) + 1] = Call

Returns(t) ==
  /\ Top(t).pc \in {"guard", "leave"}
  /\ Len(stack'[t]) = Len(stack[t]) - 1
  /\ \A i \in 1 .. Len(stack[t]) - 1 : stack'[t][i] = stack[t][i]

Shape(t) ==
  /\ stack[t] # <<>> /\ stack' \in [Readers -> Seq(Frames)]
  /\ \A u \in Readers \ {t} : stack'[u] = stack[u]
  /\ Returns(t) \/ Calls(t) \/ (GoesOn(t) /\ Len(stack'[t]) = Len(stack[t]))

LEMMA GotoShape ==
  ASSUME TypeOK, NEW t \in Readers, NEW from \in Places, NEW to \in Places,
         At(t, from), Goto(t, to), <<from, to>> \in Edges
  PROVE  Shape(t) /\ GoesOn(t) /\ Len(stack'[t]) = Len(stack[t])
         /\ stack'[t][Len(stack[t])].pc = to
<1>1. stack[t] # <<>> /\ Top(t).pc = from /\ Top(t) \in Frames /\ Len(stack[t]) <= MaxDepth
  BY Depth DEF At, TypeOK
<1> DEFINE frame == [Top(t) EXCEPT !.pc = to]
<1>2. Moved(t, frame) /\ frame \in Frames
  BY <1>1, GotoMoves
<1>3. frame.pc = to /\ frame.rest = Top(t).rest
  BY <1>1 DEF Frames
<1> HIDE DEF frame
<1>4. /\ stack' \in [Readers -> Seq(Frames)] /\ Len(stack'[t]) = Len(stack[t])
      /\ stack'[t][Len(stack[t])] = frame
      /\ \A i \in 1 .. Len(stack[t]) - 1 : stack'[t][i] = stack[t][i]
      /\ \A u \in Readers \ {t} : stack'[u] = stack[u]
  BY <1>1, <1>2, MovedShape
<1>5. Len(stack[t]) \in Nat
  BY Depth
<1>6. <<Top(t).pc, stack'[t][Len(stack[t])].pc>> \in Edges
      /\ stack'[t][Len(stack[t])].rest = Top(t).rest
  BY <1>1, <1>3, <1>4
<1>7. GoesOn(t)
  BY <1>1, <1>4, <1>5, <1>6 DEF GoesOn
<1> QED
  BY <1>1, <1>3, <1>4, <1>7 DEF Shape

LEMMA ReturnsShape ==
  ASSUME TypeOK, NEW t \in Readers, NEW from \in {"guard", "leave"}, At(t, from), Return(t)
  PROVE  Shape(t) /\ Returns(t)
  BY ReturnShape DEF At, Shape, Returns

LEMMA Contents == TypeOK => Content \in Seq(Statements)
  BY VersionsAssumption DEF TypeOK, Content, Statements, Rules

LEMMA PushShape ==
  ASSUME TypeOK, NEW t \in Readers, Read(t) \/ (Push(t) /\ Top(t).rest # <<>>)
  PROVE  Shape(t) /\ Len(stack'[t]) = Len(stack[t]) /\ GoesOn(t)
<1>1. stack[t] # <<>> /\ Top(t) \in Frames /\ Len(stack[t]) <= MaxDepth /\ Len(stack[t]) \in Nat
  BY Depth DEF Read, Push, At, TypeOK
<1> DEFINE frame == IF Read(t) THEN [Top(t) EXCEPT !.pc = "push", !.rest = Content]
                    ELSE [Top(t) EXCEPT !.rest = Tail(Top(t).rest)]
<1>2. frame \in Frames
  <2>1. Top(t).rest # <<>> => Tail(Top(t).rest) \in Seq(Statements)
    BY <1>1, HeadTailProperties DEF Frames
  <2> QED
    BY <1>1, <2>1, Contents DEF Frames, Places
<1>3. Moved(t, frame)
  BY <1>1 DEF Read, Push, Moved, Top, At
<1>4. /\ <<Top(t).pc, frame.pc>> \in Edges
      /\ frame.rest = Content \/ (Top(t).rest # <<>> /\ frame.rest = Tail(Top(t).rest))
  BY <1>1 DEF Frames, Read, Push, At, Edges
<1> HIDE DEF frame
<1>5. /\ stack' \in [Readers -> Seq(Frames)] /\ Len(stack'[t]) = Len(stack[t])
      /\ stack'[t][Len(stack[t])] = frame
      /\ \A i \in 1 .. Len(stack[t]) - 1 : stack'[t][i] = stack[t][i]
      /\ \A u \in Readers \ {t} : stack'[u] = stack[u]
  BY <1>1, <1>2, <1>3, MovedShape
<1> QED
  BY <1>1, <1>4, <1>5 DEF Shape, GoesOn

LEMMA StatShape ==
  ASSUME TypeOK, NEW t \in Readers, Stat(t)
  PROVE  /\ Shape(t) /\ GoesOn(t)
         /\ Calls(t) \/ Len(stack'[t]) = Len(stack[t])
         /\ At(t, "stat") /\ stack'[t][Len(stack[t])].pc = "decide"
<1> DEFINE st == [exists |-> version > 0 \/ truncated, empty |-> truncated, mtime |-> mtime]
           read == [Top(t) EXCEPT !.pc = "decide", !.stat = st]
           called == SubSeq(stack[t], 1, Len(stack[t]) - 1) \o <<read>>
<1>1. /\ stack[t] # <<>> /\ Top(t) \in Frames /\ Top(t).pc = "stat"
      /\ Len(stack[t]) <= MaxDepth /\ Len(stack[t]) \in Nat
  BY Depth DEF Stat, At, TypeOK
<1>2. st \in Stats
  BY DEF TypeOK, Stats
<1>3. read \in Frames /\ read.pc = "decide" /\ read.rest = Top(t).rest
  BY <1>1, <1>2 DEF Frames, Places
<1>4. called = Frame(t, read)
  BY DEF Frame
<1>5. \/ stack' = [stack EXCEPT ![t] = called]
      \/ stack' = [stack EXCEPT ![t] = Append(called, Call)] /\ Len(called) < MaxDepth
  BY DEF Stat
<1> HIDE DEF st, read, called
<1>6. stack \in [Readers -> Seq(Frames)]
  BY DEF TypeOK
<1>7. /\ called \in Seq(Frames) /\ Len(called) = Len(stack[t]) /\ called[Len(stack[t])] = read
      /\ \A i \in 1 .. Len(stack[t]) - 1 : called[i] = stack[t][i]
      /\ Append(called, Call) \in Seq(Frames)
      /\ Len(Append(called, Call)) = Len(stack[t]) + 1
      /\ Append(called, Call)[Len(stack[t]) + 1] = Call
      /\ \A i \in 1 .. Len(stack[t]) : Append(called, Call)[i] = called[i]
  BY <1>1, <1>3, <1>4, FrameShape
<1>8. <<Top(t).pc, read.pc>> \in Edges /\ At(t, "stat")
  BY <1>1, <1>3 DEF Edges, At
<1>9. CASE stack' = [stack EXCEPT ![t] = called]
  <2>1. stack' \in [Readers -> Seq(Frames)] /\ stack'[t] = called
        /\ \A u \in Readers \ {t} : stack'[u] = stack[u]
    BY <1>6, <1>7, <1>9
  <2>2. /\ Len(stack'[t]) = Len(stack[t]) /\ stack'[t][Len(stack[t])] = read
        /\ \A i \in 1 .. Len(stack[t]) - 1 : stack'[t][i] = stack[t][i]
    BY <1>7, <2>1
  <2>3. GoesOn(t)
    BY <1>1, <1>3, <1>8, <2>2, BoundsAssumption DEF GoesOn
  <2> QED
    BY <1>1, <1>3, <1>8, <2>1, <2>2, <2>3 DEF Shape
<1>10. CASE stack' = [stack EXCEPT ![t] = Append(called, Call)] /\ Len(called) < MaxDepth
  <2>1. stack' \in [Readers -> Seq(Frames)] /\ stack'[t] = Append(called, Call)
        /\ \A u \in Readers \ {t} : stack'[u] = stack[u]
    BY <1>6, <1>7, <1>10
  <2>2. stack'[t][Len(stack[t])] = read /\ \A i \in 1 .. Len(stack[t]) - 1 : stack'[t][i] = stack[t][i]
    BY <1>1, <1>7, <2>1, Depth
  <2>3. GoesOn(t)
    <3>1. Len(stack'[t]) = Len(stack[t]) + 1 /\ Len(stack'[t]) <= MaxDepth
      BY <1>1, <1>7, <1>10, <2>1, BoundsAssumption
    <3> QED
      BY <1>1, <1>3, <1>8, <2>2, <3>1 DEF GoesOn
  <2>4. Calls(t)
    BY <1>1, <1>7, <1>8, <2>1, <2>3 DEF Calls
  <2> QED
    BY <1>1, <1>3, <1>8, <2>1, <2>2, <2>3, <2>4 DEF Shape
<1> QED
  BY <1>5, <1>9, <1>10

LEMMA ReadShape ==
  ASSUME TypeOK, NEW t \in Readers, ReadSettings(t)
  PROVE  Shape(t)
<1> USE DEF Edges, Places
<1>1. CASE Guard(t)
  BY <1>1, GotoShape, ReturnsShape DEF Guard
<1>2. CASE Enter(t)
  BY <1>2, GotoShape DEF Enter
<1>3. CASE Decide(t)
  BY <1>3, GotoShape DEF Decide
<1>4. CASE Record(t)
  BY <1>4, GotoShape DEF Record
<1>5. CASE Open(t)
  BY <1>5, GotoShape DEF Open
<1>6. CASE Clear(t)
  BY <1>6, GotoShape DEF Clear
<1>7. CASE Read(t) \/ (Push(t) /\ Top(t).rest # <<>>)
  BY <1>7, PushShape
<1>8. CASE Push(t) /\ Top(t).rest = <<>>
  BY <1>8, GotoShape DEF Push
<1>9. CASE Leave(t)
  BY <1>9, ReturnsShape DEF Leave
<1>10. CASE Stat(t)
  BY <1>10, StatShape
<1> QED
  BY <1>1, <1>2, <1>3, <1>4, <1>5, <1>6, <1>7, <1>8, <1>9, <1>10 DEF ReadSettings

-----------------------------------------------------------------------------
(* Every step keeps the types.                                             *)

LEMMA Bounds ==
  /\ MaxClock \in Nat /\ MaxClock >= 1 /\ MaxDepth \in Nat /\ MaxDepth >= 2
  /\ Len(Versions) \in Nat
  /\ \A v \in 1 .. Len(Versions) : Versions[v] \in Seq(Statements)
  BY BoundsAssumption, VersionsAssumption DEF Statements, Rules

LEMMA CallFrame == <<Call>> \in Seq(Frames) /\ Len(<<Call>>) = 1 /\ <<Call>>[1] = Call
                   /\ Call.rest = <<>> /\ Call.pc = "guard"
<1>1. Call \in Frames
  BY Bounds DEF Call, NoStat, Frames, Places, Stats
<1> QED
  BY <1>1 DEF Call

LEMMA TypeInit == Init => TypeOK /\ EditInv
<1> SUFFICES ASSUME Init PROVE TypeOK /\ EditInv
  OBVIOUS
<1>1. stack \in [Readers -> Seq(Frames)] /\ \A t \in Readers : Len(stack[t]) <= MaxDepth
  BY Bounds, CallFrame, EmptySeq DEF Init
<1>2. filterExpr \in Seq(Rules) /\ filterExcpExpr \in Seq(Rules)
  BY EmptySeq DEF Init
<1>3. version \in 0 .. Len(Versions) /\ mtime \in 0 .. MaxClock /\ clock \in 1 .. MaxClock
      /\ settingsMtime \in 0 .. MaxClock
  BY Bounds DEF Init
<1> QED
  BY <1>1, <1>2, <1>3 DEF Init, TypeOK, EditInv, Rules

LEMMA StackType ==
  ASSUME TypeOK, NEW t \in Readers, Shape(t)
  PROVE  stack' \in [Readers -> Seq(Frames)] /\ \A u \in Readers : Len(stack'[u]) <= MaxDepth
<1>1. Len(stack[t]) \in Nat /\ \A u \in Readers : Len(stack[u]) <= MaxDepth
  BY Depth DEF TypeOK
<1>2. Len(stack'[t]) <= MaxDepth
  BY <1>1, Bounds DEF Shape, Returns, Calls, GoesOn
<1> QED
  BY <1>1, <1>2 DEF Shape

LEMMA TypeStep == TypeOK /\ EditInv /\ [Next]_vars => TypeOK' /\ EditInv'
<1> SUFFICES ASSUME TypeOK, EditInv, [Next]_vars PROVE TypeOK' /\ EditInv'
  OBVIOUS
<1> USE DEF fileVars, ruleVars, historyVars
<1>1. ASSUME NEW t \in Readers, ReadSettings(t) PROVE TypeOK' /\ EditInv'
  <2>1. stack' \in [Readers -> Seq(Frames)] /\ \A u \in Readers : Len(stack'[u]) <= MaxDepth
    BY <1>1, ReadShape, StackType
  <2>2. UNCHANGED <<version, truncated, mtime, clock, notify, hooked, everFiltered>>
    BY <1>1 DEF ReadSettings, Guard, Enter, Stat, Decide, Record, Open, Clear, Read, Push, Leave
  <2>3. EditInv'
    BY <2>2 DEF EditInv
  <2>4. inside' \in BOOLEAN /\ openFailed' \in BOOLEAN /\ turnedAway' \in BOOLEAN
        /\ clash' \in BOOLEAN /\ raced' \in BOOLEAN
    BY <1>1 DEF TypeOK, ReadSettings, Guard, Enter, Stat, Decide, Record, Open, Clear, Read, Push,
                Leave
  <2>5. settingsMtime' \in 0 .. MaxClock
    <3>1. CASE Record(t)
      <4>1. Top(t) \in Frames
        BY <3>1, Depth DEF Record, At
      <4> QED
        BY <3>1, <4>1 DEF Record, Frames, Stats
    <3>2. CASE UNCHANGED settingsMtime
      BY <3>2 DEF TypeOK
    <3> QED
      BY <1>1, <3>1, <3>2 DEF ReadSettings, Guard, Enter, Stat, Decide, Open, Clear, Read, Push, Leave
  <2>6. filterExpr' \in Seq(Rules) /\ filterExcpExpr' \in Seq(Rules)
    <3>1. CASE Clear(t)
      BY <3>1, EmptySeq DEF Clear
    <3>2. CASE Push(t) /\ Top(t).rest # <<>>
      <4>1. Top(t).rest \in Seq(Statements)
        BY <3>2, Depth DEF Push, At, Frames
      <4>2. Head(Top(t).rest) \in Statements
        BY <3>2, <4>1, HeadTailProperties
      <4>3. Head(Top(t).rest).files \in Rules
        BY <4>2 DEF Statements
      <4> QED
        <5>1. filterExpr \in Seq(Rules) /\ filterExcpExpr \in Seq(Rules)
          BY DEF TypeOK
        <5>2. \/ filterExpr' = Append(filterExpr, Head(Top(t).rest).files)
              \/ filterExpr' = filterExpr
          BY <3>2 DEF Push
        <5>3. \/ filterExcpExpr' = Append(filterExcpExpr, Head(Top(t).rest).files)
              \/ filterExcpExpr' = filterExcpExpr
          BY <3>2 DEF Push
        <5> QED
          BY <4>3, <5>1, <5>2, <5>3, AppendProperties
    <3>3. CASE UNCHANGED <<filterExpr, filterExcpExpr>>
      BY <3>3 DEF TypeOK
    <3> QED
      BY <1>1, <3>1, <3>2, <3>3 DEF ReadSettings, Guard, Enter, Stat, Decide, Record, Open, Read, Push, Leave
  <2> QED
    BY <2>1, <2>2, <2>3, <2>4, <2>5, <2>6 DEF TypeOK
<1>2. ASSUME NEW t \in Readers, MeetConfig(t) PROVE TypeOK' /\ EditInv'
  <2>1. stack' \in [Readers -> Seq(Frames)] /\ \A u \in Readers : Len(stack'[u]) <= MaxDepth
    BY <1>2, CallFrame, Bounds DEF MeetConfig, TypeOK
  <2> QED
    BY <1>2, <2>1 DEF MeetConfig, TypeOK, EditInv
<1>3. CASE Tick
  BY <1>3, Bounds DEF Tick, TypeOK, EditInv
<1>4. CASE BeginEdit
  BY <1>4, Bounds DEF BeginEdit, TypeOK, EditInv
<1>5. CASE EndEdit
  <2>1. version' \in 0 .. Len(Versions) /\ mtime' \in 0 .. MaxClock
    BY <1>5, Bounds DEF EndEdit, TypeOK, EditInv
  <2> QED
    BY <1>5, <2>1 DEF EndEdit, TypeOK, EditInv
<1>6. CASE Hook
  BY <1>6 DEF Hook, TypeOK, EditInv
<1>7. ASSUME NEW f \in Files, AskFilter(f) PROVE TypeOK' /\ EditInv'
  BY <1>7 DEF AskFilter, TypeOK, EditInv, Rules
<1>8. CASE UNCHANGED vars
  BY <1>8 DEF vars, TypeOK, EditInv
<1> QED
  BY <1>1, <1>2, <1>3, <1>4, <1>5, <1>6, <1>7, <1>8 DEF Next

-----------------------------------------------------------------------------
(* Every step keeps to what is written.                                    *)

(* What is written stays written.                                          *)
LEMMA WrittenStays ==
  ASSUME version' >= version, version \in Nat, version' \in Nat
  PROVE  /\ \A s : Written(s, version) => Written(s, version')
         /\ \A files : MadeOf(files, version) => MadeOf(files, version')
         /\ FilteredByRule /\ UNCHANGED everFiltered => FilteredByRule'
<1>1. \A v \in 1 .. version : v \in 1 .. version'
  OBVIOUS
<1> QED
  BY <1>1 DEF Written, MadeOf, FilteredByRule

LEMMA RulesInit == Init => RulesInv
<1> SUFFICES ASSUME Init PROVE RulesInv
  OBVIOUS
<1>1. \A t \in Readers : Len(stack[t]) = 0 \/ stack[t] = <<Call>>
  BY EmptySeq DEF Init
<1>2. \A t \in Readers : \A i \in 1 .. Len(stack[t]) : Len(stack[t][i].rest) = 0
  BY <1>1, CallFrame
<1> QED
  BY <1>2 DEF Init, RulesInv, FilteredByRule

LEMMA RulesStep == IInv /\ [Next]_vars => RulesInv'
<1> SUFFICES ASSUME IInv, [Next]_vars PROVE RulesInv'
  OBVIOUS
<1>a. TypeOK /\ RulesInv /\ EditInv
  BY DEF IInv
<1>v. version \in Nat /\ version' \in Nat /\ version' >= version
  <2>1. TypeOK'
    BY <1>a, TypeStep
  <2>2. version' = version \/ version' = version + 1
    BY DEF Next, Tick, BeginEdit, EndEdit, Hook, AskFilter, MeetConfig, vars, fileVars,
           ReadSettings, Guard, Enter, Stat, Decide, Record, Open, Clear, Read, Push, Leave
  <2> QED
    BY <1>a, <2>1, <2>2, Bounds DEF TypeOK
<1>1. ASSUME NEW t \in Readers, ReadSettings(t) PROVE RulesInv'
  <2>1. UNCHANGED <<version, truncated, everFiltered>>
    BY <1>1 DEF ReadSettings, Guard, Enter, Stat, Decide, Record, Open, Clear, Read, Push, Leave,
                fileVars, historyVars
  <2>2. FilteredByRule'
    BY <1>a, <1>v, <2>1, WrittenStays DEF RulesInv
  <2>3. Shape(t)
    BY <1>a, <1>1, ReadShape
  <2>4. \A j \in 1 .. Len(Content) : Written(Content[j], version)
    <3>1. CASE Content = <<>>
      BY <3>1
    <3>2. CASE Content = Versions[version] /\ version # 0
      BY <1>v, <3>2 DEF Written
    <3> QED
      BY <3>1, <3>2 DEF Content
  <2>5. ASSUME NEW u \in Readers, NEW i \in 1 .. Len(stack'[u]),
               NEW j \in 1 .. Len(stack'[u][i].rest)
        PROVE  Written(stack'[u][i].rest[j], version')
    <3>0. \A s : Written(s, version) => Written(s, version')
      BY <1>v, WrittenStays
    <3>1. CASE i \in 1 .. Len(stack[u]) /\ stack'[u][i].rest = stack[u][i].rest
      BY <1>a, <3>0, <3>1, <2>5 DEF RulesInv
    <3>2. CASE u = t /\ Calls(t) /\ i = Len(stack[t]) + 1
      BY <2>5, <3>2, CallFrame DEF Calls
    <3>3. CASE u = t /\ GoesOn(t) /\ i = Len(stack[t])
      <4>1. Len(stack[t]) \in 1 .. Len(stack[t]) /\ Top(t) = stack[t][Len(stack[t])] /\ Top(t) \in Frames
        BY <1>a, <2>3, Depth DEF Shape
      <4>2. CASE stack'[t][i].rest = Top(t).rest
        BY <3>1, <3>3, <4>1, <4>2
      <4>3. CASE stack'[t][i].rest = Content
        BY <2>4, <2>5, <3>0, <3>3, <4>3
      <4>4. CASE Top(t).rest # <<>> /\ stack'[t][i].rest = Tail(Top(t).rest)
        <5>1. /\ Top(t).rest \in Seq(Statements)
              /\ \A k \in 1 .. Len(Top(t).rest) : Written(Top(t).rest[k], version)
          BY <1>a, <4>1 DEF Frames, RulesInv
        <5>2. j + 1 \in 1 .. Len(Top(t).rest) /\ Tail(Top(t).rest)[j] = Top(t).rest[j + 1]
          BY <2>5, <3>3, <4>4, <5>1, HeadTailProperties
        <5> QED
          BY <3>0, <3>3, <4>4, <5>1, <5>2
      <4> QED
        BY <3>3, <4>2, <4>3, <4>4 DEF GoesOn
    <3>4. CASE u = t /\ i \in 1 .. Len(stack[t]) - 1
      <4>1. stack'[t][i] = stack[t][i] /\ i \in 1 .. Len(stack[t])
        BY <1>a, <2>3, <3>4, Depth DEF Shape, Returns, Calls, GoesOn
      <4> QED
        BY <3>1, <3>4, <4>1
    <3>5. CASE u # t
      BY <2>3, <3>1, <3>5 DEF Shape
    <3> QED
      <4>1. Len(stack[t]) \in Nat
        BY <1>a, Depth
      <4> QED
        BY <2>3, <2>5, <3>2, <3>3, <3>4, <3>5, <4>1 DEF Shape, Returns, Calls
  <2>6. ASSUME NEW i \in 1 .. Len(filterExpr') PROVE MadeOf(filterExpr'[i], version')
    <3>1. CASE filterExpr' = filterExpr
      BY <1>a, <1>v, <2>6, <3>1, WrittenStays DEF RulesInv
    <3>2. CASE filterExpr' = <<>>
      BY <2>6, <3>2
    <3>3. CASE /\ Push(t) /\ Top(t).rest # <<>> /\ ~Head(Top(t).rest).exception
               /\ filterExpr' = Append(filterExpr, Head(Top(t).rest).files)
      <4>1. /\ Len(stack[t]) \in 1 .. Len(stack[t]) /\ Top(t) = stack[t][Len(stack[t])]
            /\ Top(t).rest \in Seq(Statements)
        BY <1>a, <2>3, Depth DEF Shape, Frames
      <4>2. Head(Top(t).rest) = Top(t).rest[1] /\ 1 \in 1 .. Len(Top(t).rest)
        BY <3>3, <4>1, HeadTailProperties
      <4>3. MadeOf(Head(Top(t).rest).files, version)
        <5>1. Written(Top(t).rest[1], version)
          BY <1>a, <4>1, <4>2 DEF RulesInv
        <5>2. ~Top(t).rest[1].exception
          BY <3>3, <4>2
        <5> QED
          BY <4>2, <5>1, <5>2 DEF Written, MadeOf
      <4>4. filterExpr \in Seq(Rules)
        BY <1>a DEF TypeOK
      <4>5. \/ i \in 1 .. Len(filterExpr) /\ filterExpr'[i] = filterExpr[i]
            \/ filterExpr'[i] = Head(Top(t).rest).files
        BY <2>6, <3>3, <4>4
      <4> QED
        BY <1>a, <1>v, <4>3, <4>5, WrittenStays DEF RulesInv
    <3> QED
      BY <1>1, <3>1, <3>2, <3>3 DEF ReadSettings, Guard, Enter, Stat, Decide, Record, Open, Clear,
                                    Read, Push, Leave, ruleVars
  <2> QED
    BY <2>2, <2>5, <2>6 DEF RulesInv
<1>2. ASSUME UNCHANGED <<stack, filterExpr, everFiltered>> PROVE RulesInv'
  BY <1>a, <1>v, <1>2, WrittenStays DEF RulesInv
<1>3. CASE Tick \/ BeginEdit \/ EndEdit \/ Hook \/ UNCHANGED vars
  BY <1>2, <1>3 DEF Tick, BeginEdit, EndEdit, Hook, vars, ruleVars, historyVars
<1>4. ASSUME NEW t \in Readers, MeetConfig(t) PROVE RulesInv'
  <2>1. /\ UNCHANGED <<filterExpr, everFiltered>>
        /\ \A u \in Readers : stack'[u] = stack[u] \/ stack'[u] = <<Call>>
    BY <1>a, <1>4 DEF MeetConfig, ruleVars, historyVars, TypeOK
  <2>2. \A i \in 1 .. Len(<<Call>>) : Len(<<Call>>[i].rest) = 0
    BY CallFrame
  <2>3. UNCHANGED version
    BY <1>4 DEF MeetConfig, fileVars
  <2>4. FilteredByRule'
    BY <1>a, <1>v, <2>1, WrittenStays DEF RulesInv
  <2>5. ASSUME NEW u \in Readers, NEW i \in 1 .. Len(stack'[u]),
               NEW j \in 1 .. Len(stack'[u][i].rest)
        PROVE  Written(stack'[u][i].rest[j], version')
    <3>1. CASE stack'[u] = stack[u]
      BY <1>a, <2>3, <2>5, <3>1 DEF RulesInv
    <3>2. CASE stack'[u] = <<Call>>
      BY <2>2, <2>5, <3>2
    <3> QED
      BY <2>1, <3>1, <3>2
  <2> QED
    BY <1>a, <2>1, <2>3, <2>4, <2>5 DEF RulesInv
<1>5. ASSUME NEW f \in Files, AskFilter(f) PROVE RulesInv'
  <2>1. UNCHANGED <<version, filterExpr, stack>> /\ everFiltered' = everFiltered \cup {f}
    BY <1>5 DEF AskFilter, ruleVars, fileVars
  <2>2. \E i \in 1 .. Len(filterExpr) : f \in filterExpr[i]
    BY <1>5 DEF AskFilter, Filter
  <2>3. \E v \in 1 .. version : \E i \in 1 .. Len(Versions[v]) :
          ~Versions[v][i].exception /\ f \in Versions[v][i].files
    BY <1>a, <2>2 DEF RulesInv, MadeOf
  <2>4. FilteredByRule'
    BY <1>a, <2>1, <2>3 DEF RulesInv, FilteredByRule
  <2> QED
    BY <1>a, <1>v, <2>1, <2>4, WrittenStays DEF RulesInv
<1> QED
  BY <1>1, <1>3, <1>4, <1>5 DEF Next

-----------------------------------------------------------------------------
(* Every step keeps the stacks in shape.                                   *)

LEMMA StackStep == IInv /\ [Next]_vars => StackInv'
<1> SUFFICES ASSUME IInv, [Next]_vars PROVE StackInv'
  OBVIOUS
<1>a. TypeOK /\ StackInv
  BY DEF IInv
<1>1. ASSUME NEW t \in Readers, ReadSettings(t) PROVE StackInv'
  <2>1. Shape(t)
    BY <1>a, <1>1, ReadShape
  <2>2. Len(stack[t]) \in Nat /\ Len(stack[t]) >= 1
    BY <1>a, <2>1, Depth DEF Shape
  <2>3. ASSUME NEW i \in 1 .. Len(stack'[t]) - 1 PROVE stack'[t][i].pc = "decide"
    <3>1. CASE i \in 1 .. Len(stack[t]) - 1
      BY <1>a, <2>1, <3>1 DEF Shape, Returns, Calls, GoesOn, StackInv
    <3>2. CASE i = Len(stack[t]) /\ Calls(t)
      BY <3>2 DEF Calls, GoesOn, At, Edges
    <3> QED
      BY <2>1, <2>2, <2>3, <3>1, <3>2 DEF Shape, Returns, Calls
  <2> QED
    BY <1>a, <2>1, <2>3 DEF StackInv, Shape
<1>2. ASSUME NEW t \in Readers, MeetConfig(t) PROVE StackInv'
  <2>1. \A u \in Readers : stack'[u] = stack[u] \/ stack'[u] = <<Call>>
    BY <1>a, <1>2 DEF MeetConfig, TypeOK
  <2> QED
    <3>1. \A i \in 1 .. Len(<<Call>>) - 1 : FALSE
      BY CallFrame
    <3> QED
      BY <1>a, <2>1, <3>1 DEF StackInv
<1>3. CASE \/ Tick \/ BeginEdit \/ EndEdit \/ Hook \/ UNCHANGED vars
           \/ \E f \in Files : AskFilter(f)
  BY <1>a, <1>3 DEF StackInv, Tick, BeginEdit, EndEdit, Hook, AskFilter, vars
<1> QED
  BY <1>1, <1>2, <1>3 DEF Next

LEMMA OneOrMore == \A n \in Nat : n >= 1 => n = 1 \/ n > 1
  OBVIOUS

(* Where a reader is that runs alone.                                      *)
LEMMA Outermost ==
  ASSUME IInv, ~raced, NEW t \in Readers, NEW from \in Places \ {"guard"}, At(t, from)
  PROVE  Len(stack[t]) = 1 /\ stack[t][1].pc = from /\ (from # "enter" => Past(t))
<1>1. /\ Len(stack[t]) \in Nat /\ Len(stack[t]) >= 1
      /\ stack[t][Len(stack[t])].pc = from /\ stack[t] # <<>>
  BY Depth DEF At, IInv
<1>2. Len(stack[t]) = 1
  <2>1. Len(stack[t]) > 1 => Len(stack[t]) = 2 /\ stack[t][2].pc = "guard"
    BY DEF IInv, AloneInv
  <2>2. ~(Len(stack[t]) > 1)
    BY <1>1, <2>1, Zenon
  <2> QED
    BY <1>1, <2>2, OneOrMore
<1> QED
  BY <1>1, <1>2 DEF Past

(* A reader that is not past the guard after its step leaves the others.   *)
LEMMA Kept ==
  ASSUME AloneInv, ~raced, NEW t \in Readers, UNCHANGED inside,
         \A u \in Readers \ {t} : stack'[u] = stack[u],
         ~Past(t)', ~(Len(stack'[t]) > 1)
  PROVE  AloneInv'
  BY DEF AloneInv, Past

LEMMA AloneStep == IInv /\ [Next]_vars => AloneInv'
<1> SUFFICES ASSUME IInv, [Next]_vars, ~raced' PROVE AloneInv'
  BY DEF AloneInv
<1> USE DEF historyVars
<1>a. TypeOK /\ StackInv /\ AloneInv
  BY DEF IInv
<1>1. ASSUME NEW t \in Readers, ReadSettings(t), ~raced, ~Clear(t) PROVE AloneInv'
  <2>1. Shape(t) /\ stack[t] # <<>> /\ \A u \in Readers \ {t} : stack'[u] = stack[u]
    BY <1>a, <1>1, ReadShape DEF Shape
  <2>2. \A u \in Readers \ {t} : /\ Past(u)' <=> Past(u)
                                 /\ Len(stack'[u]) > 1 => Len(stack'[u]) = 2 /\ stack'[u][2].pc = "guard"
    BY <1>a, <1>1, <2>1 DEF Past, AloneInv
  <2>3. CASE Guard(t)
    <3>1. Len(stack[t]) \in Nat /\ Len(stack[t]) >= 1 /\ stack[t][Len(stack[t])].pc = "guard"
      BY <1>a, <2>3, Depth DEF Guard, At
    <3>2. UNCHANGED inside
      BY <2>3 DEF Guard
    <3>3. CASE Len(stack[t]) = 1
      <4>1. CASE inside
        <5>1. Len(stack'[t]) = 0 /\ stack' \in [Readers -> Seq(Frames)]
          <6>1. Return(t)
            BY <2>3, <4>1 DEF Guard
          <6>2. stack' \in [Readers -> Seq(Frames)] /\ Len(stack'[t]) = Len(stack[t]) - 1
            BY <1>a, <2>1, <6>1, ReturnShape
          <6> QED
            BY <3>3, <6>2
        <5>2. stack'[t] = <<>>
          BY <5>1, EmptySeq
        <5> QED
          <6>1. ~Past(t)' /\ ~(Len(stack'[t]) > 1)
            BY <5>1, <5>2 DEF Past
          <6> QED
            BY <1>a, <1>1, <2>1, <2>2, <3>2, <6>1, Kept
      <4>2. CASE ~inside
        <5>1. Len(stack'[t]) = 1 /\ stack'[t][1].pc = "enter"
          BY <1>a, <2>3, <3>3, <4>2, GotoShape DEF Guard, Places, Edges
        <5> QED
          <6>1. ~Past(t)' /\ ~(Len(stack'[t]) > 1)
            BY <5>1 DEF Past
          <6> QED
            BY <1>a, <1>1, <2>1, <2>2, <3>2, <6>1, Kept
      <4> QED
        BY <4>1, <4>2
    <3>4. CASE Len(stack[t]) = 2
      <4>1. stack[t][1].pc = "decide" /\ Past(t)
        <5>1. 1 \in 1 .. Len(stack[t]) - 1
          BY <3>4
        <5> QED
          BY <1>a, <2>1, <5>1 DEF StackInv, Past
      <4>2. inside
        BY <1>a, <1>1, <4>1 DEF AloneInv
      <4>3. /\ Len(stack'[t]) = 1 /\ stack'[t][1] = stack[t][1]
            /\ stack' \in [Readers -> Seq(Frames)]
        <5>1. Return(t)
          BY <2>3, <4>2 DEF Guard
        <5>2. /\ stack' \in [Readers -> Seq(Frames)] /\ Len(stack'[t]) = Len(stack[t]) - 1
              /\ \A i \in 1 .. Len(stack[t]) - 1 : stack'[t][i] = stack[t][i]
          BY <1>a, <2>1, <5>1, ReturnShape
        <5>3. 1 \in 1 .. Len(stack[t]) - 1 /\ Len(stack[t]) - 1 = 1
          BY <3>4
        <5> QED
          BY <5>2, <5>3
      <4>4. stack'[t] # <<>>
        BY <4>3, EmptySeq
      <4> QED
        BY <1>a, <1>1, <2>1, <2>2, <3>2, <4>1, <4>2, <4>3, <4>4 DEF AloneInv, Past
    <3> QED
      <4>1. Len(stack[t]) > 1 => Len(stack[t]) = 2
        BY <1>a, <1>1 DEF AloneInv
      <4>2. Len(stack[t]) = 1 \/ Len(stack[t]) > 1
        BY <3>1, OneOrMore
      <4> QED
        BY <3>3, <3>4, <4>1, <4>2
  <2>4. CASE Enter(t)
    <3>1. Len(stack[t]) = 1
      BY <1>1, <2>4, Outermost DEF Enter, Places
    <3>2. Len(stack'[t]) = 1 /\ inside'
      BY <1>a, <2>4, <3>1, GotoShape DEF Enter, Places, Edges
    <3>3. \A u \in Readers \ {t} : ~Past(u)
      BY <2>4 DEF Enter, Alone, Past
    <3> QED
      BY <2>1, <2>2, <3>2, <3>3 DEF AloneInv
  <2>5. CASE Leave(t)
    <3>1. Len(stack[t]) = 1 /\ Past(t)
      BY <1>1, <2>5, Outermost DEF Leave, Places
    <3>2. Len(stack'[t]) = 0 /\ stack' \in [Readers -> Seq(Frames)]
      <4>1. Return(t)
        BY <2>5 DEF Leave
      <4>2. stack' \in [Readers -> Seq(Frames)] /\ Len(stack'[t]) = Len(stack[t]) - 1
        BY <1>a, <2>1, <4>1, ReturnShape
      <4> QED
        BY <3>1, <4>2
    <3>3. stack'[t] = <<>>
      BY <3>2, EmptySeq
    <3>4. \A u \in Readers \ {t} : ~Past(u)
      BY <1>a, <1>1, <3>1 DEF AloneInv
    <3> QED
      BY <2>1, <2>2, <3>2, <3>3, <3>4 DEF AloneInv, Past
  <2>6. CASE Stat(t) \/ Decide(t) \/ Record(t) \/ Open(t) \/ Read(t) \/ Push(t)
    <3>1. /\ Top(t).pc \in {"stat", "decide", "record", "open", "read", "push"}
          /\ At(t, Top(t).pc) /\ UNCHANGED inside
      BY <2>6 DEF Stat, Decide, Record, Open, Read, Push, At
    <3>2. Len(stack[t]) = 1 /\ stack[t][1].pc = Top(t).pc /\ Past(t)
      BY <1>1, <3>1, Outermost DEF Places
    <3>3. GoesOn(t) /\ ~Returns(t)
      BY <2>1, <3>1 DEF Shape, Returns, Calls
    <3>4. <<Top(t).pc, stack'[t][1].pc>> \in Edges
      BY <3>2, <3>3 DEF GoesOn
    <3>5. /\ stack'[t][1].pc \notin {"guard", "enter"}
          /\ stack'[t][1].pc \in {"stat", "decide", "record", "open", "clear"} =>
               Top(t).pc \in {"stat", "decide", "record", "open"}
      BY <3>1, <3>4 DEF Edges
    <3>6. stack'[t][1].pc \in {"stat", "decide", "record", "open", "clear"} => inside'
      BY <1>a, <1>1, <3>1, <3>2, <3>5 DEF AloneInv
    <3>7. Len(stack'[t]) = 1 \/ (Len(stack'[t]) = 2 /\ stack'[t][2].pc = "guard")
      BY <2>1, <3>2, <3>3, CallFrame DEF Shape, Calls
    <3>8. \A u \in Readers \ {t} : ~Past(u)
      BY <1>a, <1>1, <3>2 DEF AloneInv
    <3> QED
      BY <2>2, <3>6, <3>7, <3>8 DEF AloneInv
  <2> QED
    BY <1>1, <2>3, <2>4, <2>5, <2>6 DEF ReadSettings
<1>2. ASSUME NEW t \in Readers, Clear(t) PROVE AloneInv'
  <2>1. Alone(t) /\ ~(Len(stack[t]) > 1) /\ stack[t] # <<>> /\ At(t, "clear")
    BY <1>2 DEF Clear, At
  <2>2. Len(stack[t]) = 1
    <3>1. Len(stack[t]) \in Nat /\ Len(stack[t]) >= 1
      BY <1>a, <2>1, Depth
    <3> QED
      BY <2>1, <3>1, OneOrMore
  <2>3. /\ Shape(t) /\ Len(stack'[t]) = 1 /\ stack'[t][1].pc = "read"
        /\ \A u \in Readers \ {t} : stack'[u] = stack[u]
    BY <1>a, <1>2, <2>1, <2>2, GotoShape DEF Clear, Places, Edges, Shape
  <2>4. \A u \in Readers \ {t} : ~Past(u) /\ ~(Len(stack[u]) > 1)
    <3> SUFFICES ASSUME NEW u \in Readers \ {t} PROVE ~Past(u) /\ ~(Len(stack[u]) > 1)
      OBVIOUS
    <3>1. stack[u] = <<>> \/ stack[u][1].pc \in {"guard", "enter"}
      BY <2>1 DEF Alone
    <3>2. Len(stack[u]) \in Nat /\ (stack[u] = <<>> => Len(stack[u]) = 0)
      BY <1>a, Depth
    <3>3. Len(stack[u]) > 1 => stack[u][1].pc = "decide"
      BY <1>a, <3>2 DEF StackInv
    <3> QED
      BY <3>1, <3>2, <3>3 DEF Past
  <2> QED
    BY <2>3, <2>4 DEF AloneInv, Past
<1>3. ASSUME NEW t \in Readers, MeetConfig(t) PROVE AloneInv'
  <2>1. /\ stack'[t] = <<Call>> /\ \A u \in Readers \ {t} : stack'[u] = stack[u]
        /\ ~raced /\ UNCHANGED inside
    BY <1>a, <1>3 DEF MeetConfig, TypeOK
  <2> QED
    BY <1>a, <2>1, CallFrame DEF AloneInv, Past
<1>4. CASE \/ Tick \/ BeginEdit \/ EndEdit \/ Hook \/ UNCHANGED vars
           \/ \E f \in Files : AskFilter(f)
  <2>1. UNCHANGED <<stack, inside, raced>>
    BY <1>4 DEF Tick, BeginEdit, EndEdit, Hook, AskFilter, vars
  <2> QED
    BY <1>a, <2>1 DEF AloneInv, Past
<1>5. ASSUME NEW t \in Readers, ReadSettings(t), raced, ~Clear(t) PROVE FALSE
  BY <1>5 DEF ReadSettings, Guard, Enter, Stat, Decide, Record, Open, Read, Push, Leave
<1> QED
  BY <1>1, <1>2, <1>3, <1>4, <1>5 DEF Next

-----------------------------------------------------------------------------
(* The theorems.                                                           *)

LEMMA Invariance == Spec => []IInv
<1>1. Init => IInv
  <2> SUFFICES ASSUME Init PROVE StackInv /\ AloneInv
    BY TypeInit, RulesInit DEF IInv
  <2>1. \A t \in Readers : stack[t] = <<>> \/ stack[t] = <<Call>>
    BY DEF Init
  <2>2. \A t \in Readers : Len(stack[t]) <= 1 /\ ~Past(t) /\ Len(stack[t]) \in Nat
    <3> SUFFICES ASSUME NEW t \in Readers
                 PROVE  Len(stack[t]) <= 1 /\ ~Past(t) /\ Len(stack[t]) \in Nat
      OBVIOUS
    <3>1. CASE stack[t] = <<>>
      BY <3>1, EmptySeq DEF Past
    <3>2. CASE stack[t] = <<Call>>
      BY <3>2, CallFrame DEF Past
    <3> QED
      BY <2>1, <3>1, <3>2
  <2> QED
    BY <2>2 DEF StackInv, AloneInv
<1>2. IInv /\ [Next]_vars => IInv'
  BY TypeStep, RulesStep, StackStep, AloneStep DEF IInv
<1> QED
  BY <1>1, <1>2, PTL DEF Spec

(* The variables keep their types: the stacks of calls hold frames, and    *)
(* the lists rules.                                                        *)
THEOREM TypeCorrect == Spec => []TypeOK
<1>1. IInv => TypeOK
  BY DEF IInv
<1> QED
  BY <1>1, Invariance, PTL

(* What is never matched by a rule of any version is never filtered,       *)
(* whatever reload the readers are in when Filter is asked.                *)
THEOREM OnlyRulesFilter == Spec => []FilteredByRule
<1>1. IInv => FilteredByRule
  BY DEF IInv, RulesInv
<1> QED
  BY <1>1, Invariance, PTL

(* The call that _wstat64 makes back into ReadSettings is stopped by the   *)
(* flag, until two readers have got past it together.                      *)
THEOREM ReentryEnds == Spec => []ReentryStopped
<1>1. ASSUME IInv, ~raced, NEW t \in Readers, Len(stack[t]) > 1
      PROVE  Len(stack[t]) = 2 /\ At(t, "guard")
  <2>1. Len(stack[t]) = 2 /\ stack[t][2].pc = "guard"
    BY <1>1 DEF IInv, AloneInv
  <2> QED
    BY <1>1, <2>1, Depth DEF At, IInv
<1>2. IInv => ReentryStopped
  BY <1>1 DEF ReentryStopped
<1> QED
  BY <1>2, Invariance, PTL

-----------------------------------------------------------------------------
(* What the lists hold, for any readers, files, versions and bounds: one   *)
(* whole version of the file between reloads, and the version that is      *)
(* there once every change is reported and read.  The inductive invariant. *)

(* Some reader's outermost call is at one of these places.                 *)
SomeAt(places) == \E t \in Readers : stack[t] # <<>> /\ stack[t][1].pc \in places

(* The lists after n statements of a text, the others still to be pushed.  *)
PushedOf(stmts, n, rest) ==
  /\ filterExpr = UpTo(stmts, FALSE)[n] /\ filterExcpExpr = UpTo(stmts, TRUE)[n]
  /\ Len(rest) = Len(stmts) - n
  /\ \A i \in 1 .. Len(rest) : rest[i] = stmts[n + i]

PushingFrom(t, stmts) ==
  /\ stack[t] # <<>> /\ stack[t][1].pc = "push"
  /\ \E n \in 0 .. Len(stmts) : PushedOf(stmts, n, stack[t][1].rest)

Pushing(stmts) == \E t \in Readers : PushingFrom(t, stmts)

(* What the file may have been when it was read.                           *)
Texts == {<<>>} \cup {Versions[v] : v \in 1 .. version}

LoadInv ==
  ~raced =>
    /\ SomeAt({"read"}) => filterExpr = <<>> /\ filterExcpExpr = <<>>
    /\ SomeAt({"push"}) => \E stmts \in Texts : Pushing(stmts)
    /\ ~SomeAt({"read", "push"}) => \E stmts \in Texts : Loaded(stmts)

(* No time is later than the file's, and none that can be recorded is that *)
(* of an edit that has only begun.                                         *)
Timed(frame, time, begun) ==
  /\ frame.stat.mtime <= time
  /\ frame.pc = "record" => ~frame.stat.empty
  /\ begun /\ ~frame.stat.empty => frame.stat.mtime < time

Begun == truncated /\ ~clash

TimeInv ==
  /\ mtime <= clock /\ settingsMtime <= mtime
  /\ truncated => mtime >= 1
  /\ Begun => settingsMtime < mtime
  /\ \A t \in Readers : \A i \in 1 .. Len(stack[t]) : Timed(stack[t][i], mtime, Begun)

(* The lists are those of the file as it is, or a reader is about to read  *)
(* it, or pushes what it has read of it.                                   *)
Current ==
  LET text == Versions[version]
  IN \/ SomeAt({"open", "clear", "read"})
     \/ Pushing(text)
     \/ Loaded(text) /\ ~SomeAt({"push"})

(* The file as it is has been written, and nothing was lost on the way.    *)
Sound == version > 0 /\ ~truncated /\ ~openFailed /\ ~clash /\ ~raced

(* What has the time of the file has its content.                          *)
RecordedInv == Sound /\ settingsMtime = mtime => Current

(* A reader is about to compare the time of the file as it is.             *)
Fresh(t) ==
  /\ stack[t] # <<>> /\ stack[t][1].pc = "decide"
  /\ stack[t][1].stat.exists /\ ~stack[t][1].stat.empty
  /\ stack[t][1].stat.mtime = mtime

(* A change is read, or it is still to be reported, or a reader that was   *)
(* told of it has not compared the times yet.                              *)
ToldInv ==
  Sound /\ ~turnedAway =>
    \/ notify \/ SomeAt({"guard", "enter", "stat", "record"}) \/ Current
    \/ \E t \in Readers : Fresh(t)

ContentInv == LoadInv /\ TimeInv /\ RecordedInv /\ ToldInv

-----------------------------------------------------------------------------
(* Induction over the natural numbers, for a set.                          *)

LEMMA Induct ==
  ASSUME NEW S, 0 \in S, \A n \in Nat : n \in S => n + 1 \in S
  PROVE  \A n \in Nat : n \in S
<1> DEFINE left == {n \in Nat : n \notin S}
<1> SUFFICES ASSUME left # {} PROVE FALSE
  OBVIOUS
<1>1. \E k \in left : \A m \in left : ~(<<m, k>> \in OpToRel(<, Nat))
  <2>1. left \subseteq Nat
    OBVIOUS
  <2> QED
    BY <2>1, NatLessThanWellFounded, WFMin
<1>2. PICK k \in left : \A m \in left : ~(m < k)
  BY <1>1 DEF OpToRel
<1>3. k \in Nat /\ k \notin S /\ k # 0
  OBVIOUS
<1>4. k - 1 \in Nat /\ k - 1 < k /\ (k - 1) + 1 = k
  BY <1>3
<1>5. k - 1 \in S
  BY <1>2, <1>4
<1> QED
  BY <1>3, <1>4, <1>5

(* The lists after one statement more.                                     *)
LEMMA UpToDef ==
  ASSUME NEW stmts \in Seq(Statements), NEW exc
  PROVE  /\ UpTo(stmts, exc)[0] = <<>>
         /\ \A n \in 1 .. Len(stmts) :
              UpTo(stmts, exc)[n] =
                IF stmts[n].exception = exc
                  THEN Append(UpTo(stmts, exc)[n - 1], stmts[n].files)
                  ELSE UpTo(stmts, exc)[n - 1]
<1> DEFINE Next1(list, n) == IF n = 0 THEN <<>>
                             ELSE IF stmts[n].exception = exc
                                    THEN Append(list[n - 1], stmts[n].files)
                             ELSE list[n - 1]
           Solves(list, n) == list = [k \in 0 .. n |-> Next1(list, k)]
           S == {n \in Nat : \E list : Solves(list, n)}
<1>1. 0 \in S
  <2>1. Solves([k \in 0 .. 0 |-> <<>>], 0)
    OBVIOUS
  <2> QED
    BY <2>1
<1>2. ASSUME NEW n \in Nat, n \in S PROVE n + 1 \in S
  <2>1. PICK list : Solves(list, n)
    BY <1>2
  <2> DEFINE longer == [k \in 0 .. n + 1 |-> IF k = n + 1 THEN Next1(list, k) ELSE list[k]]
  <2>2. ASSUME NEW k \in 0 .. n + 1 PROVE longer[k] = Next1(longer, k)
    <3>1. CASE k = 0
      <4>1. longer[0] = list[0] /\ list[0] = <<>>
        BY <2>1
      <4> QED
        BY <3>1, <4>1
    <3>2. CASE k \in 1 .. n + 1
      <4>1. k - 1 \in 0 .. n /\ longer[k - 1] = list[k - 1]
        BY <3>2
      <4>2. longer[k] = Next1(list, k)
        <5> HIDE DEF Next1
        <5>1. CASE k = n + 1
          BY <5>1
        <5>2. CASE k \in 0 .. n
          BY <2>1, <5>2
        <5> QED
          BY <5>1, <5>2
      <4> QED
        BY <3>2, <4>1, <4>2
    <3> QED
      BY <3>1, <3>2
  <2> HIDE DEF Next1
  <2>3. longer = [k \in 0 .. n + 1 |-> longer[k]]
    OBVIOUS
  <2> HIDE DEF longer
  <2>4. Solves(longer, n + 1)
    BY <2>2, <2>3
  <2> HIDE DEF Solves
  <2> QED
    BY <2>4
<1> HIDE DEF Next1, Solves
<1>3. \A n \in Nat : n \in S
  BY <1>1, <1>2, Induct
<1>4. Len(stmts) \in Nat
  OBVIOUS
<1>5. \E list : Solves(list, Len(stmts))
  BY <1>3, <1>4
<1>6. UpTo(stmts, exc) = CHOOSE list : Solves(list, Len(stmts))
  BY DEF UpTo, Solves, Next1
<1>7. Solves(UpTo(stmts, exc), Len(stmts))
  BY <1>5, <1>6
<1>8. \A n \in 0 .. Len(stmts) : UpTo(stmts, exc)[n] = Next1(UpTo(stmts, exc), n)
  BY <1>7 DEF Solves
<1> HIDE DEF UpTo
<1>9. UpTo(stmts, exc)[0] = <<>>
  BY <1>4, <1>8 DEF Next1
<1> QED
  BY <1>4, <1>8, <1>9 DEF Next1

LEMMA UpToMore ==
  ASSUME NEW stmts \in Seq(Statements), NEW n \in 0 .. Len(stmts), n # Len(stmts), NEW exc
  PROVE  UpTo(stmts, exc)[n + 1] =
           IF stmts[n + 1].exception = exc
             THEN Append(UpTo(stmts, exc)[n], stmts[n + 1].files) ELSE UpTo(stmts, exc)[n]
<1>1. n + 1 \in 1 .. Len(stmts) /\ n + 1 - 1 = n
  OBVIOUS
<1> DEFINE More(m) == IF stmts[m].exception = exc
                        THEN Append(UpTo(stmts, exc)[m - 1], stmts[m].files)
                      ELSE UpTo(stmts, exc)[m - 1]
<1>2. \A m \in 1 .. Len(stmts) : UpTo(stmts, exc)[m] = More(m)
  BY UpToDef
<1> HIDE DEF More
<1>3. UpTo(stmts, exc)[n + 1] = More(n + 1)
  BY <1>1, <1>2
<1> QED
  BY <1>1, <1>3 DEF More

-----------------------------------------------------------------------------
(* Lists and texts.                                                        *)

LEMMA TextTypes ==
  ASSUME TypeOK, NEW stmts \in Texts
  PROVE  stmts \in Seq(Statements) /\ Len(stmts) \in Nat
<1>1. \A v \in 1 .. version : v \in 1 .. Len(Versions)
  BY Bounds DEF TypeOK
<1>2. stmts = <<>> \/ \E v \in 1 .. version : stmts = Versions[v]
  BY DEF Texts
<1>3. CASE stmts = <<>>
  BY <1>3
<1>4. CASE \E v \in 1 .. version : stmts = Versions[v]
  BY <1>1, <1>4, Bounds
<1> QED
  BY <1>2, <1>3, <1>4

(* Nothing is pushed yet.                                                  *)
LEMMA PushedNone ==
  ASSUME NEW stmts \in Seq(Statements), filterExpr = <<>>, filterExcpExpr = <<>>
  PROVE  PushedOf(stmts, 0, stmts)
<1>1. UpTo(stmts, FALSE)[0] = <<>> /\ UpTo(stmts, TRUE)[0] = <<>>
  BY UpToDef
<1>2. Len(stmts) = Len(stmts) - 0 /\ \A i \in 1 .. Len(stmts) : 0 + i = i
  OBVIOUS
<1> QED
  BY <1>1, <1>2 DEF PushedOf

LEMMA EmptyLoaded ==
  ASSUME filterExpr = <<>>, filterExcpExpr = <<>>
  PROVE  Loaded(<<>>)
<1>1. ASSUME NEW stmts, stmts = <<>> PROVE Loaded(stmts)
  <2>1. stmts \in Seq(Statements) /\ Len(stmts) = 0
    BY <1>1
  <2>2. UpTo(stmts, FALSE)[0] = <<>> /\ UpTo(stmts, TRUE)[0] = <<>>
    <3>1. \A exc : UpTo(stmts, exc)[0] = <<>>
      BY <2>1, UpToDef, Zenon
    <3> QED
      BY <3>1
  <2> QED
    BY <2>1, <2>2 DEF Loaded, RulesOf
<1> QED
  BY <1>1

(* Everything is pushed.                                                   *)
LEMMA PushedAll ==
  ASSUME NEW stmts \in Seq(Statements), NEW n \in 0 .. Len(stmts), PushedOf(stmts, n, <<>>)
  PROVE  Loaded(stmts)
<1>1. 0 = Len(stmts) - n
  BY DEF PushedOf
<1>2. n = Len(stmts)
  BY <1>1
<1> QED
  BY <1>2 DEF PushedOf, Loaded, RulesOf

(* One statement more.                                                     *)
LEMMA PushedMore ==
  ASSUME NEW stmts \in Seq(Statements), NEW n \in 0 .. Len(stmts),
         NEW rest \in Seq(Statements), rest # <<>>, PushedOf(stmts, n, rest),
         IF Head(rest).exception
           THEN /\ filterExcpExpr' = Append(filterExcpExpr, Head(rest).files)
                /\ UNCHANGED filterExpr
           ELSE /\ filterExpr' = Append(filterExpr, Head(rest).files)
                /\ UNCHANGED filterExcpExpr
  PROVE  /\ n + 1 \in 0 .. Len(stmts)
         /\ filterExpr' = UpTo(stmts, FALSE)[n + 1] /\ filterExcpExpr' = UpTo(stmts, TRUE)[n + 1]
         /\ Len(Tail(rest)) = Len(stmts) - (n + 1)
         /\ \A i \in 1 .. Len(Tail(rest)) : Tail(rest)[i] = stmts[n + 1 + i]
<1>1. /\ Head(rest) = rest[1] /\ Tail(rest) \in Seq(Statements)
      /\ Len(Tail(rest)) = Len(rest) - 1 /\ Len(rest) \in Nat /\ Len(rest) >= 1
      /\ \A i \in 1 .. Len(Tail(rest)) : Tail(rest)[i] = rest[i + 1]
  BY HeadTailProperties, EmptySeq
<1>2. Len(rest) = Len(stmts) - n /\ \A i \in 1 .. Len(rest) : rest[i] = stmts[n + i]
  BY DEF PushedOf
<1>3. n + 1 \in 1 .. Len(stmts) /\ n + 1 - 1 = n
  BY <1>1, <1>2
<1>4. Head(rest) = stmts[n + 1] /\ stmts[n + 1] \in Statements
  BY <1>1, <1>2, <1>3
<1>5. Head(rest).exception \in BOOLEAN
  BY <1>4 DEF Statements
<1>6. /\ filterExpr = UpTo(stmts, FALSE)[n] /\ filterExcpExpr = UpTo(stmts, TRUE)[n]
  BY DEF PushedOf
<1>7. /\ UpTo(stmts, FALSE)[n + 1] =
            IF stmts[n + 1].exception = FALSE
              THEN Append(UpTo(stmts, FALSE)[n], stmts[n + 1].files) ELSE UpTo(stmts, FALSE)[n]
      /\ UpTo(stmts, TRUE)[n + 1] =
            IF stmts[n + 1].exception = TRUE
              THEN Append(UpTo(stmts, TRUE)[n], stmts[n + 1].files) ELSE UpTo(stmts, TRUE)[n]
  <2>1. n # Len(stmts)
    BY <1>1, <1>2
  <2>2. ASSUME NEW exc
        PROVE  UpTo(stmts, exc)[n + 1] =
                 IF stmts[n + 1].exception = exc
                   THEN Append(UpTo(stmts, exc)[n], stmts[n + 1].files) ELSE UpTo(stmts, exc)[n]
    BY <2>1, UpToMore
  <2> QED
    BY <2>2
<1>8. filterExpr' = UpTo(stmts, FALSE)[n + 1] /\ filterExcpExpr' = UpTo(stmts, TRUE)[n + 1]
  <2>1. CASE Head(rest).exception = TRUE
    BY <1>4, <1>6, <1>7, <2>1
  <2>2. CASE Head(rest).exception = FALSE
    BY <1>4, <1>6, <1>7, <2>2
  <2> QED
    BY <1>5, <2>1, <2>2
<1>9. Len(Tail(rest)) = Len(stmts) - (n + 1)
  BY <1>1, <1>2
<1>10. ASSUME NEW i \in 1 .. Len(Tail(rest)) PROVE Tail(rest)[i] = stmts[n + 1 + i]
  <2>1. i + 1 \in 1 .. Len(rest) /\ n + (i + 1) = n + 1 + i
    BY <1>1
  <2> QED
    BY <1>1, <1>2, <2>1
<1>11. n + 1 \in 0 .. Len(stmts)
  BY <1>3
<1> QED
  BY <1>8, <1>9, <1>10, <1>11

-----------------------------------------------------------------------------
(* The outermost call of a reader that has not raced.                      *)

Outer(t, places) == stack[t] # <<>> /\ stack[t][1].pc \in places

LEMMA GotoOuter ==
  ASSUME IInv, ~raced, NEW t \in Readers, NEW from \in Places \ {"guard"}, NEW to \in Places,
         At(t, from), Goto(t, to)
  PROVE  /\ stack[t] # <<>> /\ stack[t][1].pc = from /\ Top(t) = stack[t][1]
         /\ stack'[t] # <<>> /\ stack'[t][1] = [stack[t][1] EXCEPT !.pc = to]
         /\ stack[t][1] \in Frames
         /\ \A u \in Readers \ {t} : stack'[u] = stack[u]
<1>1. TypeOK /\ stack[t] # <<>> /\ Len(stack[t]) = 1 /\ stack[t][1].pc = from
  BY Outermost DEF At, IInv
<1>2. Top(t) = stack[t][1] /\ stack[t][1] \in Frames
  BY <1>1, Depth
<1>3. /\ stack'[t][Len(stack[t])] = [Top(t) EXCEPT !.pc = to]
      /\ Len(stack'[t]) = Len(stack[t]) /\ stack' \in [Readers -> Seq(Frames)]
      /\ \A u \in Readers \ {t} : stack'[u] = stack[u]
  BY <1>1, GotoMoves, MovedShape
<1>4. stack'[t] # <<>>
  BY <1>1, <1>3, EmptySeq
<1> QED
  BY <1>1, <1>2, <1>3, <1>4

LEMMA LeaveOuter ==
  ASSUME IInv, ~raced, NEW t \in Readers, Leave(t)
  PROVE  /\ Outer(t, {"leave"}) /\ stack'[t] = <<>>
         /\ \A u \in Readers \ {t} : stack'[u] = stack[u]
<1>1. TypeOK /\ stack[t] # <<>> /\ Len(stack[t]) = 1 /\ stack[t][1].pc = "leave"
  BY Outermost DEF At, IInv, Leave, Places
<1>2. /\ stack' \in [Readers -> Seq(Frames)] /\ Len(stack'[t]) = Len(stack[t]) - 1
      /\ \A u \in Readers \ {t} : stack'[u] = stack[u]
  BY <1>1, ReturnShape DEF Leave
<1>3. Len(stack'[t]) = 0
  BY <1>1, <1>2
<1> QED
  BY <1>1, <1>2, <1>3, EmptySeq DEF Outer

(* A reader at the guard is stopped, or it goes on, or a call that         *)
(* _wstat64 has made returns to it.                                        *)
LEMMA GuardOuter ==
  ASSUME IInv, ~raced, NEW t \in Readers, Guard(t)
  PROVE  /\ \A u \in Readers \ {t} : stack'[u] = stack[u]
         /\ \/ /\ Outer(t, {"guard"}) /\ stack'[t] = <<>> /\ turnedAway' = TRUE
            \/ /\ Outer(t, {"guard"}) /\ Outer(t, {"enter"})'
               /\ UNCHANGED turnedAway
            \/ /\ Outer(t, {"decide"}) /\ stack'[t] # <<>> /\ stack'[t][1] = stack[t][1]
               /\ UNCHANGED turnedAway
<1>1. TypeOK /\ StackInv /\ AloneInv
  BY DEF IInv
<1>2. /\ stack[t] # <<>> /\ Len(stack[t]) \in Nat /\ Len(stack[t]) >= 1
      /\ stack[t][Len(stack[t])].pc = "guard"
  BY <1>1, Depth DEF Guard, At
<1>3. Len(stack[t]) = 1 \/ Len(stack[t]) = 2
  <2>1. Len(stack[t]) > 1 => Len(stack[t]) = 2
    BY <1>1 DEF AloneInv
  <2> QED
    BY <1>2, <2>1, OneOrMore
<1>4. turnedAway \in BOOLEAN
  BY <1>1 DEF TypeOK
<1>5. CASE Len(stack[t]) = 1 /\ inside
  <2>1. /\ stack' \in [Readers -> Seq(Frames)] /\ Len(stack'[t]) = Len(stack[t]) - 1
        /\ \A u \in Readers \ {t} : stack'[u] = stack[u]
    BY <1>1, <1>2, <1>5, ReturnShape DEF Guard
  <2>2. Len(stack'[t]) = 0
    BY <1>5, <2>1
  <2>3. stack'[t] = <<>>
    BY <2>1, <2>2, EmptySeq
  <2>4. turnedAway' = TRUE
    BY <1>5 DEF Guard
  <2>5. Outer(t, {"guard"})
    BY <1>2, <1>5 DEF Outer
  <2> QED
    BY <2>1, <2>3, <2>4, <2>5
<1>6. CASE ~inside
  <2>1. /\ Goto(t, "enter") /\ turnedAway' = turnedAway
    BY <1>4, <1>6 DEF Guard
  <2>2. /\ stack'[t][Len(stack[t])] = [Top(t) EXCEPT !.pc = "enter"] /\ Top(t) \in Frames
        /\ Len(stack'[t]) = Len(stack[t]) /\ stack' \in [Readers -> Seq(Frames)]
        /\ \A u \in Readers \ {t} : stack'[u] = stack[u]
    BY <1>1, <1>2, <2>1, GotoMoves, MovedShape, Depth DEF Places
  <2>3. stack'[t] # <<>>
    BY <1>2, <2>2, EmptySeq
  <2>4. CASE Len(stack[t]) = 1
    <3>1. stack'[t][1].pc = "enter"
      BY <2>2, <2>4 DEF Frames
    <3> QED
      BY <1>2, <2>1, <2>2, <2>3, <2>4, <3>1 DEF Outer
  <2>5. CASE Len(stack[t]) = 2
    <3>1. 1 \in 1 .. Len(stack[t]) - 1
      BY <2>5
    <3>2. stack[t][1].pc = "decide"
      BY <1>1, <3>1 DEF StackInv
    <3>3. Past(t)
      BY <1>2, <3>2 DEF Past
    <3>4. inside
      BY <1>1, <3>2, <3>3 DEF AloneInv
    <3> QED
      BY <1>6, <3>4
  <2> QED
    BY <1>3, <2>4, <2>5
<1>7. CASE Len(stack[t]) = 2 /\ inside
  <2>1. /\ stack' \in [Readers -> Seq(Frames)] /\ Len(stack'[t]) = Len(stack[t]) - 1
        /\ \A i \in 1 .. Len(stack[t]) - 1 : stack'[t][i] = stack[t][i]
        /\ \A u \in Readers \ {t} : stack'[u] = stack[u]
    BY <1>1, <1>2, <1>7, ReturnShape DEF Guard
  <2>2. 1 \in 1 .. Len(stack[t]) - 1 /\ Len(stack'[t]) = 1
    BY <1>7, <2>1
  <2>3. stack'[t] # <<>>
    BY <2>1, <2>2, EmptySeq
  <2>4. Outer(t, {"decide"}) /\ stack'[t][1] = stack[t][1]
    BY <1>1, <1>2, <2>1, <2>2 DEF StackInv, Outer
  <2>5. UNCHANGED turnedAway
    <3>1. turnedAway' = (turnedAway \/ (inside /\ Len(stack[t]) = 1))
      BY DEF Guard
    <3>2. Len(stack[t]) # 1
      BY <1>7
    <3> QED
      BY <1>4, <3>1, <3>2
  <2> QED
    BY <2>1, <2>3, <2>4, <2>5
<1> QED
  BY <1>3, <1>5, <1>6, <1>7

LEMMA StatOuter ==
  ASSUME IInv, ~raced, NEW t \in Readers, Stat(t)
  PROVE  /\ Outer(t, {"stat"}) /\ Outer(t, {"decide"})'
         /\ stack'[t][1].stat =
              [exists |-> version > 0 \/ truncated, empty |-> truncated, mtime |-> mtime]
         /\ \A u \in Readers \ {t} : stack'[u] = stack[u]
<1>1. TypeOK /\ stack[t] # <<>> /\ Len(stack[t]) = 1 /\ stack[t][1].pc = "stat"
  BY Outermost DEF At, IInv, Stat, Places
<1> DEFINE st == [exists |-> version > 0 \/ truncated, empty |-> truncated, mtime |-> mtime]
           read == [Top(t) EXCEPT !.pc = "decide", !.stat = st]
           called == SubSeq(stack[t], 1, Len(stack[t]) - 1) \o <<read>>
<1>2. Top(t) \in Frames
  BY <1>1, Depth
<1>3. st \in Stats
  BY <1>1 DEF TypeOK, Stats
<1>4. read \in Frames /\ read.pc = "decide" /\ read.stat = st
  BY <1>2, <1>3 DEF Frames, Places
<1>5. called = Frame(t, read)
  BY DEF Frame
<1>6. stack' = [stack EXCEPT ![t] = called] \/ stack' = [stack EXCEPT ![t] = Append(called, Call)]
  BY DEF Stat
<1> HIDE DEF st, read, called
<1>7. /\ called \in Seq(Frames) /\ Len(called) = 1 /\ called[1] = read
      /\ Append(called, Call) \in Seq(Frames) /\ Len(Append(called, Call)) = 2
      /\ Append(called, Call)[1] = read
  <2>1. /\ called \in Seq(Frames) /\ Len(called) = Len(stack[t])
        /\ called[Len(stack[t])] = read
        /\ Append(called, Call) \in Seq(Frames)
        /\ Len(Append(called, Call)) = Len(stack[t]) + 1
        /\ \A i \in 1 .. Len(stack[t]) : Append(called, Call)[i] = called[i]
    BY <1>1, <1>4, <1>5, FrameShape
  <2> QED
    BY <1>1, <2>1
<1>8. called # <<>> /\ Append(called, Call) # <<>>
  BY <1>7, EmptySeq
<1>9. stack'[t] # <<>> /\ stack'[t][1] = read /\ \A u \in Readers \ {t} : stack'[u] = stack[u]
  BY <1>1, <1>6, <1>7, <1>8 DEF TypeOK
<1>10. read.stat = [exists |-> version > 0 \/ truncated, empty |-> truncated, mtime |-> mtime]
  BY <1>4 DEF st
<1> QED
  BY <1>1, <1>4, <1>9, <1>10 DEF Outer

LEMMA ReadOuter ==
  ASSUME IInv, ~raced, NEW t \in Readers, NEW from \in {"read", "push"}, At(t, from), NEW rest,
         rest \in Seq(Statements),
         stack' = [stack EXCEPT ![t] = [stack[t] EXCEPT ![Len(stack[t])] =
                                          [Top(t) EXCEPT !.pc = "push", !.rest = rest]]]
  PROVE  /\ Outer(t, {from}) /\ Outer(t, {"push"})' /\ Top(t) = stack[t][1]
         /\ stack[t][1] \in Frames
         /\ stack'[t][1].rest = rest
         /\ \A u \in Readers \ {t} : stack'[u] = stack[u]
<1>1. TypeOK /\ stack[t] # <<>> /\ Len(stack[t]) = 1 /\ stack[t][1].pc = from
  BY Outermost DEF At, IInv, Places
<1>2. Top(t) \in Frames /\ Top(t) = stack[t][1]
  BY <1>1, Depth
<1> DEFINE frame == [Top(t) EXCEPT !.pc = "push", !.rest = rest]
<1>3. frame \in Frames /\ frame.pc = "push" /\ frame.rest = rest
  BY <1>2 DEF Frames, Places
<1>4. Moved(t, frame)
  BY DEF Moved
<1> HIDE DEF frame
<1>5. /\ stack' \in [Readers -> Seq(Frames)] /\ Len(stack'[t]) = 1 /\ stack'[t][1] = frame
      /\ \A u \in Readers \ {t} : stack'[u] = stack[u]
  BY <1>1, <1>3, <1>4, MovedShape
<1>6. stack'[t] # <<>>
  BY <1>5, EmptySeq
<1> QED
  BY <1>1, <1>2, <1>3, <1>5, <1>6 DEF Outer

-----------------------------------------------------------------------------
(* Places that one reader's step changes, or leaves.                       *)

LEMMA Elsewhere ==
  ASSUME NEW t \in Readers, \A u \in Readers \ {t} : stack'[u] = stack[u]
  PROVE  /\ \A P : ~Outer(t, P) /\ ~Outer(t, P)' => (SomeAt(P)' <=> SomeAt(P))
         /\ \A P : Outer(t, P)' => SomeAt(P)'
         /\ ~Outer(t, {"push"}) /\ ~Outer(t, {"push"})' /\ UNCHANGED ruleVars =>
              \A stmts : Pushing(stmts)' <=> Pushing(stmts)
<1>1. \A P : ~Outer(t, P) /\ ~Outer(t, P)' => (SomeAt(P)' <=> SomeAt(P))
  BY DEF Outer, SomeAt
<1>2. \A P : Outer(t, P)' => SomeAt(P)'
  BY DEF Outer, SomeAt
<1>3. ASSUME ~Outer(t, {"push"}), ~Outer(t, {"push"})', UNCHANGED ruleVars, NEW stmts
      PROVE  Pushing(stmts)' <=> Pushing(stmts)
  <2>1. ~PushingFrom(t, stmts) /\ ~PushingFrom(t, stmts)'
    BY <1>3 DEF Outer, PushingFrom
  <2>2. \A u \in Readers \ {t} : PushingFrom(u, stmts)' <=> PushingFrom(u, stmts)
    <3>1. filterExpr' = filterExpr /\ filterExcpExpr' = filterExcpExpr
      BY <1>3 DEF ruleVars
    <3>2. ASSUME NEW u \in Readers \ {t} PROVE PushingFrom(u, stmts)' <=> PushingFrom(u, stmts)
      <4>1. stack'[u] = stack[u]
        OBVIOUS
      <4> QED
        BY <3>1, <4>1, Zenon DEF PushingFrom, PushedOf
    <3> QED
      BY <3>2
  <2> QED
    BY <2>1, <2>2 DEF Pushing
<1> QED
  BY <1>1, <1>2, <1>3

(* The only reader past the guard.                                         *)
LEMMA Sole ==
  ASSUME IInv, ~raced, NEW t \in Readers, Past(t), \A u \in Readers \ {t} : stack'[u] = stack[u]
  PROVE  /\ \A P : P \cap {"guard", "enter"} = {} =>
              (SomeAt(P) <=> Outer(t, P)) /\ (SomeAt(P)' <=> Outer(t, P)')
         /\ \A stmts : /\ Pushing(stmts) <=> PushingFrom(t, stmts)
                       /\ Pushing(stmts)' <=> PushingFrom(t, stmts)'
<1>1. \A u \in Readers \ {t} : ~Past(u)
  BY DEF IInv, AloneInv
<1>2. \A u \in Readers \ {t} : \A P : P \cap {"guard", "enter"} = {} => ~Outer(u, P) /\ ~Outer(u, P)'
  BY <1>1 DEF Past, Outer
<1>3. \A u \in Readers \ {t} : \A stmts : ~PushingFrom(u, stmts) /\ ~PushingFrom(u, stmts)'
  BY <1>1 DEF Past, PushingFrom
<1>4. ASSUME NEW P, P \cap {"guard", "enter"} = {}
      PROVE  (SomeAt(P) <=> Outer(t, P)) /\ (SomeAt(P)' <=> Outer(t, P)')
  <2>1. \A u \in Readers \ {t} : ~Outer(u, P) /\ ~Outer(u, P)'
    BY <1>2, <1>4
  <2> QED
    BY <2>1 DEF SomeAt, Outer
<1>5. ASSUME NEW stmts
      PROVE  /\ Pushing(stmts) <=> PushingFrom(t, stmts)
             /\ Pushing(stmts)' <=> PushingFrom(t, stmts)'
  BY <1>3 DEF Pushing
<1> QED
  BY <1>4, <1>5

(* A reader that neither has cleared the lists nor has yet to leave them.  *)
Aside(t) ==
  /\ UNCHANGED <<ruleVars, version, truncated>>
  /\ \A u \in Readers \ {t} : stack'[u] = stack[u]
  /\ ~Outer(t, {"read", "push"})
  /\ stack'[t] = <<>> \/ stack'[t][1].pc \notin {"read", "push"}

LEMMA AsideSteps ==
  ASSUME IInv, ~raced, ~raced', NEW t \in Readers,
         \/ Guard(t) \/ Enter(t) \/ Stat(t) \/ Decide(t) \/ Record(t) \/ Open(t) \/ Leave(t)
  PROVE  Aside(t)
<1> USE DEF Aside, Outer, fileVars, historyVars, Places
<1>1. CASE Guard(t)
  BY <1>1, GuardOuter DEF Guard
<1>2. CASE Enter(t)
  BY <1>2, GotoOuter DEF Enter, Frames
<1>3. CASE Stat(t)
  BY <1>3, StatOuter DEF Stat
<1>4. CASE Decide(t)
  <2>1. At(t, "decide") /\ (Goto(t, "leave") \/ Goto(t, "record")) /\ UNCHANGED <<ruleVars, version, truncated>>
    BY <1>4 DEF Decide
  <2>2. CASE Goto(t, "leave")
    <3>1. /\ stack[t] # <<>> /\ stack[t][1].pc = "decide" /\ stack[t][1] \in Frames
          /\ stack'[t] # <<>> /\ stack'[t][1] = [stack[t][1] EXCEPT !.pc = "leave"]
          /\ \A u \in Readers \ {t} : stack'[u] = stack[u]
      BY <2>1, <2>2, GotoOuter
    <3>2. stack'[t][1].pc = "leave"
      BY <3>1 DEF Frames
    <3> QED
      BY <2>1, <3>1, <3>2
  <2>3. CASE Goto(t, "record")
    BY <2>1, <2>3, GotoOuter DEF Frames
  <2> QED
    BY <2>1, <2>2, <2>3
<1>5. CASE Record(t)
  BY <1>5, GotoOuter DEF Record, Frames
<1>6. CASE Open(t)
  <2>1. At(t, "open") /\ (Goto(t, "clear") \/ Goto(t, "leave")) /\ UNCHANGED <<ruleVars, version, truncated>>
    BY <1>6 DEF Open
  <2>2. CASE Goto(t, "clear")
    BY <2>1, <2>2, GotoOuter DEF Frames
  <2>3. CASE Goto(t, "leave")
    <3>1. /\ stack[t] # <<>> /\ stack[t][1].pc = "open" /\ stack[t][1] \in Frames
          /\ stack'[t] # <<>> /\ stack'[t][1] = [stack[t][1] EXCEPT !.pc = "leave"]
          /\ \A u \in Readers \ {t} : stack'[u] = stack[u]
      BY <2>1, <2>3, GotoOuter
    <3>2. stack'[t][1].pc = "leave"
      BY <3>1 DEF Frames
    <3> QED
      BY <2>1, <3>1, <3>2
  <2> QED
    BY <2>1, <2>2, <2>3
<1>7. CASE Leave(t)
  BY <1>7, LeaveOuter DEF Leave
<1> QED
  BY <1>1, <1>2, <1>3, <1>4, <1>5, <1>6, <1>7

(* The reader that clears the lists alone.                                 *)
LEMMA ClearAlone ==
  ASSUME IInv, ~raced', NEW t \in Readers, Clear(t)
  PROVE  /\ filterExpr' = <<>> /\ filterExcpExpr' = <<>>
         /\ Outer(t, {"read"})' /\ SomeAt({"read"})' /\ ~SomeAt({"push"})'
<1>1. TypeOK
  BY DEF IInv
<1>2. Alone(t) /\ ~(Len(stack[t]) > 1) /\ stack[t] # <<>>
  BY DEF Clear, At
<1>3. Len(stack[t]) = 1
  BY <1>1, <1>2, Depth, OneOrMore
<1>4. /\ Shape(t) /\ Len(stack'[t]) = 1 /\ stack'[t][1].pc = "read"
      /\ stack' \in [Readers -> Seq(Frames)]
      /\ \A u \in Readers \ {t} : stack'[u] = stack[u]
  BY <1>1, <1>3, GotoShape DEF Clear, Places, Edges, Shape
<1>5. stack'[t] # <<>>
  <2>1. stack'[t] \in Seq(Frames) /\ Len(stack'[t]) # 0
    BY <1>4
  <2> QED
    BY <2>1, EmptySeq
<1>6. Outer(t, {"read"})' /\ ~Outer(t, {"push"})'
  BY <1>4, <1>5 DEF Outer
<1>7. \A u \in Readers \ {t} : ~Outer(u, {"push"})'
  BY <1>2, <1>4 DEF Alone, Outer
<1> QED
  BY <1>6, <1>7 DEF Clear, SomeAt, Outer

(* Push at the outermost call.                                             *)
LEMMA PushOuter ==
  ASSUME IInv, ~raced, NEW t \in Readers, Push(t)
  PROVE  /\ Outer(t, {"push"}) /\ At(t, "push") /\ Past(t)
         /\ Top(t) = stack[t][1] /\ stack[t][1] \in Frames
         /\ IF stack[t][1].rest = <<>>
              THEN /\ stack'[t] # <<>> /\ stack'[t][1].pc = "leave" /\ UNCHANGED ruleVars
              ELSE /\ stack'[t] # <<>> /\ stack'[t][1].pc = "push"
                   /\ stack'[t][1].rest = Tail(stack[t][1].rest)
         /\ \A u \in Readers \ {t} : stack'[u] = stack[u]
<1>1. /\ TypeOK /\ At(t, "push") /\ stack[t] # <<>> /\ Len(stack[t]) = 1
      /\ stack[t][1].pc = "push"
  BY Outermost DEF At, IInv, Push, Places
<1>2. Top(t) = stack[t][1] /\ stack[t][1] \in Frames
  BY <1>1, Depth
<1>3. Outer(t, {"push"}) /\ Past(t)
  BY <1>1 DEF Outer, Past
<1>4. CASE stack[t][1].rest = <<>>
  <2>1. Goto(t, "leave") /\ UNCHANGED ruleVars
    BY <1>2, <1>4 DEF Push
  <2>2. /\ stack'[t] # <<>> /\ stack'[t][1] = [stack[t][1] EXCEPT !.pc = "leave"]
        /\ \A u \in Readers \ {t} : stack'[u] = stack[u]
    BY <1>1, <2>1, GotoOuter DEF Places
  <2>3. stack'[t][1].pc = "leave"
    BY <1>2, <2>2 DEF Frames
  <2> QED
    BY <1>1, <1>2, <1>3, <1>4, <2>1, <2>2, <2>3
<1>5. CASE stack[t][1].rest # <<>>
  <2>1. Tail(stack[t][1].rest) \in Seq(Statements)
    BY <1>2, <1>5, HeadTailProperties DEF Frames
  <2>2. stack' = [stack EXCEPT ![t] = [stack[t] EXCEPT ![Len(stack[t])] =
                    [Top(t) EXCEPT !.pc = "push", !.rest = Tail(stack[t][1].rest)]]]
    <3>1. stack' = [stack EXCEPT ![t][Len(stack[t])].rest = Tail(@)]
      BY <1>2, <1>5 DEF Push
    <3>2. [Top(t) EXCEPT !.pc = "push", !.rest = Tail(stack[t][1].rest)]
            = [stack[t][1] EXCEPT !.rest = Tail(stack[t][1].rest)]
      BY <1>1, <1>2 DEF Frames
    <3> QED
      BY <1>1, <1>2, <3>1, <3>2
  <2>3. /\ Outer(t, {"push"})' /\ stack'[t][1].rest = Tail(stack[t][1].rest)
        /\ \A u \in Readers \ {t} : stack'[u] = stack[u]
    BY <1>1, <2>1, <2>2, ReadOuter
  <2> QED
    BY <1>1, <1>2, <1>3, <1>5, <2>3 DEF Outer
<1> QED
  BY <1>4, <1>5

(* It pushes what it has read, and is at the end when all is pushed.       *)
LEMMA PushStmts ==
  ASSUME IInv, ~raced, NEW t \in Readers, Push(t), NEW stmts \in Texts, PushingFrom(t, stmts)
  PROVE  /\ Outer(t, {"push"})' => PushingFrom(t, stmts)'
         /\ ~Outer(t, {"push"})' => Loaded(stmts)'
<1>1. /\ stack[t][1] \in Frames /\ Top(t) = stack[t][1] /\ stmts \in Seq(Statements)
      /\ stack[t][1].rest \in Seq(Statements)
  BY PushOuter, TextTypes DEF IInv, Frames
<1>2. PICK n \in 0 .. Len(stmts) : PushedOf(stmts, n, stack[t][1].rest)
  BY DEF PushingFrom
<1>3. CASE stack[t][1].rest = <<>>
  <2>1. Loaded(stmts)
    BY <1>1, <1>2, <1>3, PushedAll
  <2>2. UNCHANGED ruleVars /\ ~Outer(t, {"push"})'
    BY <1>3, PushOuter DEF Outer
  <2> QED
    BY <2>1, <2>2 DEF Loaded, ruleVars
<1>4. CASE stack[t][1].rest # <<>>
  <2>1. /\ Outer(t, {"push"})' /\ stack'[t][1].rest = Tail(stack[t][1].rest)
    BY <1>4, PushOuter DEF Outer
  <2>2. /\ n + 1 \in 0 .. Len(stmts)
        /\ filterExpr' = UpTo(stmts, FALSE)[n + 1] /\ filterExcpExpr' = UpTo(stmts, TRUE)[n + 1]
        /\ Len(Tail(stack[t][1].rest)) = Len(stmts) - (n + 1)
        /\ \A i \in 1 .. Len(Tail(stack[t][1].rest)) :
              Tail(stack[t][1].rest)[i] = stmts[n + 1 + i]
    <3>1. IF Head(stack[t][1].rest).exception
            THEN /\ filterExcpExpr' = Append(filterExcpExpr, Head(stack[t][1].rest).files)
                 /\ UNCHANGED filterExpr
            ELSE /\ filterExpr' = Append(filterExpr, Head(stack[t][1].rest).files)
                 /\ UNCHANGED filterExcpExpr
      BY <1>1, <1>4 DEF Push
    <3> QED
      BY <1>1, <1>2, <1>4, <3>1, PushedMore
  <2>3. PushedOf(stmts, n + 1, stack[t][1].rest)'
    BY <2>1, <2>2 DEF PushedOf
  <2>4. PushingFrom(t, stmts)'
    BY <2>1, <2>2, <2>3 DEF PushingFrom, Outer
  <2> QED
    BY <2>1, <2>4
<1> QED
  BY <1>3, <1>4

(* After fgetws all of the text is still to be pushed.                     *)
LEMMA ReadStmts ==
  ASSUME NEW stmts \in Seq(Statements), NEW t \in Readers, Outer(t, {"push"})',
         stack'[t][1].rest = stmts, filterExpr' = <<>>, filterExcpExpr' = <<>>
  PROVE  PushingFrom(t, stmts)'
<1>1. Len(stmts) \in Nat
  OBVIOUS
<1>2. UpTo(stmts, FALSE)[0] = <<>> /\ UpTo(stmts, TRUE)[0] = <<>>
  BY UpToDef
<1>3. Len(stmts) = Len(stmts) - 0 /\ \A i \in 1 .. Len(stmts) : 0 + i = i
  BY <1>1
<1>4. PushedOf(stmts, 0, stack[t][1].rest)'
  BY <1>2, <1>3 DEF PushedOf
<1>5. 0 \in 0 .. Len(stmts)
  BY <1>1
<1> QED
  BY <1>4, <1>5 DEF PushingFrom, Outer

LEMMA OuterPlaces ==
  ASSUME IInv, ~raced, NEW t \in Readers,
         \/ Guard(t) \/ Enter(t) \/ Stat(t) \/ Decide(t) \/ Leave(t)
  PROVE  ~Outer(t, {"open", "clear", "read"})
<1>1. CASE Guard(t)
  BY <1>1, GuardOuter DEF Outer
<1>2. CASE Enter(t)
  BY <1>2, Outermost DEF Enter, Places, Outer
<1>3. CASE Stat(t)
  BY <1>3, Outermost DEF Stat, Places, Outer
<1>4. CASE Decide(t)
  BY <1>4, Outermost DEF Decide, Places, Outer
<1>5. CASE Leave(t)
  BY <1>5, Outermost DEF Leave, Places, Outer
<1> QED
  BY <1>1, <1>2, <1>3, <1>4, <1>5

LEMMA LoadStep == IInv /\ LoadInv /\ [Next]_vars => LoadInv'
<1> SUFFICES ASSUME IInv, LoadInv, [Next]_vars, ~raced' PROVE LoadInv'
  BY DEF LoadInv
<1>a. TypeOK
  BY DEF IInv
<1>1. ASSUME NEW t \in Readers, Aside(t), ~raced PROVE LoadInv'
  <2>1. ~raced /\ ruleVars' = ruleVars /\ version' = version
    BY <1>1 DEF Aside
  <2>2. ~Outer(t, {"read"}) /\ ~Outer(t, {"read"})' /\ ~Outer(t, {"push"}) /\ ~Outer(t, {"push"})'
        /\ ~Outer(t, {"read", "push"}) /\ ~Outer(t, {"read", "push"})'
    BY <1>1 DEF Aside, Outer
  <2>3. /\ SomeAt({"read"})' <=> SomeAt({"read"})
        /\ SomeAt({"push"})' <=> SomeAt({"push"})
        /\ SomeAt({"read", "push"})' <=> SomeAt({"read", "push"})
        /\ \A stmts : Pushing(stmts)' <=> Pushing(stmts)
    BY <1>1, <2>1, <2>2, Elsewhere DEF Aside
  <2>4. Texts' = Texts /\ \A stmts : Loaded(stmts)' <=> Loaded(stmts)
    BY <2>1 DEF Texts, Loaded, ruleVars
  <2> QED
    BY <2>1, <2>3, <2>4 DEF LoadInv, ruleVars
<1>2. ASSUME NEW t \in Readers, Clear(t) PROVE LoadInv'
  <2>1. SomeAt({"read", "push"})'
    BY <1>2, ClearAlone DEF SomeAt
  <2> QED
    BY <1>2, <2>1, ClearAlone DEF LoadInv
<1>3. ASSUME NEW t \in Readers, Read(t), ~raced PROVE LoadInv'
  <2>1. At(t, "read") /\ Content \in Seq(Statements)
    BY <1>a, <1>3, Contents DEF Read
  <2>2. /\ Outer(t, {"read"}) /\ Outer(t, {"push"})' /\ stack'[t][1].rest = Content
        /\ \A u \in Readers \ {t} : stack'[u] = stack[u]
    <3>1. stack' = [stack EXCEPT ![t] = [stack[t] EXCEPT ![Len(stack[t])] =
                                          [Top(t) EXCEPT !.pc = "push", !.rest = Content]]]
      BY <1>3 DEF Read, Top
    <3> QED
      BY <1>3, <2>1, <3>1, ReadOuter
  <2>3. Past(t)
    BY <2>2 DEF Outer, Past
  <2>4. SomeAt({"read"}) /\ ~SomeAt({"read"})' /\ SomeAt({"read", "push"})'
    <3>1. ~Outer(t, {"read"})' /\ Outer(t, {"read", "push"})'
      BY <2>2 DEF Outer
    <3> QED
      BY <1>3, <2>2, <2>3, <3>1, Sole
  <2>5. filterExpr' = <<>> /\ filterExcpExpr' = <<>> /\ version' = version
    BY <1>3, <2>4 DEF LoadInv, Read, ruleVars, fileVars
  <2>6. Content \in Texts'
    BY <1>a, <2>5 DEF Texts, Content, TypeOK
  <2>7. PICK stmts : stmts = Content
    OBVIOUS
  <2>8. PushingFrom(t, stmts)'
    BY <2>1, <2>2, <2>5, <2>7, ReadStmts
  <2>9. \E text \in Texts' : Pushing(text)'
    BY <2>6, <2>7, <2>8 DEF Pushing
  <2>10. ~SomeAt({"read"})' /\ SomeAt({"read", "push"})'
    BY <2>4
  <2> QED
    BY <2>9, <2>10 DEF LoadInv
<1>4. ASSUME NEW t \in Readers, Push(t), ~raced PROVE LoadInv'
  <2>1. /\ Outer(t, {"push"}) /\ At(t, "push") /\ Top(t) = stack[t][1] /\ Past(t)
        /\ \A u \in Readers \ {t} : stack'[u] = stack[u]
    BY <1>4, PushOuter
  <2>2. SomeAt({"push"}) /\ ~SomeAt({"read"})'
    <3>1. ~Outer(t, {"read"})'
      BY <1>4, PushOuter DEF Outer
    <3> QED
      BY <1>4, <2>1, <3>1, Sole
  <2>3. PICK stmts \in Texts : Pushing(stmts)
    BY <1>4, <2>2 DEF LoadInv
  <2>4. /\ Outer(t, {"push"})' => PushingFrom(t, stmts)'
        /\ ~Outer(t, {"push"})' => Loaded(stmts)'
    BY <1>4, <2>1, <2>3, Sole, PushStmts
  <2>5. stmts \in Texts'
    BY <1>4 DEF Push, fileVars, Texts
  <2>6. /\ Outer(t, {"push"})' <=> SomeAt({"push"})'
        /\ Outer(t, {"push"})' <=> SomeAt({"read", "push"})'
    BY <1>4, <2>1, Sole, PushOuter DEF Outer
  <2> QED
    BY <2>2, <2>4, <2>5, <2>6 DEF LoadInv, Pushing
<1>5. ASSUME UNCHANGED <<stack, ruleVars, raced>>, \A stmts \in Texts : stmts \in Texts'
      PROVE  LoadInv'
  <2>1. /\ \A P : SomeAt(P)' <=> SomeAt(P)
        /\ \A stmts : (Pushing(stmts)' <=> Pushing(stmts)) /\ (Loaded(stmts)' <=> Loaded(stmts))
    BY <1>5 DEF SomeAt, Pushing, PushingFrom, PushedOf, Loaded, ruleVars
  <2> QED
    BY <1>5, <2>1 DEF LoadInv, ruleVars
<1>6. CASE Tick \/ BeginEdit \/ EndEdit \/ Hook \/ UNCHANGED vars \/ \E f \in Files : AskFilter(f)
  <2>1. /\ UNCHANGED <<stack, ruleVars, raced>>
        /\ version' = version \/ version' = version + 1
    BY <1>6 DEF Tick, BeginEdit, EndEdit, Hook, AskFilter, vars, fileVars, ruleVars, historyVars
  <2>2. version \in Nat
    BY <1>a, Bounds DEF TypeOK
  <2>3. \A v \in 1 .. version : v \in 1 .. version'
    BY <2>1, <2>2
  <2>4. \A stmts \in Texts : stmts \in Texts'
    BY <2>3 DEF Texts
  <2> QED
    BY <1>5, <2>1, <2>4
<1>7. ASSUME NEW t \in Readers, MeetConfig(t) PROVE LoadInv'
  <2>1. /\ UNCHANGED ruleVars /\ stack'[t] = <<Call>> /\ ~raced
        /\ \A u \in Readers \ {t} : stack'[u] = stack[u]
        /\ UNCHANGED <<version, truncated>> /\ ~Outer(t, {"read", "push"})
    BY <1>a, <1>7 DEF MeetConfig, TypeOK, historyVars, fileVars, Outer
  <2>2. stack'[t][1].pc = "guard"
    BY <2>1, CallFrame
  <2> QED
    BY <1>1, <2>1, <2>2 DEF Aside
<1>8. ASSUME NEW t \in Readers, ReadSettings(t) PROVE LoadInv'
  <2>1. ~raced \/ Clear(t)
    BY <1>8 DEF ReadSettings, Guard, Enter, Stat, Decide, Record, Open, Read, Push, Leave, historyVars
  <2>2. CASE Clear(t)
    BY <1>2, <2>2
  <2>3. CASE ~raced /\ ~Clear(t) /\ ~Read(t) /\ ~Push(t)
    <3>1. \/ Guard(t) \/ Enter(t) \/ Stat(t) \/ Decide(t) \/ Record(t) \/ Open(t) \/ Leave(t)
      BY <1>8, <2>3 DEF ReadSettings
    <3> QED
      BY <1>1, <2>3, <3>1, AsideSteps
  <2> QED
    BY <1>3, <1>4, <2>1, <2>2, <2>3
<1> QED
  BY <1>6, <1>7, <1>8 DEF Next

-----------------------------------------------------------------------------
(* Times.                                                                  *)

AllTimed == \A u \in Readers : \A i \in 1 .. Len(stack[u]) : Timed(stack[u][i], mtime, Begun)

LEMMA MovedTimed ==
  ASSUME TypeOK, AllTimed, NEW t \in Readers, stack[t] # <<>>, NEW frame \in Frames,
         Moved(t, frame), Timed(frame, mtime, Begun), UNCHANGED <<mtime, Begun>>
  PROVE  AllTimed'
<1>1. /\ Len(stack'[t]) = Len(stack[t]) /\ stack'[t][Len(stack[t])] = frame
      /\ \A i \in 1 .. Len(stack[t]) - 1 : stack'[t][i] = stack[t][i]
      /\ \A u \in Readers \ {t} : stack'[u] = stack[u]
  BY MovedShape
<1>2. Len(stack[t]) \in Nat
  BY Depth
<1>3. ASSUME NEW i \in 1 .. Len(stack'[t]) PROVE Timed(stack'[t][i], mtime, Begun)
  <2>1. i = Len(stack[t]) \/ (i \in 1 .. Len(stack[t]) - 1 /\ i \in 1 .. Len(stack[t]))
    BY <1>1, <1>2
  <2> QED
    BY <1>1, <2>1 DEF AllTimed
<1>4. ASSUME NEW u \in Readers, u # t, NEW i \in 1 .. Len(stack'[u])
      PROVE  Timed(stack'[u][i], mtime, Begun)
  BY <1>1, <1>4 DEF AllTimed
<1>5. \A u \in Readers : \A i \in 1 .. Len(stack'[u]) : Timed(stack'[u][i], mtime, Begun)
  BY <1>3, <1>4
<1> QED
  BY <1>5 DEF AllTimed, Timed

LEMMA GotoTimed ==
  ASSUME TypeOK, AllTimed, NEW t \in Readers, stack[t] # <<>>, NEW to \in Places, Goto(t, to),
         to = "record" => ~Top(t).stat.empty, UNCHANGED <<mtime, Begun>>
  PROVE  AllTimed'
<1>1. Top(t) \in Frames /\ Top(t) = stack[t][Len(stack[t])] /\ Len(stack[t]) \in 1 .. Len(stack[t])
  BY Depth
<1> DEFINE frame == [Top(t) EXCEPT !.pc = to]
<1>2. Moved(t, frame) /\ frame \in Frames
  BY GotoMoves
<1>3. frame.pc = to /\ frame.stat = Top(t).stat
  BY <1>1 DEF Frames
<1>4. Timed(Top(t), mtime, Begun)
  BY <1>1 DEF AllTimed
<1>5. Timed(frame, mtime, Begun)
  BY <1>3, <1>4 DEF Timed
<1> HIDE DEF frame
<1> QED
  BY <1>2, <1>5, MovedTimed

LEMMA ReturnTimed ==
  ASSUME TypeOK, AllTimed, NEW t \in Readers, stack[t] # <<>>, Return(t), UNCHANGED <<mtime, Begun>>
  PROVE  AllTimed'
<1>1. /\ Len(stack'[t]) = Len(stack[t]) - 1 /\ Len(stack[t]) \in Nat
      /\ \A i \in 1 .. Len(stack[t]) - 1 : stack'[t][i] = stack[t][i]
      /\ \A u \in Readers \ {t} : stack'[u] = stack[u]
  BY ReturnShape, Depth
<1>2. \A i \in 1 .. Len(stack'[t]) : stack'[t][i] = stack[t][i] /\ i \in 1 .. Len(stack[t])
  BY <1>1
<1>3. \A u \in Readers : \A i \in 1 .. Len(stack'[u]) : Timed(stack'[u][i], mtime, Begun)
  BY <1>1, <1>2 DEF AllTimed
<1> QED
  BY <1>3 DEF AllTimed, Timed

LEMMA CallTimed ==
  ASSUME TypeOK, Begun => mtime >= 1
  PROVE  Timed(Call, mtime, Begun)
  BY DEF TypeOK, Call, NoStat, Timed

LEMMA StatTimed ==
  ASSUME TypeOK, AllTimed, Begun => mtime >= 1, NEW t \in Readers, Stat(t)
  PROVE  AllTimed'
<1> DEFINE st == [exists |-> version > 0 \/ truncated, empty |-> truncated, mtime |-> mtime]
           read == [Top(t) EXCEPT !.pc = "decide", !.stat = st]
           called == SubSeq(stack[t], 1, Len(stack[t]) - 1) \o <<read>>
<1>1. stack[t] # <<>> /\ Top(t) \in Frames /\ Len(stack[t]) \in Nat
  BY Depth DEF Stat, At
<1>2. st \in Stats
  BY DEF TypeOK, Stats
<1>3. read \in Frames /\ read.pc = "decide" /\ read.stat = st
  BY <1>1, <1>2 DEF Frames, Places
<1>4. Timed(read, mtime, Begun)
  BY <1>3 DEF Timed, Begun, TypeOK
<1>5. called = Frame(t, read)
  BY DEF Frame
<1>6. stack' = [stack EXCEPT ![t] = called] \/ stack' = [stack EXCEPT ![t] = Append(called, Call)]
  BY DEF Stat
<1>7. UNCHANGED <<mtime, Begun>>
  BY DEF Stat, fileVars, Begun
<1> HIDE DEF st, read, called
<1>8. /\ called \in Seq(Frames) /\ Len(called) = Len(stack[t]) /\ called[Len(stack[t])] = read
      /\ \A i \in 1 .. Len(stack[t]) - 1 : called[i] = stack[t][i]
      /\ Append(called, Call) \in Seq(Frames)
      /\ Len(Append(called, Call)) = Len(stack[t]) + 1
      /\ Append(called, Call)[Len(stack[t]) + 1] = Call
      /\ \A i \in 1 .. Len(stack[t]) : Append(called, Call)[i] = called[i]
  BY <1>1, <1>3, <1>5, FrameShape
<1>9. \A i \in 1 .. Len(stack[t]) : Timed(called[i], mtime, Begun)
  <2> SUFFICES ASSUME NEW i \in 1 .. Len(stack[t]) PROVE Timed(called[i], mtime, Begun)
    OBVIOUS
  <2>1. i = Len(stack[t]) \/ i \in 1 .. Len(stack[t]) - 1
    BY <1>1
  <2> QED
    BY <1>4, <1>8, <2>1 DEF AllTimed
<1>10. \A i \in 1 .. Len(stack[t]) + 1 : Timed(Append(called, Call)[i], mtime, Begun)
  <2> SUFFICES ASSUME NEW i \in 1 .. Len(stack[t]) + 1
               PROVE  Timed(Append(called, Call)[i], mtime, Begun)
    OBVIOUS
  <2>1. i = Len(stack[t]) + 1 \/ i \in 1 .. Len(stack[t])
    BY <1>1
  <2>2. CASE i = Len(stack[t]) + 1
    BY <1>8, <2>2, CallTimed
  <2>3. CASE i \in 1 .. Len(stack[t])
    BY <1>8, <1>9, <2>3
  <2> QED
    BY <2>1, <2>2, <2>3
<1>11. \A u \in Readers \ {t} : stack'[u] = stack[u]
  BY <1>6 DEF TypeOK
<1>12. stack'[t] = called \/ stack'[t] = Append(called, Call)
  BY <1>6 DEF TypeOK
<1>13. \A i \in 1 .. Len(stack'[t]) : Timed(stack'[t][i], mtime, Begun)
  BY <1>8, <1>9, <1>10, <1>12
<1>14. \A u \in Readers : \A i \in 1 .. Len(stack'[u]) : Timed(stack'[u][i], mtime, Begun)
  BY <1>11, <1>13 DEF AllTimed
<1> QED
  BY <1>7, <1>14 DEF AllTimed, Timed

LEMMA TimeStep == IInv /\ TimeInv /\ [Next]_vars => TimeInv'
<1> SUFFICES ASSUME IInv, TimeInv, [Next]_vars PROVE TimeInv'
  OBVIOUS
<1>a. TypeOK /\ AllTimed /\ (Begun => mtime >= 1)
  BY DEF IInv, TimeInv, AllTimed, Begun
<1>b. mtime \in Int /\ clock \in Int /\ clock >= 1 /\ settingsMtime \in Int
  BY <1>a, Bounds DEF TypeOK
<1>1. ASSUME UNCHANGED <<truncated, mtime, clock, clash, settingsMtime>>, AllTimed' PROVE TimeInv'
  BY <1>1 DEF TimeInv, AllTimed, Begun
<1>2. ASSUME NEW t \in Readers, ReadSettings(t) PROVE TimeInv'
  <2>1. UNCHANGED <<truncated, mtime, clock, clash>> /\ UNCHANGED <<mtime, Begun>> /\ stack[t] # <<>>
    BY <1>2 DEF ReadSettings, Guard, Enter, Stat, Decide, Record, Open, Clear, Read, Push, Leave,
                fileVars, historyVars, Begun, At
  <2>2. AllTimed'
    <3>1. CASE \/ Guard(t) \/ Leave(t) \/ Enter(t) \/ Decide(t) \/ Record(t) \/ Open(t) \/ Clear(t)
      <4>1. \/ Return(t)
            \/ \E to \in Places : Goto(t, to) /\ (to = "record" => ~Top(t).stat.empty)
        BY <3>1 DEF Guard, Leave, Enter, Decide, Record, Open, Clear, Places
      <4> QED
        BY <1>a, <2>1, <4>1, GotoTimed, ReturnTimed
    <3>2. CASE Stat(t)
      BY <1>a, <3>2, StatTimed
    <3>3. CASE Read(t) \/ Push(t)
      <4>0. Top(t) \in Frames /\ Top(t) = stack[t][Len(stack[t])] /\ Len(stack[t]) \in 1 .. Len(stack[t])
        BY <1>a, <2>1, Depth
      <4>1. CASE Push(t) /\ Top(t).rest = <<>>
        <5>1. Goto(t, "leave")
          BY <4>1 DEF Push
        <5> QED
          BY <1>a, <2>1, <5>1, GotoTimed DEF Places
      <4>2. CASE ~(Push(t) /\ Top(t).rest = <<>>)
        <5> DEFINE rest == IF Read(t) THEN Content ELSE Tail(Top(t).rest)
                   frame == [Top(t) EXCEPT !.pc = "push", !.rest = rest]
        <5>1. rest \in Seq(Statements)
          <6>1. ~Read(t) => Top(t).rest \in Seq(Statements) /\ Top(t).rest # <<>>
            BY <3>3, <4>0, <4>2 DEF Frames
          <6>2. ~Read(t) => Tail(Top(t).rest) \in Seq(Statements)
            BY <6>1, HeadTailProperties
          <6> QED
            BY <1>a, <6>2, Contents
        <5>2. Moved(t, frame)
          BY <3>3, <4>0, <4>2 DEF Read, Push, Moved, Top, At, Frames
        <5> HIDE DEF rest
        <5>3. frame \in Frames /\ frame.pc = "push" /\ frame.stat = Top(t).stat
          BY <4>0, <5>1 DEF Frames, Places
        <5>4. Timed(Top(t), mtime, Begun)
          BY <1>a, <4>0 DEF AllTimed
        <5>5. Timed(frame, mtime, Begun)
          BY <5>3, <5>4 DEF Timed
        <5> HIDE DEF frame
        <5> QED
          BY <1>a, <2>1, <5>2, <5>3, <5>5, MovedTimed
      <4> QED
        BY <4>1, <4>2
    <3> QED
      BY <1>2, <3>1, <3>2, <3>3 DEF ReadSettings
  <2>3. CASE Record(t)
    <3>1. Top(t) \in Frames /\ Top(t) = stack[t][Len(stack[t])] /\ Len(stack[t]) \in 1 .. Len(stack[t])
          /\ Top(t).pc = "record"
      BY <1>a, <2>1, <2>3, Depth DEF Record, At
    <3>2. Timed(Top(t), mtime, Begun)
      BY <1>a, <3>1 DEF AllTimed
    <3>3. settingsMtime' = Top(t).stat.mtime
      BY <2>3 DEF Record
    <3> QED
      BY <2>1, <2>2, <3>1, <3>2, <3>3 DEF TimeInv, AllTimed, Timed, Begun
  <2>4. CASE ~Record(t)
    <3>1. UNCHANGED settingsMtime
      BY <1>2, <2>4 DEF ReadSettings, Guard, Enter, Stat, Decide, Open, Clear, Read, Push, Leave
    <3> QED
      BY <1>1, <2>1, <2>2, <3>1
  <2> QED
    BY <2>3, <2>4
<1>3. ASSUME NEW t \in Readers, MeetConfig(t) PROVE TimeInv'
  <2>1. UNCHANGED <<truncated, mtime, clock, clash, settingsMtime>> /\ UNCHANGED <<mtime, Begun>>
        /\ stack'[t] = <<Call>> /\ \A u \in Readers \ {t} : stack'[u] = stack[u]
    BY <1>a, <1>3 DEF MeetConfig, fileVars, historyVars, Begun, TypeOK
  <2>2. \A i \in 1 .. Len(<<Call>>) : <<Call>>[i] = Call
    OBVIOUS
  <2>3. \A u \in Readers : \A i \in 1 .. Len(stack'[u]) : Timed(stack'[u][i], mtime, Begun)
    <3>1. \A i \in 1 .. Len(stack'[t]) : Timed(stack'[t][i], mtime, Begun)
      BY <1>a, <2>1, <2>2, CallTimed
    <3> QED
      BY <1>a, <2>1, <3>1 DEF AllTimed
  <2>4. AllTimed'
    BY <2>1, <2>3 DEF AllTimed, Timed
  <2> QED
    BY <1>1, <2>1, <2>4
<1>4. CASE Hook \/ UNCHANGED vars \/ \E f \in Files : AskFilter(f)
  <2>1. UNCHANGED <<truncated, mtime, clock, clash, settingsMtime, stack>>
    BY <1>4 DEF Hook, AskFilter, vars, fileVars, historyVars
  <2> QED
    BY <1>1, <1>a, <2>1 DEF AllTimed, Begun, Timed
<1>5. CASE Tick
  <2>1. UNCHANGED <<truncated, mtime, clash, settingsMtime, stack>> /\ clock' = clock + 1
    BY <1>5 DEF Tick, historyVars
  <2> QED
    BY <1>b, <2>1 DEF TimeInv, Begun, Timed
<1>6. \A u \in Readers : \A i \in 1 .. Len(stack[u]) : stack[u][i].stat.mtime \in Int
  BY <1>a, Bounds, Depth DEF Frames, Stats
<1>7. CASE BeginEdit
  <2>1. /\ truncated' = TRUE /\ mtime' = clock /\ UNCHANGED <<clock, settingsMtime, stack>>
        /\ clash' = (clock = mtime)
    BY <1>7 DEF BeginEdit
  <2>2. mtime <= clock /\ settingsMtime <= mtime
    BY DEF TimeInv
  <2>3. Begun' => mtime < clock
    <3>1. Begun' => clock # mtime
      BY <2>1, Zenon DEF Begun
    <3> QED
      BY <1>b, <2>2, <3>1
  <2>4. ASSUME NEW u \in Readers, NEW i \in 1 .. Len(stack[u]) PROVE Timed(stack[u][i], clock, Begun')
    <3>1. Timed(stack[u][i], mtime, Begun) /\ stack[u][i].stat.mtime \in Int
      BY <1>6, <1>a DEF AllTimed
    <3> QED
      BY <1>b, <2>2, <2>3, <3>1 DEF Timed
  <2>5. AllTimed'
    BY <2>1, <2>4 DEF AllTimed, Timed
  <2> QED
    BY <1>b, <2>1, <2>2, <2>3, <2>5 DEF TimeInv, AllTimed
<1>8. CASE EndEdit
  <2>1. /\ truncated' = FALSE /\ mtime' = clock /\ UNCHANGED <<clock, settingsMtime, stack>>
    BY <1>8 DEF EndEdit
  <2>2. mtime <= clock /\ settingsMtime <= mtime /\ ~Begun'
    BY <2>1 DEF TimeInv, Begun
  <2>4. ASSUME NEW u \in Readers, NEW i \in 1 .. Len(stack[u]) PROVE Timed(stack[u][i], clock, Begun')
    <3>1. Timed(stack[u][i], mtime, Begun) /\ stack[u][i].stat.mtime \in Int
      BY <1>6, <1>a DEF AllTimed
    <3> QED
      BY <1>b, <2>2, <3>1 DEF Timed
  <2>5. AllTimed'
    BY <2>1, <2>4 DEF AllTimed, Timed
  <2> QED
    BY <1>b, <2>1, <2>2, <2>5 DEF TimeInv, AllTimed
<1> QED
  BY <1>2, <1>3, <1>4, <1>5, <1>7, <1>8 DEF Next

-----------------------------------------------------------------------------
(* The lists and the file as it is.                                        *)

LEMMA CurrentThen ==
  ASSUME NEW stmts, stmts = Versions[version]'
  PROVE  Current' <=> \/ SomeAt({"open", "clear", "read"})' \/ Pushing(stmts)'
                      \/ Loaded(stmts)' /\ ~SomeAt({"push"})'
<1>1. Pushing(stmts)' <=> Pushing(Versions[version])'
  <2>1. ASSUME NEW t \in Readers
        PROVE  PushingFrom(t, stmts)' <=> PushingFrom(t, Versions[version])'
    BY DEF PushingFrom, PushedOf
  <2> QED
    BY <2>1 DEF Pushing
<1>2. Loaded(stmts)' <=> Loaded(Versions[version])'
  BY DEF Loaded
<1> QED
  BY <1>1, <1>2 DEF Current

(* Once the file is as it was when it is read, pushed or loaded, it stays. *)
LEMMA CurrentStep ==
  ASSUME IInv, LoadInv, Sound', NEW t \in Readers, ReadSettings(t),
         \/ Record(t) \/ Open(t) \/ Clear(t) \/ Read(t)
         \/ ~raced /\ Current
  PROVE  Current'
<1>a. TypeOK /\ ~raced' /\ ~openFailed'
  BY DEF IInv, Sound
<1>v. /\ UNCHANGED <<version, truncated>>
      /\ version \in 1 .. Len(Versions) /\ ~truncated
      /\ Content = Versions[version] /\ Versions[version] \in Texts
  <2>1. UNCHANGED <<version, truncated>>
    BY DEF ReadSettings, Guard, Enter, Stat, Decide, Record, Open, Clear, Read, Push, Leave, fileVars
  <2>2. version \in 1 .. Len(Versions) /\ ~truncated
    BY <1>a, <2>1, Bounds DEF Sound, TypeOK
  <2>3. version \in 1 .. version /\ version # 0
    BY <2>2, Bounds
  <2> QED
    BY <2>1, <2>2, <2>3 DEF Content, Texts
<1>1. \A P : P \cap {"open", "clear", "read"} # {} /\ P \subseteq {"open", "clear", "read"}
            /\ Outer(t, P)' => Current'
  BY DEF Outer, Current, SomeAt
<1>2. CASE Clear(t)
  <2>1. SomeAt({"open", "clear", "read"})'
    BY <1>2, <1>a, ClearAlone DEF SomeAt
  <2> QED
    BY <2>1 DEF Current
<1>r. ~Clear(t) => ~raced
  BY <1>a DEF ReadSettings, Guard, Enter, Stat, Decide, Record, Open, Read, Push, Leave, historyVars
<1>3. CASE Record(t)
  <2>1. At(t, "record") /\ Goto(t, "open") /\ ~raced
    BY <1>3, <1>a DEF Record, historyVars
  <2>2. /\ stack[t][1] \in Frames
        /\ stack'[t] # <<>> /\ stack'[t][1] = [stack[t][1] EXCEPT !.pc = "open"]
    BY <2>1, GotoOuter DEF Places
  <2>3. stack'[t][1].pc = "open"
    BY <2>2 DEF Frames
  <2>4. Outer(t, {"open"})'
    BY <2>2, <2>3 DEF Outer
  <2> QED
    BY <1>1, <2>4
<1>4. CASE Open(t)
  <2>1. At(t, "open") /\ Goto(t, "clear") /\ ~raced
    BY <1>4, <1>a DEF Open
  <2>2. /\ stack[t][1] \in Frames
        /\ stack'[t] # <<>> /\ stack'[t][1] = [stack[t][1] EXCEPT !.pc = "clear"]
    BY <2>1, GotoOuter DEF Places
  <2>3. stack'[t][1].pc = "clear"
    BY <2>2 DEF Frames
  <2>4. Outer(t, {"clear"})'
    BY <2>2, <2>3 DEF Outer
  <2> QED
    BY <1>1, <2>4
<1>5. CASE Read(t)
  <2>1. At(t, "read") /\ Content \in Seq(Statements) /\ ~raced
    BY <1>a, <1>5, <1>r, Contents DEF Read, historyVars
  <2>2. /\ Outer(t, {"read"}) /\ Outer(t, {"push"})' /\ stack'[t][1].rest = Content
        /\ \A u \in Readers \ {t} : stack'[u] = stack[u]
    <3>1. stack' = [stack EXCEPT ![t] = [stack[t] EXCEPT ![Len(stack[t])] =
                                          [Top(t) EXCEPT !.pc = "push", !.rest = Content]]]
      BY <1>5 DEF Read, Top
    <3> QED
      BY <2>1, <3>1, ReadOuter
  <2>3. SomeAt({"read"})
    BY <2>2 DEF Outer, SomeAt
  <2>4. filterExpr' = <<>> /\ filterExcpExpr' = <<>>
    BY <1>5, <2>1, <2>3 DEF LoadInv, Read, ruleVars
  <2>5. PICK stmts : stmts = Content
    OBVIOUS
  <2>6. PushingFrom(t, stmts)'
    BY <2>1, <2>2, <2>4, <2>5, ReadStmts
  <2>7. stmts = Versions[version]'
    BY <1>v, <2>5
  <2>8. Pushing(stmts)'
    BY <2>6 DEF Pushing
  <2> QED
    BY <2>7, <2>8, CurrentThen
<1>6. CASE Push(t) /\ ~raced /\ Current
  <2>1. /\ Outer(t, {"push"}) /\ Past(t) /\ \A u \in Readers \ {t} : stack'[u] = stack[u]
    BY <1>6, PushOuter
  <2>2. /\ SomeAt({"push"}) /\ ~SomeAt({"open", "clear", "read"})
        /\ SomeAt({"push"})' <=> Outer(t, {"push"})'
    <3>1. ~Outer(t, {"open", "clear", "read"})
      BY <2>1 DEF Outer
    <3> QED
      BY <1>6, <2>1, <3>1, Sole
  <2>3. PICK stmts : stmts = Versions[version]
    OBVIOUS
  <2>4. Pushing(stmts)
    BY <1>6, <2>2, <2>3 DEF Current
  <2>5. PushingFrom(t, stmts)
    BY <1>6, <2>1, <2>4, Sole
  <2>6. /\ Outer(t, {"push"})' => PushingFrom(t, stmts)'
        /\ ~Outer(t, {"push"})' => Loaded(stmts)'
    BY <1>6, <1>v, <2>3, <2>5, PushStmts
  <2>7. stmts = Versions[version]'
    BY <1>v, <2>3
  <2>8. CASE Outer(t, {"push"})'
    <3>1. Pushing(stmts)'
      BY <2>6, <2>8 DEF Pushing
    <3> QED
      BY <2>7, <3>1, CurrentThen
  <2>9. CASE ~Outer(t, {"push"})'
    <3>1. Loaded(stmts)' /\ ~SomeAt({"push"})'
      BY <2>2, <2>6, <2>9
    <3> QED
      BY <2>7, <3>1, CurrentThen
  <2> QED
    BY <2>8, <2>9
<1>7. ASSUME Current, ~raced, \/ Guard(t) \/ Enter(t) \/ Stat(t) \/ Decide(t) \/ Leave(t)
      PROVE  Current'
  <2>1. Aside(t) /\ UNCHANGED ruleVars
    BY <1>7, <1>a, AsideSteps DEF Aside
  <2>2. ~Outer(t, {"push"}) /\ ~Outer(t, {"push"})'
    BY <2>1 DEF Aside, Outer
  <2>3. /\ SomeAt({"push"})' <=> SomeAt({"push"})
        /\ \A stmts : Pushing(stmts)' <=> Pushing(stmts)
    BY <2>1, <2>2, Elsewhere DEF Aside
  <2>4. SomeAt({"open", "clear", "read"}) => SomeAt({"open", "clear", "read"})'
    <3>1. ~Outer(t, {"open", "clear", "read"})
      BY <1>7, OuterPlaces
    <3> QED
      BY <2>1, <3>1 DEF Aside, Outer, SomeAt
  <2>5. PICK stmts : stmts = Versions[version]
    OBVIOUS
  <2>6. stmts = Versions[version]'
    BY <1>v, <2>5
  <2>7. \/ SomeAt({"open", "clear", "read"})' \/ Pushing(stmts)'
        \/ Loaded(stmts)' /\ ~SomeAt({"push"})'
    BY <1>7, <2>1, <2>3, <2>4, <2>5 DEF Current, Loaded, ruleVars
  <2> QED
    BY <2>6, <2>7, CurrentThen
<1> QED
  BY <1>2, <1>3, <1>4, <1>5, <1>6, <1>7, <1>r DEF ReadSettings

(* Only an edit, a notification or a reader changes what is told.          *)
LEMMA CurrentStays ==
  ASSUME UNCHANGED <<stack, ruleVars, version>>
  PROVE  /\ Current' <=> Current
         /\ \A P : SomeAt(P)' <=> SomeAt(P)
<1>1. filterExpr' = filterExpr /\ filterExcpExpr' = filterExcpExpr /\ stack' = stack
      /\ version' = version
  BY DEF ruleVars
<1>2. \A P : SomeAt(P)' <=> SomeAt(P)
  BY <1>1, Zenon DEF SomeAt
<1>3. PICK stmts : stmts = Versions[version]
  OBVIOUS
<1>4. stmts = Versions[version]'
  BY <1>1, <1>3
<1>5. Pushing(stmts)' <=> Pushing(stmts)
  <2>1. ASSUME NEW t \in Readers PROVE PushingFrom(t, stmts)' <=> PushingFrom(t, stmts)
    <3>1. stack'[t] = stack[t]
      BY <1>1
    <3> QED
      BY <1>1, <3>1, Zenon DEF PushingFrom, PushedOf
  <2> QED
    BY <2>1 DEF Pushing
<1>6. Loaded(stmts)' <=> Loaded(stmts)
  BY <1>1, Zenon DEF Loaded
<1>7. Current <=> SomeAt({"open", "clear", "read"}) \/ Pushing(stmts) \/ (Loaded(stmts) /\ ~SomeAt({"push"}))
  BY <1>3 DEF Current
<1>8. Current' <=> \/ SomeAt({"open", "clear", "read"})' \/ Pushing(stmts)'
                   \/ Loaded(stmts)' /\ ~SomeAt({"push"})'
  BY <1>4, CurrentThen
<1> QED
  BY <1>2, <1>5, <1>6, <1>7, <1>8

(* A reader that comes to the guard changes nothing either.                *)
LEMMA CurrentMet ==
  ASSUME TypeOK, NEW t \in Readers, MeetConfig(t), Current
  PROVE  Current'
<1>1. /\ filterExpr' = filterExpr /\ filterExcpExpr' = filterExcpExpr /\ UNCHANGED ruleVars
      /\ version' = version
      /\ stack'[t] = <<Call>> /\ stack[t] = <<>> /\ \A u \in Readers \ {t} : stack'[u] = stack[u]
  BY DEF MeetConfig, TypeOK, ruleVars, fileVars
<1>2. stack'[t][1].pc = "guard"
  BY <1>1, CallFrame
<1>3. /\ ~Outer(t, {"push"}) /\ ~Outer(t, {"push"})'
      /\ ~Outer(t, {"open", "clear", "read"}) /\ ~Outer(t, {"open", "clear", "read"})'
  BY <1>1, <1>2 DEF Outer
<1>4. /\ SomeAt({"push"})' <=> SomeAt({"push"})
      /\ SomeAt({"open", "clear", "read"})' <=> SomeAt({"open", "clear", "read"})
      /\ \A stmts : Pushing(stmts)' <=> Pushing(stmts)
  BY <1>1, <1>3, Elsewhere
<1>5. PICK stmts : stmts = Versions[version]
  OBVIOUS
<1>6. stmts = Versions[version]'
  BY <1>1, <1>5
<1>7. \/ SomeAt({"open", "clear", "read"})' \/ Pushing(stmts)'
      \/ Loaded(stmts)' /\ ~SomeAt({"push"})'
  BY <1>1, <1>4, <1>5 DEF Current, Loaded
<1> QED
  BY <1>6, <1>7, CurrentThen

(* Only a reader that clears the lists mends a race.                       *)
LEMMA RacedStays ==
  ASSUME NEW t \in Readers, ReadSettings(t), ~Clear(t), raced
  PROVE  raced'
<1>1. raced' = raced \/ raced' = (raced \/ ~Alone(t))
  BY DEF ReadSettings, Guard, Enter, Stat, Decide, Record, Open, Read, Push, Leave, historyVars
<1> QED
  BY <1>1, Zenon

LEMMA RecordedStep == IInv /\ LoadInv /\ TimeInv /\ RecordedInv /\ [Next]_vars => RecordedInv'
<1> SUFFICES ASSUME IInv, LoadInv, TimeInv, RecordedInv, [Next]_vars, Sound',
                    settingsMtime' = mtime'
             PROVE  Current'
  BY DEF RecordedInv
<1>a. TypeOK
  BY DEF IInv
<1>1. ASSUME NEW t \in Readers, ReadSettings(t) PROVE Current'
  <2>1. CASE \/ Record(t) \/ Open(t) \/ Clear(t) \/ Read(t)
    BY <1>1, <2>1, CurrentStep
  <2>2. CASE ~Record(t) /\ ~Open(t) /\ ~Clear(t) /\ ~Read(t)
    <3>1. /\ UNCHANGED <<version, truncated, mtime, settingsMtime, openFailed, clash>>
      BY <1>1, <2>2 DEF ReadSettings, Guard, Enter, Stat, Decide, Push, Leave, fileVars, historyVars
    <3>r. raced => raced'
      BY <1>1, <2>2, RacedStays
    <3>2. Sound /\ settingsMtime = mtime
      BY <3>1, <3>r, Zenon DEF Sound
    <3>3. Current /\ ~raced
      BY <3>2 DEF RecordedInv, Sound
    <3> QED
      BY <1>1, <3>3, CurrentStep
  <2> QED
    BY <2>1, <2>2
<1>2. ASSUME NEW t \in Readers, MeetConfig(t) PROVE Current'
  <2>1. UNCHANGED <<version, truncated, mtime, settingsMtime, openFailed, clash, raced>>
    BY <1>2 DEF MeetConfig, fileVars, historyVars
  <2>2. Sound /\ settingsMtime = mtime
    BY <2>1 DEF Sound
  <2> QED
    BY <1>a, <1>2, <2>2, CurrentMet DEF RecordedInv
<1>3. CASE Tick \/ Hook \/ UNCHANGED vars \/ \E f \in Files : AskFilter(f)
  <2>1. /\ UNCHANGED <<version, truncated, mtime, settingsMtime, openFailed, clash, raced>>
        /\ UNCHANGED <<stack, ruleVars, version>>
    BY <1>3 DEF Tick, Hook, AskFilter, vars, fileVars, ruleVars, historyVars
  <2>2. Sound /\ settingsMtime = mtime
    BY <2>1 DEF Sound
  <2> QED
    BY <2>1, <2>2, CurrentStays DEF RecordedInv
<1>4. CASE BeginEdit
  BY <1>4 DEF BeginEdit, Sound
<1>5. CASE EndEdit
  <2>1. /\ truncated /\ mtime' = clock /\ UNCHANGED <<settingsMtime, clash>>
    BY <1>5 DEF EndEdit, historyVars
  <2>2. Begun
    BY <2>1 DEF Begun, Sound
  <2>3. settingsMtime < mtime /\ mtime <= clock
    BY <2>2 DEF TimeInv
  <2> QED
    BY <1>a, <2>1, <2>3, Bounds DEF TypeOK
<1> QED
  BY <1>1, <1>2, <1>3, <1>4, <1>5 DEF Next

LEMMA ToldStep == IInv /\ LoadInv /\ RecordedInv /\ ToldInv /\ [Next]_vars => ToldInv'
<1> DEFINE early == {"guard", "enter", "stat", "record"}
           Told == notify \/ SomeAt(early) \/ Current \/ \E t \in Readers : Fresh(t)
<1> SUFFICES ASSUME IInv, LoadInv, RecordedInv, ToldInv, [Next]_vars, Sound', ~turnedAway'
             PROVE  Told'
  BY DEF ToldInv
<1>a. TypeOK /\ (Sound /\ ~turnedAway => Told) /\ ~raced'
  BY DEF IInv, ToldInv, Sound
<1> HIDE DEF early
<1>1. ASSUME NEW t \in Readers, ReadSettings(t) PROVE Told'
  <2>1. CASE \/ Record(t) \/ Open(t) \/ Clear(t) \/ Read(t)
    BY <1>1, <2>1, CurrentStep
  <2>2. ASSUME ~Record(t), ~Open(t), ~Clear(t), ~Read(t), ~Stat(t) PROVE Told'
    <3>1. /\ UNCHANGED <<version, truncated, mtime, notify, settingsMtime, openFailed, clash>>
          /\ \/ Guard(t) \/ Enter(t) \/ Decide(t) \/ Push(t) \/ Leave(t)
      BY <1>1, <2>2 DEF ReadSettings, Guard, Enter, Decide, Push, Leave, fileVars, historyVars
    <3>r. raced => raced'
      BY <1>1, <2>2, RacedStays
    <3>t. turnedAway => turnedAway'
      <4>1. turnedAway' = turnedAway \/ turnedAway' = (turnedAway \/ (inside /\ Len(stack[t]) = 1))
        BY <3>1 DEF Guard, Enter, Decide, Push, Leave, historyVars
      <4> QED
        BY <4>1, Zenon
    <3>2. Sound /\ ~turnedAway /\ ~raced
      BY <1>a, <3>1, <3>r, <3>t, Zenon DEF Sound
    <3>3. Told
      BY <1>a, <3>2
    <3>4. Current => Current'
      BY <1>1, <3>2, CurrentStep
    <3>5. /\ \A u \in Readers \ {t} : stack'[u] = stack[u]
          /\ Outer(t, early) \/ Fresh(t) => Outer(t, early)' \/ Fresh(t)' \/ Current'
      <4>1. CASE Guard(t)
        <5>1. /\ \A u \in Readers \ {t} : stack'[u] = stack[u]
              /\ \/ Outer(t, {"enter"})'
                 \/ Outer(t, {"decide"}) /\ stack'[t] # <<>> /\ stack'[t][1] = stack[t][1]
          BY <3>2, <4>1, GuardOuter
        <5>2. Outer(t, {"decide"}) => ~Outer(t, early)
          BY DEF Outer, early
        <5>3. Outer(t, {"enter"})' => Outer(t, early)'
          BY DEF Outer, early
        <5>4. stack'[t] # <<>> /\ stack'[t][1] = stack[t][1] => (Fresh(t) => Fresh(t)')
          BY <3>1 DEF Fresh
        <5> QED
          BY <5>1, <5>2, <5>3, <5>4
      <4>2. CASE Enter(t)
        <5>1. At(t, "enter") /\ Goto(t, "stat")
          BY <4>2 DEF Enter
        <5>2. /\ stack'[t] # <<>> /\ stack'[t][1] = [stack[t][1] EXCEPT !.pc = "stat"]
              /\ stack[t][1] \in Frames /\ \A u \in Readers \ {t} : stack'[u] = stack[u]
          BY <3>2, <5>1, GotoOuter DEF Places
        <5>3. stack'[t][1].pc = "stat"
          BY <5>2 DEF Frames
        <5> QED
          BY <5>2, <5>3 DEF Outer, early
      <4>3. CASE Decide(t)
        <5>1. At(t, "decide") /\ (Goto(t, "leave") \/ Goto(t, "record"))
              /\ (Goto(t, "record") \/ ~Top(t).stat.exists \/ Top(t).stat.empty
                     \/ Top(t).stat.mtime = settingsMtime)
          BY <4>3 DEF Decide
        <5>2. ASSUME NEW to \in {"leave", "record"}, Goto(t, to)
              PROVE  /\ stack[t] # <<>> /\ stack[t][1].pc = "decide" /\ Top(t) = stack[t][1]
                     /\ stack'[t] # <<>> /\ stack'[t][1] = [stack[t][1] EXCEPT !.pc = to]
                     /\ stack[t][1] \in Frames /\ \A u \in Readers \ {t} : stack'[u] = stack[u]
          BY <3>2, <5>1, <5>2, GotoOuter DEF Places
        <5>3. /\ stack[t][1].pc = "decide" /\ Top(t) = stack[t][1]
              /\ \A u \in Readers \ {t} : stack'[u] = stack[u]
          BY <5>1, <5>2
        <5>4. ~Outer(t, early)
          BY <5>3 DEF Outer, early
        <5>5. CASE Goto(t, "record")
          <6>1. /\ stack'[t] # <<>> /\ stack'[t][1] = [stack[t][1] EXCEPT !.pc = "record"]
                /\ stack[t][1] \in Frames
            BY <5>2, <5>5
          <6>2. stack'[t][1].pc = "record"
            BY <6>1 DEF Frames
          <6>3. Outer(t, early)'
            BY <6>1, <6>2 DEF Outer, early
          <6> QED
            BY <5>3, <6>3
        <5>6. ASSUME ~Goto(t, "record"), Fresh(t) PROVE Current'
          <6>1. settingsMtime = mtime
            BY <5>1, <5>3, <5>6 DEF Fresh
          <6> QED
            BY <3>2, <3>4, <6>1 DEF RecordedInv
        <5> QED
          BY <5>3, <5>4, <5>5, <5>6
      <4>4. CASE Push(t)
        <5>1. Outer(t, {"push"}) /\ \A u \in Readers \ {t} : stack'[u] = stack[u]
          BY <3>2, <4>4, PushOuter
        <5> QED
          BY <5>1 DEF Outer, Fresh, early
      <4>5. CASE Leave(t)
        <5>1. Outer(t, {"leave"}) /\ \A u \in Readers \ {t} : stack'[u] = stack[u]
          BY <3>2, <4>5, LeaveOuter
        <5> QED
          BY <5>1 DEF Outer, Fresh, early
      <4> QED
        BY <3>1, <4>1, <4>2, <4>3, <4>4, <4>5
    <3>6. SomeAt(early) => SomeAt(early)' \/ Outer(t, early)
      BY <3>5 DEF SomeAt, Outer
    <3>7. Outer(t, early)' => SomeAt(early)'
      BY DEF SomeAt, Outer
    <3>8. (\E u \in Readers : Fresh(u)) => (\E u \in Readers : Fresh(u)') \/ Fresh(t)
      BY <3>1, <3>5 DEF Fresh
    <3> QED
      BY <3>1, <3>3, <3>4, <3>5, <3>6, <3>7, <3>8
  <2>3. CASE Stat(t)
    <3>1. UNCHANGED <<version, truncated, mtime, openFailed, clash, raced>>
      BY <2>3 DEF Stat, fileVars
    <3>2. Sound /\ ~raced
      BY <1>a, <3>1 DEF Sound
    <3>3. /\ Outer(t, {"decide"})'
          /\ stack'[t][1].stat = [exists |-> version > 0 \/ truncated, empty |-> truncated, mtime |-> mtime]
      BY <2>3, <3>2, StatOuter
    <3>4. version > 0 /\ ~truncated
      BY <3>2 DEF Sound
    <3>5. /\ stack'[t][1].stat.exists /\ ~stack'[t][1].stat.empty
          /\ stack'[t][1].stat.mtime = mtime
      <4>1. (version > 0 \/ truncated) = TRUE /\ truncated = FALSE
        BY <1>a, <3>4 DEF TypeOK
      <4>2. stack'[t][1].stat = [exists |-> TRUE, empty |-> FALSE, mtime |-> mtime]
        BY <3>3, <4>1, Zenon
      <4> QED
        BY <4>2
    <3>6. Fresh(t)'
      BY <3>1, <3>3, <3>4, <3>5 DEF Fresh, Outer
    <3> QED
      BY <3>6
  <2> QED
    BY <2>1, <2>2, <2>3
<1>2. ASSUME NEW t \in Readers, MeetConfig(t) PROVE Told'
  <2>1. stack'[t] = <<Call>>
    BY <1>a, <1>2 DEF MeetConfig, TypeOK
  <2>2. stack'[t] # <<>> /\ stack'[t][1].pc = "guard"
    BY <2>1, CallFrame
  <2>3. SomeAt(early)'
    BY <2>2 DEF SomeAt, early
  <2> QED
    BY <2>3
<1>3. CASE Tick \/ Hook \/ UNCHANGED vars \/ \E f \in Files : AskFilter(f)
  <2>1. /\ UNCHANGED <<version, truncated, mtime, notify, openFailed, clash, raced, turnedAway>>
        /\ UNCHANGED <<stack, ruleVars, version>> /\ UNCHANGED <<stack, mtime>>
    BY <1>3 DEF Tick, Hook, AskFilter, vars, fileVars, ruleVars, historyVars
  <2>2. Told
    BY <1>a, <2>1 DEF Sound
  <2>3. (Current' <=> Current) /\ (SomeAt(early)' <=> SomeAt(early))
    BY <2>1, CurrentStays
  <2>4. \A u \in Readers : Fresh(u)' <=> Fresh(u)
    BY <2>1 DEF Fresh
  <2> QED
    BY <2>1, <2>2, <2>3, <2>4
<1>4. CASE BeginEdit
  BY <1>4 DEF BeginEdit, Sound
<1>5. CASE EndEdit
  BY <1>5 DEF EndEdit
<1> QED
  BY <1>1, <1>2, <1>3, <1>4, <1>5 DEF Next

LEMMA ContentInit == Init => ContentInv
<1> SUFFICES ASSUME Init PROVE ContentInv
  OBVIOUS
<1>1. \A t \in Readers : stack[t] = <<>> \/ stack[t] = <<Call>>
  BY DEF Init
<1>2. <<Call>>[1] = Call /\ Call.pc = "guard" /\ Len(<<Call>>) = 1 /\ <<Call>> # <<>>
  BY CallFrame
<1>3. ~SomeAt({"read"}) /\ ~SomeAt({"push"}) /\ ~SomeAt({"read", "push"})
  BY <1>1, <1>2 DEF SomeAt
<1>4. LoadInv
  <2>1. <<>> \in Texts /\ Loaded(<<>>)
    BY EmptyLoaded DEF Texts, Init
  <2> QED
    BY <1>3, <2>1 DEF LoadInv
<1>5. TypeOK /\ ~truncated /\ ~Begun /\ version \in {0, 1} /\ mtime = version /\ clock = 1 /\ settingsMtime = 0
  BY TypeInit DEF Init, Begun
<1>6. TimeInv
  <2>1. Timed(Call, mtime, Begun)
    BY <1>5, CallTimed
  <2>2. ASSUME NEW t \in Readers, NEW i \in 1 .. Len(stack[t]) PROVE stack[t][i] = Call
    <3>1. stack[t] = <<Call>>
      BY <1>1, <2>2
    <3> QED
      BY <3>1
  <2> QED
    BY <1>5, <2>1, <2>2 DEF TimeInv
<1>7. RecordedInv
  BY <1>5 DEF RecordedInv, Sound
<1>8. ToldInv
  <2>1. Loader \in Readers /\ stack[Loader] = <<Call>>
    BY LoaderAssumption DEF Init
  <2>2. SomeAt({"guard", "enter", "stat", "record"})
    BY <1>2, <2>1 DEF SomeAt
  <2> QED
    BY <2>2 DEF ToldInv
<1> QED
  BY <1>4, <1>6, <1>7, <1>8 DEF ContentInv

LEMMA ContentInvariance == Spec => [](IInv /\ ContentInv)
<1>1. IInv /\ ContentInv /\ [Next]_vars => ContentInv'
  BY LoadStep, TimeStep, RecordedStep, ToldStep DEF ContentInv
<1>2. Init => ContentInv
  BY ContentInit
<1> QED
  BY <1>1, <1>2, Invariance, PTL DEF Spec

(* Between two reloads the lists hold one version of the file, whole and   *)
(* in order, or nothing.                                                   *)
THEOREM OneVersion == Spec => []WholeVersion
<1>1. ASSUME ContentInv, Idle, ~raced
      PROVE  Loaded(<<>>) \/ \E v \in 1 .. version : Loaded(Versions[v])
  <2>1. ~SomeAt({"read", "push"})
    BY <1>1 DEF Idle, SomeAt
  <2>2. PICK stmts \in Texts : Loaded(stmts)
    BY <1>1, <2>1 DEF ContentInv, LoadInv
  <2> QED
    BY <2>2 DEF Texts
<1>2. IInv /\ ContentInv => WholeVersion
  BY <1>1 DEF WholeVersion
<1> QED
  BY <1>2, ContentInvariance, PTL

(* No edit is lost: once every change is reported and read, the lists are  *)
(* those of the file as it is, but for what UpToDate excepts.              *)
THEOREM NoEditLost == Spec => []UpToDate
<1>1. ASSUME ContentInv, Quiet, Sound, ~turnedAway PROVE Loaded(Versions[version])
  <2>1. ~notify /\ \A t \in Readers : stack[t] = <<>>
    BY <1>1 DEF Quiet, Idle
  <2>2. \A P : ~SomeAt(P)
    BY <2>1 DEF SomeAt
  <2>3. \A t \in Readers : ~Fresh(t)
    BY <2>1 DEF Fresh
  <2>4. Current
    BY <1>1, <2>1, <2>2, <2>3 DEF ContentInv, ToldInv
  <2>5. ~Pushing(Versions[version])
    BY <2>1 DEF Pushing, PushingFrom
  <2> QED
    BY <2>2, <2>4, <2>5 DEF Current
<1>2. IInv /\ ContentInv => UpToDate
  BY <1>1 DEF UpToDate, Sound
<1> QED
  BY <1>2, ContentInvariance, PTL

=============================================================================
