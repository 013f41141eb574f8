--------------------------- MODULE SettingsReload ---------------------------
(***************************************************************************)
(* ReadSettings and Filter of Inject/Inject.cpp: how the rules of          *)
(* DropboxFilter.cfg get into filterExpr and filterExcpExpr while the user *)
(* edits the file and other threads ask Filter about other files.          *)
(*                                                                         *)
(* ReadSettings is called by Init before the hooks are there, and later by *)
(* any thread whose hook meets the configuration file.  It is re-entered   *)
(* by itself: _wstat64 calls FindFirstFileExW, whose hook meets the        *)
(* configuration file.  So a thread has a stack of calls.                  *)
(*                                                                         *)
(* filterExprMutex is held for one clear, one push or one decision at a    *)
(* time; each of these is one atomic action.  The flag inside and          *)
(* settingsMtime are read and written without it, in actions of their own. *)
(* A rule is the set of files it applies to (its mask and its attributes). *)
(***************************************************************************)
EXTENDS Integers, Sequences

CONSTANTS
  Readers,    \* the threads whose hooks meet DropboxFilter.cfg
  Loader,     \* the one of them that loads the DLL and runs Init
  Files,      \* the other files of the Dropbox directory
  Versions,   \* what the user writes to DropboxFilter.cfg, edit by edit
  MaxClock,   \* bound on the seconds that pass
  MaxDepth    \* bound on the calls of ReadSettings on one stack

ASSUME LoaderAssumption == Loader \in Readers
ASSUME VersionsAssumption ==
  Versions \in Seq(Seq([exception : BOOLEAN, files : SUBSET Files]))
ASSUME BoundsAssumption == MaxClock \in Nat \ {0} /\ MaxDepth \in Nat /\ MaxDepth >= 2

VARIABLES
  version,        \* number of edits that are written; 0: there is no file yet
  truncated,      \* an edit has begun: the file is there and has no content
  mtime,          \* the file's modification time in seconds
  clock,          \* the time in seconds
  notify,         \* a change that ReadDirectoryChangesW has not reported yet
  hooked,         \* Init is done and the hooks are installed
  inside,         \* the static variable of ReadSettings
  settingsMtime,
  filterExpr,
  filterExcpExpr,
  stack,          \* per reader: its calls of ReadSettings, the outermost first
  everFiltered,   \* history: the files that Filter has ever said to filter
  openFailed,     \* history: the last _wfopen failed
  clash,          \* history: the last two edits have one modification time
  turnedAway,     \* history: the guard has turned a reader away since the last _wstat64
  raced           \* history: two readers were past the guard at once, and none has
                  \* cleared the lists alone since

fileVars    == <<version, truncated, mtime, clock>>
ruleVars    == <<filterExpr, filterExcpExpr>>
historyVars == <<everFiltered, openFailed, clash, turnedAway, raced>>
vars == <<version, truncated, mtime, clock, notify, hooked, inside, settingsMtime,
          filterExpr, filterExcpExpr, stack, everFiltered, openFailed, clash,
          turnedAway, raced>>

-----------------------------------------------------------------------------
(* Types.                                                                  *)

Rules == SUBSET Files

Statements == [exception : BOOLEAN, files : Rules]

Places == {"guard", "enter", "stat", "decide", "record", "open", "clear",
           "read", "push", "leave"}

Stats == [exists : BOOLEAN, empty : BOOLEAN, mtime : 0 .. MaxClock]

Frames == [pc : Places, stat : Stats, rest : Seq(Statements)]

TypeOK ==
  /\ version \in 0 .. Len(Versions) /\ truncated \in BOOLEAN
  /\ mtime \in 0 .. MaxClock /\ clock \in 1 .. MaxClock
  /\ notify \in BOOLEAN /\ hooked \in BOOLEAN
  /\ inside \in BOOLEAN /\ settingsMtime \in 0 .. MaxClock
  /\ filterExpr \in Seq(Rules) /\ filterExcpExpr \in Seq(Rules)
  /\ stack \in [Readers -> Seq(Frames)]
  /\ \A t \in Readers : Len(stack[t]) <= MaxDepth
  /\ everFiltered \in Rules
  /\ openFailed \in BOOLEAN /\ clash \in BOOLEAN
  /\ turnedAway \in BOOLEAN /\ raced \in BOOLEAN

NoStat == [exists |-> FALSE, empty |-> FALSE, mtime |-> 0]

Call == [pc |-> "guard", stat |-> NoStat, rest |-> <<>>]

(* Static storage is zero.  The file may be there before Dropbox starts.   *)
(* The loader is in Init, about to call ReadSettings.                      *)
Init ==
  /\ version \in {0, 1} /\ version <= Len(Versions)
  /\ truncated = FALSE
  /\ mtime = version /\ clock = 1
  /\ notify = FALSE
  /\ hooked = FALSE
  /\ inside = FALSE /\ settingsMtime = 0
  /\ filterExpr = <<>> /\ filterExcpExpr = <<>>
  /\ stack = [t \in Readers |-> IF t = Loader THEN <<Call>> ELSE <<>>]
  /\ everFiltered = {}
  /\ openFailed = FALSE /\ clash = FALSE
  /\ turnedAway = FALSE /\ raced = FALSE

-----------------------------------------------------------------------------
(* The user and the clock.                                                 *)

Content == IF version = 0 \/ truncated THEN <<>> ELSE Versions[version]

Tick ==
  /\ clock < MaxClock
  /\ clock' = clock + 1
  /\ UNCHANGED <<version, truncated, mtime, notify, hooked, inside, settingsMtime,
                 ruleVars, stack, historyVars>>

(* An editor creates the file or empties it, and writes it in a second     *)
(* step.                                                                   *)
BeginEdit ==
  /\ ~truncated /\ version < Len(Versions)
  /\ truncated' = TRUE
  /\ mtime' = clock
  /\ notify' = TRUE
  /\ clash' = (clock = mtime)
  /\ UNCHANGED <<version, clock, hooked, inside, settingsMtime, ruleVars, stack,
                 everFiltered, openFailed, turnedAway, raced>>

EndEdit ==
  /\ truncated
  /\ truncated' = FALSE
  /\ version' = version + 1
  /\ mtime' = clock
  /\ notify' = TRUE
  /\ UNCHANGED <<clock, hooked, inside, settingsMtime, ruleVars, stack, historyVars>>

-----------------------------------------------------------------------------
(* ReadSettings, run by reader t.                                          *)

Top(t) == stack[t][Len(stack[t])]

At(t, place) == stack[t] # <<>> /\ Top(t).pc = place

Goto(t, place) == stack' = [stack EXCEPT ![t][Len(stack[t])].pc = place]

Return(t) == stack' = [stack EXCEPT ![t] = SubSeq(@, 1, Len(@) - 1)]

(* Mutant: no guard against a call inside a call.                          *)
GuardDropped(t) ==
  /\ At(t, "guard")
  /\ Goto(t, "enter")
  /\ UNCHANGED <<fileVars, notify, hooked, inside, settingsMtime, ruleVars, historyVars>>

(* if(inside) return; for the call that _wstat64 makes, or for one that    *)
(* was to read a change another reader may be too far to see.              *)
Guard(t) ==
  /\ At(t, "guard")
  /\ IF inside THEN Return(t) ELSE Goto(t, "enter")
  /\ turnedAway' = (turnedAway \/ (inside /\ Len(stack[t]) = 1))
  /\ UNCHANGED <<fileVars, notify, hooked, inside, settingsMtime, ruleVars, everFiltered,
                 openFailed, clash, raced>>

(* No other reader is past the guard.                                      *)
Alone(t) ==
  \A u \in Readers \ {t} : stack[u] = <<>> \/ stack[u][1].pc \in {"guard", "enter"}

(* inside = true, a store that is not one step with the test.              *)
Enter(t) ==
  /\ At(t, "enter")
  /\ inside' = TRUE
  /\ raced' = (raced \/ ~Alone(t))
  /\ Goto(t, "stat")
  /\ UNCHANGED <<fileVars, notify, hooked, settingsMtime, ruleVars, everFiltered,
                 openFailed, clash, turnedAway>>

(* _wstat64 reads the file's directory entry with FindFirstFileExW.  When  *)
(* that is hooked and finds the file, the hook calls Filter and with it    *)
(* ReadSettings before _wstat64 returns what it has read.                  *)
Stat(t) ==
  LET st == [exists |-> version > 0 \/ truncated, empty |-> truncated, mtime |-> mtime]
      read == [Top(t) EXCEPT !.pc = "decide", !.stat = st]
      called == SubSeq(stack[t], 1, Len(stack[t]) - 1) \o <<read>> IN
  /\ At(t, "stat")
  /\ stack' = [stack EXCEPT ![t] =
                 IF hooked /\ st.exists /\ Len(called) < MaxDepth
                   THEN Append(called, Call) ELSE called]
  /\ turnedAway' = FALSE
  /\ UNCHANGED <<fileVars, notify, hooked, inside, settingsMtime, ruleVars,
                 everFiltered, openFailed, clash, raced>>

(* Mutants: an exit that leaves inside set; the time of an empty file is   *)
(* recorded.                                                               *)
DecideLeaksInside(t) ==
  /\ At(t, "decide")
  /\ IF ~Top(t).stat.exists \/ Top(t).stat.empty THEN Goto(t, "leave")
     ELSE IF Top(t).stat.mtime = settingsMtime THEN Return(t)
     ELSE Goto(t, "record")
  /\ UNCHANGED <<fileVars, notify, hooked, inside, settingsMtime, ruleVars, historyVars>>

DecideRecordsEmpty(t) ==
  /\ At(t, "decide")
  /\ IF ~Top(t).stat.exists \/ Top(t).stat.mtime = settingsMtime
       THEN Goto(t, "leave") /\ UNCHANGED settingsMtime
     ELSE IF Top(t).stat.empty
       THEN Goto(t, "leave") /\ settingsMtime' = Top(t).stat.mtime
     ELSE Goto(t, "record") /\ UNCHANGED settingsMtime
  /\ UNCHANGED <<fileVars, notify, hooked, inside, ruleVars, historyVars>>

(* Nothing to read: no file, an empty file, or the time it was read at.    *)
Decide(t) ==
  LET st == Top(t).stat IN
  /\ At(t, "decide")
  /\ IF ~st.exists \/ st.empty \/ st.mtime = settingsMtime
       THEN Goto(t, "leave") ELSE Goto(t, "record")
  /\ UNCHANGED <<fileVars, notify, hooked, inside, settingsMtime, ruleVars, historyVars>>

Record(t) ==
  /\ At(t, "record")
  /\ settingsMtime' = Top(t).stat.mtime
  /\ Goto(t, "open")
  /\ UNCHANGED <<fileVars, notify, hooked, inside, ruleVars, historyVars>>

(* _wfopen fails while an editor keeps the file to itself.                 *)
Open(t) ==
  /\ At(t, "open")
  /\ \/ openFailed' = FALSE /\ Goto(t, "clear")
     \/ openFailed' = TRUE /\ Goto(t, "leave")
  /\ UNCHANGED <<fileVars, notify, hooked, inside, settingsMtime, ruleVars,
                 everFiltered, clash, turnedAway, raced>>

(* Mutant: the exceptions of the last version stay.                        *)
ClearRulesOnly(t) ==
  /\ At(t, "clear")
  /\ filterExpr' = <<>>
  /\ Goto(t, "read")
  /\ UNCHANGED <<fileVars, notify, hooked, inside, settingsMtime, filterExcpExpr, historyVars>>

Clear(t) ==
  /\ At(t, "clear")
  /\ filterExpr' = <<>>
  /\ filterExcpExpr' = <<>>
  /\ raced' = (~Alone(t) \/ Len(stack[t]) > 1)
  /\ Goto(t, "read")
  /\ UNCHANGED <<fileVars, notify, hooked, inside, settingsMtime, everFiltered, openFailed,
                 clash, turnedAway>>

(* The first fgetws fills the stream's buffer, which holds the whole file. *)
Read(t) ==
  /\ At(t, "read")
  /\ stack' = [stack EXCEPT ![t][Len(stack[t])] = [@ EXCEPT !.pc = "push", !.rest = Content]]
  /\ UNCHANGED <<fileVars, notify, hooked, inside, settingsMtime, ruleVars, historyVars>>

(* Mutant: an exception is taken for a rule.                               *)
PushAsRule(t) ==
  LET rest == Top(t).rest IN
  /\ At(t, "push")
  /\ IF rest = <<>>
       THEN Goto(t, "leave") /\ UNCHANGED ruleVars
       ELSE /\ stack' = [stack EXCEPT ![t][Len(stack[t])].rest = Tail(@)]
            /\ filterExpr' = Append(filterExpr, Head(rest).files)
            /\ UNCHANGED filterExcpExpr
  /\ UNCHANGED <<fileVars, notify, hooked, inside, settingsMtime, historyVars>>

(* One statement of the file, under the mutex; fclose at the end.          *)
Push(t) ==
  LET rest == Top(t).rest IN
  /\ At(t, "push")
  /\ IF rest = <<>>
       THEN Goto(t, "leave") /\ UNCHANGED ruleVars
       ELSE /\ stack' = [stack EXCEPT ![t][Len(stack[t])].rest = Tail(@)]
            /\ IF Head(rest).exception
                 THEN /\ filterExcpExpr' = Append(filterExcpExpr, Head(rest).files)
                      /\ UNCHANGED filterExpr
                 ELSE /\ filterExpr' = Append(filterExpr, Head(rest).files)
                      /\ UNCHANGED filterExcpExpr
  /\ UNCHANGED <<fileVars, notify, hooked, inside, settingsMtime, historyVars>>

Leave(t) ==
  /\ At(t, "leave")
  /\ inside' = FALSE
  /\ Return(t)
  /\ UNCHANGED <<fileVars, notify, hooked, settingsMtime, ruleVars, historyVars>>

ReadSettings(t) ==
  \/ Guard(t) \/ Enter(t) \/ Stat(t) \/ Decide(t) \/ Record(t)
  \/ Open(t) \/ Clear(t) \/ Read(t) \/ Push(t) \/ Leave(t)

-----------------------------------------------------------------------------
(* Init of the DLL goes on when its ReadSettings has returned.             *)
Hook ==
  /\ ~hooked /\ stack[Loader] = <<>>
  /\ hooked' = TRUE
  /\ UNCHANGED <<fileVars, notify, inside, settingsMtime, ruleVars, stack, historyVars>>

(* A hook meets DropboxFilter.cfg: in the change records of the directory, *)
(* of which none is lost, or when an enumeration returns it.               *)
MeetConfig(t) ==
  /\ hooked /\ stack[t] = <<>>
  /\ version > 0 \/ truncated
  /\ stack' = [stack EXCEPT ![t] = <<Call>>]
  /\ notify' \in {notify, FALSE}
  /\ UNCHANGED <<fileVars, hooked, inside, settingsMtime, ruleVars, historyVars>>

FilterExceptions(f) == \E i \in 1 .. Len(filterExcpExpr) : f \in filterExcpExpr[i]

(* Filter's answer for a file other than DropboxFilter.cfg.                *)
Filter(f) ==
  /\ \E i \in 1 .. Len(filterExpr) : f \in filterExpr[i]
  /\ ~FilterExceptions(f)

AskFilter(f) ==
  /\ hooked
  /\ Filter(f)
  /\ everFiltered' = everFiltered \cup {f}
  /\ UNCHANGED <<fileVars, notify, hooked, inside, settingsMtime, ruleVars, stack,
                 openFailed, clash, turnedAway, raced>>

-----------------------------------------------------------------------------
Next ==
  \/ Tick \/ BeginEdit \/ EndEdit \/ Hook
  \/ \E t \in Readers : ReadSettings(t) \/ MeetConfig(t)
  \/ \E f \in Files : AskFilter(f)

Spec == Init /\ [][Next]_vars

(* The scheduler runs every thread that is inside ReadSettings.            *)
FairSpec == Spec /\ \A t \in Readers : WF_vars(ReadSettings(t))

-----------------------------------------------------------------------------
(* Properties.                                                             *)

(* The rules, or the exceptions, among the first n statements.             *)
UpTo(stmts, exc) ==
  LET list[n \in 0 .. Len(stmts)] ==
        IF n = 0 THEN <<>>
        ELSE IF stmts[n].exception = exc THEN Append(list[n - 1], stmts[n].files)
        ELSE list[n - 1]
  IN  list

RulesOf(stmts, exc) == UpTo(stmts, exc)[Len(stmts)]

Loaded(stmts) ==
  filterExpr = RulesOf(stmts, FALSE) /\ filterExcpExpr = RulesOf(stmts, TRUE)

Idle == \A t \in Readers : stack[t] = <<>>

(* Nobody is reading, and every change of the file has been reported.      *)
Quiet == hooked /\ Idle /\ ~notify

(* The call that _wstat64 makes back into ReadSettings returns at once: a  *)
(* reload is never started from within a reload, as long as no other       *)
(* reader's exit resets the flag they share.                               *)
ReentryStopped ==
  ~raced => \A t \in Readers : Len(stack[t]) > 1 => Len(stack[t]) = 2 /\ At(t, "guard")

(* Between two reloads the lists hold the rules and the exceptions of one  *)
(* version of the file, each once and in order; an emptied file that was   *)
(* opened before the editor has written it leaves both lists empty.  A     *)
(* second reader may come and go at any time, but not pass the guard       *)
(* together with the first: what their race leaves is mended by the next   *)
(* reload that one of them does alone.                                     *)
WholeVersion ==
  Idle /\ ~raced => Loaded(<<>>) \/ \E v \in 1 .. version : Loaded(Versions[v])

(* Once every change is reported and read, the lists are those of the file *)
(* as it is: an edit that happens between _wstat64, _wfopen and fgetws, or *)
(* that finds the file still empty ("try reading it again the next time it *)
(* is changed", Inject.cpp:102), is not lost.  What the code does lose  *)
(* is excepted: the file could not be opened after its time was recorded;  *)
(* two edits within the resolution of st_mtime; the thread that was told   *)
(* of the edit was turned away while another was reading; two readers got  *)
(* past the guard together.                                                *)
UpToDate ==
  Quiet /\ version > 0 /\ ~truncated /\ ~openFailed /\ ~clash /\ ~turnedAway
    /\ ~raced => Loaded(Versions[version])

(* Only a rule makes Filter hide a file: what is never matched by a rule   *)
(* of any version, only by exceptions, is never filtered.                  *)
FilteredByRule ==
  \A f \in everFiltered :
    \E v \in 1 .. version : \E i \in 1 .. Len(Versions[v]) :
      ~Versions[v][i].exception /\ f \in Versions[v][i].files

(* No exit of ReadSettings and no race of two readers leaves inside set    *)
(* for good, which would stop every later reload.                          *)
ReloadEnds == []<>(~inside)

(* "Use - as the first element to create exceptions": a file that every    *)
(* version of the configuration excepts is never filtered.                 *)
ExceptionsHonoured ==
  \A f \in everFiltered :
    ~ \A v \in 1 .. version : \E i \in 1 .. Len(Versions[v]) :
        Versions[v][i].exception /\ f \in Versions[v][i].files

=============================================================================
