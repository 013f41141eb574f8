# DropboxFilter in TLA+

A specification of DropboxFilter: a DLL that is loaded into Dropbox, hooks the
functions by which Dropbox sees its directory, and hides the files that
`DropboxFilter.cfg` names; and the program that installs it. Paths below are
relative to the repository. Everything is translated from the code; what a
comment or a document promises is only used to state properties.

## Inventory

### 1. Change notifications (`Inject/Hook.cpp` 6-75, 264-333)

*State*: `overlappedEmuData`, ten slots, each an own `OVERLAPPED` with an
auto-reset event, the caller's `OVERLAPPED`, the buffer and the flag `inUse`;
one thread, `OverlappEmuThread`.
*Operations*: `ReadDirectoryChangesW_hook` takes a slot (`EmulateOverlapped`),
hands the slot's `OVERLAPPED` to the system, and gives the slot back if the
system refuses (`EmulateOverlappedRelease`). The thread waits for any slot's
event, filters the buffer (`FilterNotifyInformation`), copies the result to the
caller's `OVERLAPPED`, sets the caller's event and frees the slot. Without an
`OVERLAPPED` the hook calls the system and filters in place.
*Hard*: callers, the kernel and the thread share slots with a compare-and-swap
on one side and plain stores on the other; the pool runs dry; the caller is
woken before its slot is free; the lowest signalled slot always goes first.
*Correct when*: every slot is with one party, every accepted request is
answered once, with its own result and a buffer that has been filtered. Within one answer, `FilterNotifyInformation`
walks over the records while files change and handles are closed: a filtered
file is not told of under its name, any other is.

### 2. Enumeration hooks (`Inject/Hook.cpp` 77-261)

*State*: `handle2path`, from a find handle to the directory it enumerates,
under a mutex; the local path of each call.
*Operations*: `FindFirstFileW_hook` and `FindFirstFileExW_hook` (one body)
remember the directory and pass over filtered entries; `FindNextFileW_hook`
looks the directory up and passes over filtered entries. `FindClose_hook` is
written but never installed, so entries of closed handles stay.
*Hard*: the system uses handle values again; handles also come from functions
that are not hooked; the map is locked per access, not per call.
*Correct when*: the application is given exactly the visible entries.

### 3. Settings (`Inject/Inject.cpp` 15-26, 76-235, 255-305)

*State*: `filterExpr`, `filterExcpExpr` under `filterExprMutex`; `inside` and
`settingsMtime` without a lock.
*Operations*: `ReadSettings`, called by `Init` and by each `Filter` call that
meets the configuration file; `Filter` and `FilterExceptions`.
*Hard*: the file is edited between `_wstat64`, `_wfopen` and the reading;
`_wstat64` runs into the hook of `FindFirstFileExW` and calls `ReadSettings`
again; two threads can both pass the test of `inside`; `Filter` sees the lists
while they are filled.
*Correct when*: between reloads the lists are one version's, whole and in
order; no reported edit is lost; the flag is always cleared again.

### 4. Configuration language (`Inject/Inject.cpp` 124-229, 237-305; `Inject/glob.cpp`)

*State*: the buffers `line` and `statement`, which are not cleared between
lines, and the parser's locals.
*Operations*: the parser of names, `<attributes>`, exceptions and comments; the
decision of `Filter` with `beginsWith`, `endsWith` and `WildcardMatch`.
*Hard*: pointer arithmetic on the stale buffer; `goto next`; attribute signs.
*Correct when*: a file is filtered if and only if the configuration, read as
its comments document it, says so.

### 5. Hook installation (`Inject/mhook-lib/mhook.cpp`; `Hook`, `UnHook`, `DllMain`)

*State*: the functions' first bytes, the pointers `..._sys`, the trampolines,
`g_pHooks`, `g_nHooksInUse`, `g_hThreadHandles`.
*Operations*: `Mhook_SetHook` and `Mhook_Unhook`, which suspend the process's
other threads one by one, overwrite code, and let them go on.
*Hard*: a thread stands in the bytes that are overwritten; a thread is created
meanwhile; every system call can fail.
*Correct when*: no thread that was looked at executes half-written bytes, none
is left suspended, and the table matches the code.

### 6. Installer (`DropboxFilter.cpp`)

*State*: two files in Program Files, `AppInit_DLLs` and `LoadAppInit_DLLs` in
the registry, a link in the Startup folder, the Dropbox process.
*Operations*: install by AppInit or by piggyback, uninstall, elevate.
*Hard*: other programs share the registry value, which is read, edited as text
and written back with nothing that keeps them out meanwhile; each call can fail; the process can end in between; elevation starts another one.
*Correct when*: what the final message says is so, and other entries stay.

### 7. Launcher (`LaunchDropbox`, `Util.cpp` 4-81)

*State*: the suspended Dropbox, the remote thread in it, its exit code.
*Operations*: create Dropbox suspended, load the DLL by a remote thread, let it
go on or end it.
*Hard*: each call can fail; while the launcher waits, or shows its message,
Dropbox may be ended and started again, the DLL replaced, the launcher ended.
*Correct when*: the Dropbox it started never runs without the DLL.

### 8. Path translation (`Util.cpp` 83-162)

*State*: `device2drive`, from a device's name to its drive, built by `InitUtil`
when the DLL is loaded, and used by several threads without a lock.
*Operations*: `PathFromHandle` asks for the object name of a handle and writes
the drive over its device. The lookup inserts a device that is not found.
*Hard*: the handle is another directory's by the time it is translated; two
threads insert at once.
*Correct when*: a directory on a drive gets the path Dropbox knows it by.

### 9. Disassembler (`Inject/disasm-lib`, `mhook.cpp` 519-646)

*State*: the instruction being decoded, the opcode tables.
*Operations*: `DisassembleAndSkip` decodes instructions at the entry of a
function until five bytes of whole instructions are found; these are moved to
the trampoline. `X86_GetInstruction` decodes one: prefixes, opcode, checks,
operands, checks of the whole, references.
*Hard*: tables of 3000 lines with exceptions by group, ModRM byte, suffix and
prefix; assertions that end the host process; lengths that are counted in
several places.
*Correct when*: what is moved is whole instructions, none of them a branch, and
fits into the trampoline.

### 10. The rest

`base64.cpp` with the installer's `GetDropboxPath`, which reads Dropbox's
`config.db` or decodes the second line of `host.db`, for `EditConfig` (the DLL
takes the path from the environment), `IPC.cpp` (empty), resources, project files and `Install.bat`.

### How they interact

Dropbox calls (1) and (2) from any thread. Both call `Filter` (3, 4), which
calls `ReadSettings` when the name is that of the configuration file, which in
turn calls (2) through the C library. (1) uses (8) to build names. (5) puts (1)
and (2) in place after the first `ReadSettings`; (6) or (7) brings the DLL into
the process that runs (5).

## Modules

| module | models | status |
|---|---|---|
| `WatchService` | what a caller of `ReadDirectoryChangesW` may rely on | abstract |
| `OverlapEmu` | component 1, one action per step another thread can observe | checked, proved |
| `FindHooks` | component 2 | checked, proved |
| `ChangeFilter` | the walk over the records of an answer (component 1) with component 8, over `FilterRules` | checked, proved |
| `SettingsReload` | component 3, a rule being the set of files it applies to | checked, proved |
| `FilterRules` | pure operators of component 4: `WildcardMatch`, `Filter` | used by `ConfigParser` and `ChangeFilter`; wildcards proved |
| `ConfigParser` | the parser of component 4, character by character | checked, proved |
| `Mhook` | component 5 | checked, proved |
| `Installer` | component 6, with component 7 | checked, proved |
| `X86Tables` | the opcode tables of component 9 | used by the next |
| `X86Operands` | its operands and addressing | used by the next |
| `Disasm` | decoding one instruction, and `DisassembleAndSkip` | checked; partly proved |
| `X86Encoding` | the IA-32 encoding, stated without the code's tables | reference |
| `OverlapEmuProofs`, `FindHooksProofs`, `ChangeFilterProofs`, `SettingsReloadProofs`, `ConfigParserProofs`, `MhookProofs`, `InstallerProofs`, `DisasmProofs` | theorems | proved |
| `MC...` | values of the constants for TLC | |

`map` in `PROJECT.json` names the lines each definition stands for. Definitions
called "Mutant" in the comments are plausible mistakes: each property fails
when the definition it belongs to is replaced by one of them.

### OverlapEmu

Variables are the fields of `OverlappedData` (`inUse`, `owner` for
`realOverlapped`, `internal`, `high`, `event`), the kernel's requests (`irp`),
the thread (`wpc`, `cur`), the callers' `OVERLAPPED`s and buffers, and where
each call is (`hook`, `pos`). `Claim` is the compare-and-swap, `Skip` an index
that is taken, `Wake` the end of `Sleep`; `Fill`, `Accept`, `Reject` and
`EmulateOverlappedRelease` follow. The thread's loop body is six actions, one
per line, because the caller and other calls run in between. `Complete` is the
kernel; `Consume` is the application, which waits for its event before it uses
the same request again. A byte count is zero or not; a buffer is `stale`,
`raw`, `filtered`, or `garbage` where the synchronous path walks over a buffer
that the system did not write.

`WatchService` has neither slots nor threads: a request is issued, refused or
completed, delivered with its own outcome and a filtered buffer, and consumed.
`OverlapEmu` maps to it with `phase` computed from the call and the event, and
`seen` from what the caller's `OVERLAPPED` and buffer hold once it is told.

### ChangeFilter

One watch belongs to the emulation thread, others to threads that call without
an `OVERLAPPED`. `queue` and `overflow` are what the kernel has noted for a
watch; `Complete` puts it into the buffer. The walk is split where something
else can happen: `Query` asks for the handle's object name, `Lookup` and
`Insert` are `device2drive[device]`, `Judge` asks for the attributes and for
`Filter` and renames the record; each of them goes on with `NextEntry`. Names
are sequences of tokens with their separators, so that `Device` finds the third
separator as the code does. Files are written, deleted and renamed at any time;
`had` records which attributes a file has had since a change. `Close` may come
at any time for a watch with an `OVERLAPPED`, and `Open` uses the handle's value
again for another directory. `met` keeps the uses of the map that met when
two threads were in it and one of them was inserting: which threads they were,
whether each was inserting, and for which object's name. The map is `harmed`
then, and nothing is said of what follows.

### FindHooks

The system's side is `opened` and `cursor`; `given` records what the
application was given. `FindFirst`, `Store`, `Check`, `Next1`, `Close1` are the
steps of both FindFirst hooks, `FindNext`, `NextSys`, `Lookup`, `FilterEntry`
those of the FindNext hook, split where another thread may take the mutex.
`FindClose` is the system's function: it leaves `handle2path` alone.
`OpenForeign` is a handle from a function that is not hooked. One thread uses a
handle at a time; the values of closed handles are used again.

### SettingsReload

`stack` holds, for each thread, its calls of `ReadSettings`, since `Stat` can
call it again. A critical section is one action, an unprotected access another.
The editor empties the file and writes it in two steps (`BeginEdit`,
`EndEdit`), and `notify` is the change record that will make some hook call
`ReadSettings`. The first `fgetws` reads the whole file into the stream's
buffer, which is how the C library reads a file of this size.

`turnedAway` and `raced` are history: a report met a reader that was still
inside; two readers got past the test of `inside` together. The properties
about whole lists speak of what happens without them, while both happen in the
run: a second reader comes and goes at every point, and after a race the next
reload that a reader does alone makes the properties hold again.

### FilterRules and ConfigParser

Characters are strings; `cfg` and `root` stand for the configuration file's
name and the directory's path. `Written` turns a structured configuration into
lines; the parser reads them back over a statement buffer that may hold
anything at first. `Meant` is what the comments of
`DropboxFilter/DropboxFilter.cfg` say a configuration means, with a matching of
its own that is defined by positions and not by recursion, and `FilteredAsMeant`
compares the decision of `Filter` with it. `Lines` is what users write: names
without the characters that end a name, within the buffer and with no blank at
either end; the attribute letters that the documentation and the parser agree on,
so neither `L` nor `J`; no letter with two signs in one statement, of which the
documentation does not say what it means. What the array `statement` holds before
it is written is any character but a blank: over blanks up to the array's end the
code would write behind it.

### Mhook

Each thread is outside, at a function's entry, inside its first instructions,
behind them, in the hook, or in the trampoline; `Execute` moves it on according
to what the bytes hold at that moment: `original`, `torn` (a jump without its
operand) or `jump`. A thread that executes what is no instruction is `lost`.
`missed` records the threads that the code passes over (not in the snapshot,
not opened, not suspended, not looked at, given up).

### X86Tables, X86Operands, Disasm

`X86Tables` has the rows of `disasm_x86_tables.h`, by ranges where rows are
alike: type, operands with their kind and direction, and the sub-tables of
groups, ModRM extensions, FPU opcodes, suffixes and SSE prefixes. `X86Operands`
is `SetOperands` with `SetModRM32`, `SetModRM16`, `SetSIB` and one operator for
each kind of operand; it counts the bytes and keeps what later checks and
assertions look at. `Disasm` is `X86_GetInstruction` from top to bottom: one
action for each way an opcode is found, then `CheckPrefixes`, `Operands`,
`PostChecks`, `References`, with `ins` as the instruction so far. An assertion
that fails ends the process (`failed`). `Stop`, `Skip` and
`GetInstructionFails` are the loop of `DisassembleAndSkip`. Bytes behind the
text are `Filler`, RET in the run, any byte in the proofs. The tables and operands
were written from the source; the reason for `X86Encoding`, which defines lengths
by the format of an instruction, is to compare the result with something that
shares no table with it.

### Installer

One action per call that changes something, in the order `Steps` lists for each
button. `appInit` is a sequence of characters, since the code cuts and pastes
text. `Register` and `Unregister` query the value and edit the copy in `buffer`,
`SetList` and `SetEnabled` write the two values, and each of the calls may fail
by itself: what is done goes on, `ok` only decides what `InstallAppInit`
returns. `AddOther`, another program's installer, may come between any two of
them. An entry that it adds after the query is overwritten by `SetList`, or
disabled by `SetEnabled` with the list that a removal left empty: the code loses
it. `late` keeps which entries were added since the query and `undone` which of
them the writes went over, so that `OthersKept` can say that nothing else is
lost. A query that fails leaves the buffer uninitialised, and the code edits and
writes it all the same; that, too, is `astray`. `Elevate` either goes on, or starts the program again with the command to
go on with. `shortDllPath` is on the stack, and when `GetShortPathName` fails it
keeps what was in that memory: `Stale` is what it can be. If that is a part of
another program's entry, the removal takes it for ours and cuts there; once such a
text has been added or found `astray` is set. The code passes on
`IDC_INSTALL_PIGGYBACK` for the uninstall button (line 471), and so does the
model. Any step can fail, and `End` ends the process anywhere.

`Launch`, `RemoteLoadDll`, `Wait`, `Refuse` and `Resume` are the launcher's
steps, `RemoteThread` is the thread in Dropbox, which may come after the
launcher has been ended (`launcher = "ended"`). An exit code is that of
`LoadLibraryA` or of the process, if it was ended meanwhile. A running
launcher keeps the installed executable, and a loaded DLL its file, from being
replaced. One Dropbox is there at a time.

## Runs

| run | question | bounds |
|---|---|---|
| `OverlapEmuSafety` | slot ownership, one answer, whole answers, no races, refinement | 3 requests, 2 slots, symmetry |
| `OverlapEmuLive` | are completions served, are free slots found | 2 requests, 2 slots |
| `FindHooks` | are exactly the visible entries given | 2 threads, 2 handle values, 2 directories |
| `ChangeFilter` | is a filtered file told of under its name, is any other hidden | 2 watches, 2 directories, 3 files, 2 changes, buffers of 2 records |
| `Settings` | re-entry, whole versions, lost edits and races of `ReadSettings` | 2 threads, 2 versions, 2 seconds |
| `SettingsExceptions` | violation, see below | 1 thread |
| `ConfigParser` | does a configuration mean what is documented | two lines, up to two statements each, a buffer of six characters |
| `Mhook` | threads while functions are hooked and unhooked | 2 threads, 2 functions, 1 retry |
| `Installer` | do messages say what is so, do others' entries stay, does a launched Dropbox have the DLL | 1 own, 2 foreign entries |
| `InstallerUninstall` | violation, see below | the same |
| `Disasm` | are whole instructions skipped, are branches left, do assertions hold | about 55000 texts |
| `DisasmBoundary` | violation, see below | texts of three instructions |

Why the bounds are enough to be interesting:

- With three requests over two slots the pool runs dry, a caller sleeps, and a
  slot is reused while the earlier caller has its answer already. Temporal
  properties are checked without symmetry.
- With two handle values and two directories a handle value is closed and
  reused for the other directory while another thread is inside a hook; one
  directory is filtered as a whole, so that FindFirst fails. `temp` has
  names that are filtered there and visible in `work`, so that a wrong path
  changes the answer.
- In `ChangeFilter` two changes are enough for one to come while the walk over
  the other is under way, and, with a rename's two records, for an overflow. The
  caller's buffer begins zeroed or with an earlier answer, so that an overflow
  makes the hook walk over both. One file is filtered by its name, one by an
  attribute that changes, and one is in a directory without a drive.
- `Settings` has a stack of two: the second entry is where `ReentryStopped`
  says it ends, and `MaxDepth` cuts off what follows a race. The clock's two
  seconds hold two edits within one second or in two.
- The texts of `Disasm` are every opcode of both maps with no prefix, each
  single prefix and eight combinations, with an operand in memory and in a
  register; every opcode with a ModRM byte with each form of addressing, 32 and
  16 bits, and displacements that are addresses or not; each row of each group
  with each ModRM byte that selects a register; texts of up to 17 prefixes; and
  2197 times two sequences of three instructions, so that the skip goes over
  several.
- The configurations of `ConfigParser` have wildcards, attributes with each kind of sign, both
  separators, exceptions, comments behind a blank and without, and a long line
  before a short one, so that the statement buffer is stale.
- One retry instead of three in `Mhook`: `tries` is only compared with its
  bound.
- The short path has two characters, the foreign paths one and three, so that
  a cut in the wrong place takes off less or more than a neighbour. Two foreign
  entries let one be in the list that is queried and the other be added before it
  is written. The run's `VIEW` leaves out of a state what no step and no property
  looks at any more: the command while none is under way, and the histories `late`
  and `undone` once `OthersKept` says nothing.

`CHECK_DEADLOCK FALSE` is set where the system really ends: the edits and the
time are used up (`SettingsReload`), the file is parsed (`ConfigParser`), the
DLL is unloaded and the threads have crashed (`Mhook`). The others never stop.

### Fairness

Weak fairness, for what a scheduler that runs every runnable thread provides:
each hook's own steps and the emulation thread's (`OverlapEmu`,
`ChangeFilter`), each call of a hook (`FindHooks`), each call of
`ReadSettings`, the parser, and the thread that installs hooks, which raises
itself to the highest priority. The kernel completing a watch, the application
waiting for its event or calling again, the user, the clock and other programs
have none. `ServedUnlessStarved` does not promise service: slots of lower index
can starve a slot, since `WaitForMultipleObjects` returns the lowest index. The
decoder is one thread that never waits; that it ends is stated without
fairness, as an action property (`SkipAdvances`: each step goes on, in
quantities that `TypeOK` bounds).

### What the runs show that is not as documented

1. `SettingsExceptions`: while the lists are filled, rules can be in place
   whose exceptions are not, so that a file that every version excepts is
   filtered (`Inject/Inject.cpp` 119-122, 222-227).
2. `InstallerUninstall`: `UnInstall` deletes the DLL whose short path
   `UnInstallAppInit` then asks for, and the registry entry stays after
   "UnInstall done.".
3. `DisasmBoundary`: the comment at `Inject/mhook-lib/mhook.cpp` 535-536
   promises that the skip ends between two instructions. The fences have a
   ModRM byte but no operands, and the byte is not counted.

Seen while modelling, without a run of its own: `<L>` is documented for reparse
points, but the parser has `j` and `J` and ignores `<L>`; a write reported to a
second thread while the first is still inside `ReadSettings`, having found the
file empty, is not read, against the comment at `Inject/Inject.cpp` 101-103; a
filtered file whose name begins with `@` is told of as it is, since `@` is what
its first character is replaced by (`Inject/Hook.cpp` 294); a watch of a drive's
root directory gets paths with two separators, which never begin with
`dropboxPath`; UD1 and 3DNow instructions are miscounted like the fences; LOOP
and JECXZ are moved to the trampoline, where they lead elsewhere; LOCK is
accepted in front of BT; assertions of the decoder end the host process on some
indirect calls and FPU instructions, on 14 prefixes, and on 10 in front of an
instruction of 3DNow, whose address it counts twice.

Some properties hold with exceptions that name what the code does otherwise:
`UpToDate` (the file could not be opened after its time was recorded; two edits
in one second; a report turned away; a race of two readers), `HiddenNotTold`
and `VisibleTold` (removed files, names that begin with `@`, directories on no
drive, handles closed before the walk was over), `WholeInstructions` (the
instructions named above), `AssertionsHold` (`Fatal`), `LockedWritesMemory`
(BT), `StopsAtBranches` (LOOP, JECXZ), `OthersKept` and `OneWay` (`behind`: the list was not empty
when the installer added itself, and the removal then cuts at the list's front;
`failed`: a call failed; `astray`: a path that could not be shortened was looked
for in the list all the same, or a list that could not be read was written;
`undone`: entries added between the query of the list and its being written),
`FilteredAsMeant` (a blank before a comment moves the
end of the name forward, line 151; `DamageContained` bounds what that does),
`CheckedNeverLost` and `CheckedNeverRecurses` (`missed` threads).

## Proofs

The modules named `...Proofs` prove, for all values of the constants that
satisfy the modules' assumptions (at least one slot and a null request that is
no request; finite listings and nulls that are no directories; a path belongs to
one file and a file has a name; the functions to hook are distinct; machine code
is made of bytes, is followed by some byte, and the jump mhook writes is as long
as MHOOK_JMPSIZE at most; paths in the registry have no comma, and others' paths
are not empty and do not contain ours):

- `OverlapEmu`: `TypeCorrect`, `SlotsOwned`, `AnsweredOnce`, `AnswersIntact`,
  `WorkedSlotsStable`, `DeliveredAnswersStable`, `Implementation`. The
  inductive invariant is the conjunction of the first four. None of the last
  three is inductive alone: that an answer is whole needs that it is the only
  one for its request, which needs that its slot is with one party. Each has a
  step lemma (`OwnershipStep`, `OneAnswerStep`, `AnswerStep`) that uses those
  before it, with one step per action. The two action properties follow from
  the invariant action by action. `Implementation` shows that each action is a
  step of `WatchService` or a stutter: `Complete`, `SyncReturn` complete,
  `WorkerSignal` and `SyncFilter` deliver, and `SeenIsAnswer` supplies that
  what is delivered is the answer, from `AnswerIntact`.
- `FindHooks`: `TypeCorrect`, `CallsUndisturbed`, `DirectoriesKnown`,
  `EnumerationsFiltered`. `VisibleGiven` speaks of handles no call is working
  on; what has to be known in the middle of a call is `CallsInProgress`, and
  both together with the map's correctness are inductive. `EntryPassed` and
  `EntryAdded` are the arithmetic of passing one entry.

- `ChangeFilter`: `TypeCorrect`, `MapOnlyRead`, `FilteredHidden`,
  `OthersTold`, for any rules, drives, files and buffers. `MapInv` says that the
  map has its drives and no drive under another key, so whoever inserts asks for
  a directory on no drive (`HarmInv`); that gives `MapUnharmed` at the step in
  which two uses of the map meet (`MeetingKnown`). The other two
  speak of a finished answer; what they say of one record is `Good`. `WalkInv`
  has it of the records before `in`, and of those from `in` on that they still
  have their name. `Genuine` ties a record to its file: the attributes the file
  has now are in `had`, in the queue (`QueueInv`) and in the buffer, so that what
  `Judge` finds is among what the file has had (`AttributesFound`), and
  `GoodStays` carries `Good` over later changes. A handle that was closed during
  the walk takes its watch out of `WalkInv`, and a harmed map everything but the
  types.
- `SettingsReload`: `TypeCorrect`, `OnlyRulesFilter`, `ReentryEnds`. `RulesInv`
  follows the rules from the file over the stack's statements to the lists;
  `StackInv` and `AloneInv` say that a call waits only within `_wstat64`, and
  that as long as no two readers were past the guard together the one that is
  has set `inside`, which is what stops the call that comes back.
  `OneVersion` and `NoEditLost` are about content; their invariant is
  `ContentInv`. `UpTo` is the lists after so many statements of a text, a recursive
  function whose equations `UpToDef` has to establish first. `LoadInv`: the lists
  are those of a text the file has had, or of its first statements while a reader
  still has exactly the others to push. `TimeInv` orders the recorded times, those
  on the stacks, the file's and the clock's. `RecordedInv` says that a recorded
  time stands for the content, and `ToldInv` where an edit is until it has been
  read: about to be reported, with a reader that has not compared the times, or
  being read.
- `FilterRules`: `WildcardsAsDocumented`, that for any name and any mask but the
  empty one, the recursion of `WildcardMatch` finds what the documented meaning of
  `*` and `?` asks for: that the name can be cut into one piece per character of
  the mask. By induction over what is left of name and mask.
- `ConfigParser`: `NoMoreDamage` and `MeantIsFiltered`, for any number of lines
  and statements, any names and attributes of `Lines`, any file and any Dropbox
  directory. Both follow from `ParserInvariant` in the state that has read all.
  What is true of the lists alone is not inductive, since it depends on the place
  in the line: `ParserInv` splits the statements of the configuration in those of
  which the lists have the rules (`ReadUpTo`: as many, in order, each with its
  masks and its name or, if it has a blank behind it, a longer text) and the
  others, and says that the characters ahead in the line are what is written of
  the others, from the line's sign on, from a statement on or from the line's end
  on (`NextOk`); behind a name, that what is stored is the name and what is ahead
  is its attributes (`ScannedOk`). TLC checked `ParserInv` on the configurations of
  the run before it was proved. A line is joined from its parts by a recursive
  function (`Joined`), so the lemmas give its text from each part on and go
  backwards; `ScanKeeps` has a case for each character a name can stop at.
  `MasksAsDocumented` says that flags and signs of the masks are those of the
  attributes' letters, for which the letters have to stand for different flags, and
  `RuleMeans` joins that with `WildcardsAsDocumented`.
- `Mhook`: `Types`, `NeverLost`, `NeverRecurses`, `Resumed`, `Counted`. All but
  the function at hand are settled (`TableInv`, which counts the table);
  `StageInv` has what the code, the trampoline and the pointer are at each stage,
  `HandlesInv` that the suspended threads are those in the list and the one that
  is looked at. `CheckedInv` says that between the snapshot and the last write a
  thread that was there is yet to be suspended or stands outside of the bytes;
  `PlaceInv` then says of each place what code and pointer it relies on. Threads
  in `missed` are excepted everywhere: without that none of this holds.

- `Installer`: `LaunchesFiltered`. `LaunchInv`: a held Dropbox has a launcher
  or had one, and one that is about to be resumed is neither without the DLL nor
  still loading it. Every other action ends Dropbox or starts one where there is
  none (`OthersStep`). `OthersStay` and `DoneAsSaid` have the invariant
  `ListInv`: which command is at which step (`StepInv`), what each step leaves
  behind it on disk (`FilesInv`), in the link (`LinkInv`) and in the list
  (`DoneInv`), that our own path is nowhere but in front of the list (`FrontInv`),
  and that others' entries are behind it, each between commas (`KeptInv`).
  `BufferInv` says the same of the text that is about to be written, with every
  entry but those that were added `late`: so writing it loses those and no other
  (`ListIsSet`), and a list that is disabled has no other (`EnabledIsSet`). The
  lemmas before it are about occurrences of a text in another one, and about which
  of them are left when the front is cut off.
- `Disasm`: `Decodes`, `Typing`, `NoBranchMoved`, `LocksWhereAllowed`,
  `WholeSkipped`, `TrampolineHolds`, `Onward`, for any machine code. `Typed` keeps the instruction's fields in their ranges
  through every kind of operand; `Follows` that the operands change neither the
  opcode nor the prefixes. The lemmas about the tables are those the theorems
  need: rows that are prefixes, and rows of instructions that leave the straight
  line, which have a type that the skip stops at. `Transfers` shows that the
  reference, reading the text alone, and the decoder, with its tables, find the
  same opcode. `DecodeInv` puts them together: what has been read before the
  opcode is prefixes (`PrefixInv`), a row that was found is that of the text
  (`RowInv`), lengths are bounded (`LengthInv`), and no instruction in `moved`
  leaves the straight line (`MovedInv`). `SkipInv` bounds the skip, which gives
  that the trampoline's buffer holds it. `LocksWhereAllowed` has an invariant of
  its own, `LocksInv`, which was model-checked before: a LOCK prefix that was read
  is noted; from the opcode on, the opcode, the group and the ModRM byte are those
  of the encoding (`Found`); and the instructions of the forms that write a
  register, which `X86_LockPrefix_1` does not tell from those that write memory,
  never come to have an address they write to (`RegisterFirst`, `Unwritten`), so
  that `IsValidLockPrefix` refuses them. `LockValid` is the rest, over the rows of
  the LOCK tables. `WholeSkipped` has `CountInv`: what the decoder has counted, at
  each place of the decoding, is what the encoding has up to there. In front of
  the opcode it is the bytes read, with the sizes the prefixes choose
  (`SizesRead`); behind it, with the row found and in front of the operands, it is
  the prefixes, the opcode and a ModRM byte if the encoding has one (`CodedAt`),
  and the row fits the encoding (`RowAt`); from then on it is the encoded length.
  A row fits (`RowFits`) if its operands together take the bytes the encoding says
  follow: the SIB byte and the displacement if one of them is in the ModRM byte,
  and the immediates of the opcode's kind, whatever the two sizes are. That is
  proved for every row of every table (`LowRowsFit` to `RowsF3HighFit`, the groups
  and the escape opcodes before them), from lemmas that say it of each list of
  operands once; `OperandsTake` says that the decoder takes just those bytes when
  it goes through a row. The opcodes in `Miscounted` are excepted from the opcode
  on, as they are in the property.

Only model-checked: `AssertionsHold` of `Disasm`, whose assertions are about single
operands (sizes, registers and addresses that each case of `X86_DecodeOperands`
expects), an argument of its own for each of them; and every liveness property (`WalksEnd`,
`ReloadEnds` and those of the other runs). Liveness under fairness (and
`ENABLED`) is out of the prover's reach. The library's induction theorems take an
operator and cannot be used, so where a proof goes by induction over data
(`SettingsReloadProofs`, `ConfigParserProofs`) it rests on `Induct`, which says the
same of a set of numbers and follows from the least element that is not in it.

## Not modelled

- Of the disassembler: its text output, the effects of an instruction on
  registers and stack (`disasm_x86.c` 2334-2467), 16-bit and 64-bit code, and
  `misc.c` and `cpu.c`, which the decoding does not use. The DLL is built for
  32 bits. `FixupIPRelativeAddressing` is for 64-bit code only.
- The lazy initialisation of mhook's critical section; its callers hold the
  loader lock.
- `TerminateThread` in `UnHook`, and what else happens when the DLL is
  unloaded from a process that goes on.
- `base64` with the installer's `GetDropboxPath`, `EditConfig`, `CreateLink`:
  conversions and calls of one thread that no other part depends on.
- Buffer sizes: names and lines are within the code's buffers.

## Plan

In this order:

1. Done: `OverlapEmu` with `WatchService`, `FindHooks`, `SettingsReload`,
   `FilterRules` with `ConfigParser`, `Installer`, `Mhook`; `ChangeFilter`;
   `Disasm` with its tables.
2. `ChangeFilter` in the place of `OverlapEmu`'s one step, in a module that
   composes the two.
3. Life cycle: `DllMain`, `UnHook` with `TerminateThread`.
4. `base64` and `GetDropboxPath` against a reference definition.
5. The theorem for `AssertionsHold`, assertion by assertion.
