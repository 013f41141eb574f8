---------------------------- MODULE ChangeFilter ----------------------------
(***************************************************************************)
(* What the hook of ReadDirectoryChangesW does to the records of an        *)
(* answer: FilterNotifyInformation (Inject/Hook.cpp:278) walks over the    *)
(* buffer, turns the watched handle into a path with PathFromHandle        *)
(* (Util.cpp:109), asks Filter, and gives the name of a filtered record    *)
(* another first character.  Meanwhile files change, and the application   *)
(* closes handles and uses their values again.                             *)
(*                                                                         *)
(* A watch is served by a thread: emulator is the one thread of            *)
(* OverlapEmu, for a call with an OVERLAPPED; every other thread calls     *)
(* without one and walks over its own buffer.  OverlapEmu has the pool of  *)
(* slots in front of this walk, as one step.                               *)
(***************************************************************************)
EXTENDS FilterRules, FiniteSets

CONSTANTS
  Callers,          (* threads that call without an OVERLAPPED             *)
  emulator,         (* OverlappEmuThread                                   *)
  LogicalDrives,    (* GetLogicalDriveStrings: [drive, device] in order    *)
  Directories,      (* object names of the directories that are watched    *)
  Files,            (* pairs of a directory and a file's name in it        *)
  Flags,            (* the attributes a file may have                      *)
  filterExpr,       (* the rules, and the exceptions to them               *)
  filterExcpExpr,
  EarlierAnswer,    (* the files an earlier answer was about, in order     *)
  BufferLength,     (* records that fit into a buffer                      *)
  MaxChanges        (* bound: changes of files                             *)

Threads == Callers \cup {emulator}

ASSUME ThreadsAssumption == emulator \notin Callers
ASSUME FilesAssumption ==
  Files \subseteq Directories \X (Seq(DOMAIN Upper) \ {<<>>})
ASSUME EarlierAssumption == EarlierAnswer \in Seq(Files) /\ Len(EarlierAnswer) \in 1 .. BufferLength
ASSUME BoundsAssumption == BufferLength \in Nat \ {0} /\ MaxChanges \in Nat

VARIABLES
  attributes,     (* per file, those it has, or Gone                       *)
  changes,        (* the number of changes so far                          *)
  device2drive,   (* the map of PathFromHandle                             *)
  met,            (* the uses of the map that met, one of them an insertion *)
  handle,         (* per watch: the directory that hDirectory is, or Closed *)
  queue,          (* per watch: the records the kernel has not yet given   *)
  overflow,       (* per watch: more changes than fit into the buffer      *)
  pc,             (* per watch: where the call is                          *)
  buffer,         (* per watch: the records in the caller's buffer         *)
  transferred,    (* per watch: whether the count of bytes is not 0        *)
  in,             (* per watch: the record the walk is at                  *)
  name,           (* per watch: PathFromHandle's object name or path       *)
  moved           (* history, per watch: the handle was closed during it   *)

fileVars == <<attributes, changes>>
mapVars == <<device2drive, met>>
kernelVars == <<queue, overflow>>
walkVars == <<pc, buffer, transferred, in, name>>
vars == <<fileVars, mapVars, handle, kernelVars, walkVars, moved>>

(* Two threads were in the map, one of them inserting: nothing is known of *)
(* what the process does from then on.                                     *)
harmed == met # {}

Gone == {"gone"}
Closed == <<"closed">>
NoFile == <<>>
NoDrive == "no drive"

ASSUME ClosedAssumption == Closed \notin Directories
ASSUME DrivesAssumption ==
  /\ Len(LogicalDrives) \in Nat /\ DOMAIN LogicalDrives = 1 .. Len(LogicalDrives)
  /\ \A i \in DOMAIN LogicalDrives : LogicalDrives[i].drive # NoDrive

(* A record of the buffer.  of and had are history: the file it is about,  *)
(* and the attributes that file has had since the change.                  *)
Record(action, file, had) ==
  [action |-> action, name |-> IF file = NoFile THEN <<>> ELSE file[2], of |-> file, had |-> had]

(* The caller's buffer is zeroed at first, one record without a name, or   *)
(* has an earlier answer in it, about these files.                         *)
ZeroedBuffer == <<Record("none", NoFile, {})>>
Used(records) == [i \in DOMAIN records |-> [records[i] EXCEPT !.of = NoFile, !.had = {}]]
UsedBuffer(files) == Used([i \in DOMAIN files |-> Record("changed", files[i], {})])

-----------------------------------------------------------------------------
(* InitUtil: a device with a separator behind it, and its drive.  Where    *)
(* two drives are one device the later one stays.                          *)
(* Mutant: the separator is forgotten.                                     *)
InitUtil_NoSeparator ==
  [device \in {LogicalDrives[i].device : i \in DOMAIN LogicalDrives} |->
     LogicalDrives[CHOOSE i \in DOMAIN LogicalDrives :
       /\ LogicalDrives[i].device = device
       /\ \A j \in DOMAIN LogicalDrives : LogicalDrives[j].device = device => j <= i].drive]
InitUtil ==
  [key \in {LogicalDrives[i].device \o <<"\\">> : i \in DOMAIN LogicalDrives} |->
     LogicalDrives[CHOOSE i \in DOMAIN LogicalDrives :
       /\ LogicalDrives[i].device \o <<"\\">> = key
       /\ \A j \in DOMAIN LogicalDrives :
            LogicalDrives[j].device \o <<"\\">> = key => j <= i].drive]

(* The third separator of an object's name ends its device; a name with    *)
(* two of them is taken as a whole.                                        *)
ThirdSeparator(object) ==
  {i \in DOMAIN object : /\ object[i] = "\\"
                         /\ Cardinality({j \in 1 .. i : object[j] = "\\"}) = 3}
Device(object) ==
  LET third == ThirdSeparator(object)
  IN IF third = {} THEN object ELSE SubSeq(object, 1, CHOOSE i \in third : TRUE)

(* The drive is written over the end of the device's name.                 *)
DrivePath(drive, object) ==
  <<drive, ":">> \o SubSeq(object, Len(Device(object)), Len(object))

(* The drives that a directory is on, and the paths of a file.             *)
DrivesOf(object) ==
  {LogicalDrives[i].drive :
     i \in {j \in DOMAIN LogicalDrives : LogicalDrives[j].device \o <<"\\">> = Device(object)}}
FileAt(path, file) ==
  \E drive \in DrivesOf(file[1]) : path = DrivePath(drive, file[1]) \o <<"\\">> \o file[2]

(* A path is that of one file.                                             *)
ASSUME PathsAssumption ==
  \A file, other \in Files : \A drive \in DrivesOf(file[1]) :
    FileAt(DrivePath(drive, file[1]) \o <<"\\">> \o file[2], other) => other = file

-----------------------------------------------------------------------------
Init ==
  /\ attributes = [file \in Files |-> {}]
  /\ changes = 0
  /\ device2drive = InitUtil
  /\ met = {}
  /\ handle = [t \in Threads |-> Closed]
  /\ queue = [t \in Threads |-> <<>>]
  /\ overflow = [t \in Threads |-> FALSE]
  /\ pc = [t \in Threads |-> "idle"]
  /\ buffer \in [Threads -> {ZeroedBuffer, UsedBuffer(EarlierAnswer)}]
  /\ buffer[emulator] = ZeroedBuffer
  /\ transferred = [t \in Threads |-> FALSE]
  /\ in = [t \in Threads |-> 1]
  /\ name = [t \in Threads |-> <<>>]
  /\ moved = [t \in Threads |-> FALSE]

-----------------------------------------------------------------------------
(* The file system, which notes each change for every watch of the         *)
(* directory, whether a call is waiting for it or not.                     *)

(* What has been told of a file before has now had other attributes.       *)
Noted(records, after) ==
  [i \in DOMAIN records |->
     LET r == records[i]
     IN IF r.of = NoFile THEN r
        ELSE [r EXCEPT !.had = @ \cup {after[r.of]}]]

Tell(d, news, after) ==
  /\ attributes' = after
  /\ changes < MaxChanges /\ changes' = changes + 1
  /\ LET told == {t \in Threads : handle[t] = d /\ ~overflow[t]}
         fits(t) == Len(queue[t]) + Len(news) <= BufferLength
     IN /\ queue' = [t \in Threads |->
                       IF t \notin told THEN Noted(queue[t], after)
                       ELSE IF fits(t) THEN Noted(queue[t], after) \o news ELSE <<>>]
        /\ overflow' = [t \in Threads |-> overflow[t] \/ (t \in told /\ ~fits(t))]
  /\ buffer' = [t \in Threads |-> Noted(buffer[t], after)]
  /\ UNCHANGED <<mapVars, handle, pc, transferred, in, name, moved>>

Write(file, attribs) ==
  /\ ~harmed
  /\ Tell(file[1], <<Record("changed", file, {attribs})>>, [attributes EXCEPT ![file] = attribs])

Delete(file) ==
  /\ ~harmed
  /\ attributes[file] # Gone
  /\ Tell(file[1], <<Record("removed", file, {Gone})>>, [attributes EXCEPT ![file] = Gone])

Rename(file, to) ==
  /\ ~harmed
  /\ file[1] = to[1] /\ attributes[file] # Gone /\ attributes[to] = Gone
  /\ Tell(file[1], <<Record("renamedOld", file, {Gone}), Record("renamedNew", to, {attributes[file]})>>,
          [attributes EXCEPT ![file] = Gone, ![to] = attributes[file]])

-----------------------------------------------------------------------------
(* The application. *)

(* A directory is opened, by a handle that may have been another's.        *)
Open(t, d) ==
  /\ ~harmed
  /\ handle[t] = Closed
  /\ handle' = [handle EXCEPT ![t] = d]
  /\ UNCHANGED <<fileVars, mapVars, kernelVars, walkVars, moved>>

(* The handle of a watch with an OVERLAPPED may be closed at any time: a   *)
(* request that the kernel still has is completed without a record.        *)
Close(t) ==
  /\ ~harmed
  /\ handle[t] # Closed
  /\ t = emulator \/ pc[t] = "idle"
  /\ handle' = [handle EXCEPT ![t] = Closed]
  /\ queue' = [queue EXCEPT ![t] = <<>>]
  /\ overflow' = [overflow EXCEPT ![t] = FALSE]
  /\ moved' = [moved EXCEPT ![t] = pc[t] # "idle"]
  /\ pc' = [pc EXCEPT ![t] = IF @ = "asked" THEN "told" ELSE @]
  /\ transferred' = [transferred EXCEPT ![t] = @ /\ pc[t] # "asked"]
  /\ UNCHANGED <<fileVars, mapVars, buffer, in, name>>

Call(t) ==
  /\ ~harmed
  /\ pc[t] = "idle" /\ handle[t] # Closed
  /\ pc' = [pc EXCEPT ![t] = "asked"]
  /\ UNCHANGED <<fileVars, mapVars, handle, kernelVars, buffer, transferred, in, name, moved>>

(* The answer is used.  The buffer is kept for the next call, of which the *)
(* emulation thread never sees the old contents.                           *)
Consume(t) ==
  /\ ~harmed
  /\ pc[t] = "told"
  /\ pc' = [pc EXCEPT ![t] = "idle"]
  /\ buffer' = [buffer EXCEPT ![t] =
       IF t = emulator THEN ZeroedBuffer ELSE Used(@)]
  /\ transferred' = [transferred EXCEPT ![t] = FALSE]
  /\ moved' = [moved EXCEPT ![t] = FALSE]
  /\ UNCHANGED <<fileVars, mapVars, handle, kernelVars, in, name>>

-----------------------------------------------------------------------------
(* The kernel answers with what it has, and without a record if that was   *)
(* too much for the buffer, which then is left as it was.  The emulation   *)
(* thread walks over an answer of more than 0 bytes, the hook itself over  *)
(* any (Hook.cpp:37, 329).                                                 *)
Complete(t) ==
  /\ ~harmed
  /\ pc[t] = "asked" /\ (queue[t] # <<>> \/ overflow[t])
  /\ pc' = [pc EXCEPT ![t] = IF overflow[t] /\ t = emulator THEN "told" ELSE "walk"]
  /\ buffer' = [buffer EXCEPT ![t] = IF overflow[t] THEN @ ELSE queue[t]]
  /\ transferred' = [transferred EXCEPT ![t] = ~overflow[t]]
  /\ in' = [in EXCEPT ![t] = 1]
  /\ queue' = [queue EXCEPT ![t] = <<>>]
  /\ overflow' = [overflow EXCEPT ![t] = FALSE]
  /\ UNCHANGED <<fileVars, mapVars, handle, name, moved>>

-----------------------------------------------------------------------------
(* FilterNotifyInformation, by the emulation thread or within the hook.    *)

At(t, part) == ~harmed /\ pc[t] = part
Goto(t, part) == pc' = [pc EXCEPT ![t] = part]
walkUnchanged == <<fileVars, handle, kernelVars, transferred, moved>>

(* Mutants: the walk goes on behind the last record; it stands still where *)
(* it should go on.                                                        *)
NextEntry_OneMore(t) ==
  /\ name' = [name EXCEPT ![t] = <<>>]
  /\ IF in[t] > Len(buffer[t])
     THEN Goto(t, "told") /\ in' = [in EXCEPT ![t] = 1]
     ELSE Goto(t, "walk") /\ in' = [in EXCEPT ![t] = @ + 1]
NextEntry_Stands(t) ==
  /\ name' = [name EXCEPT ![t] = <<>>]
  /\ Goto(t, IF in[t] = Len(buffer[t]) THEN "told" ELSE "walk")
  /\ UNCHANGED in
NextEntry(t) ==
  /\ name' = [name EXCEPT ![t] = <<>>]
  /\ IF in[t] = Len(buffer[t])
     THEN Goto(t, "told") /\ in' = [in EXCEPT ![t] = 1]
     ELSE Goto(t, "walk") /\ in' = [in EXCEPT ![t] = @ + 1]

(* A removed file is passed on as it is; for any other record the handle   *)
(* is looked up again, as the directory that it is by now.                 *)
Query(t) ==
  /\ At(t, "walk")
  /\ IF buffer[t][in[t]].action = "removed" \/ handle[t] = Closed
     THEN NextEntry(t)
     ELSE Goto(t, "lookup") /\ name' = [name EXCEPT ![t] = handle[t]] /\ UNCHANGED in
  /\ UNCHANGED <<walkUnchanged, mapVars, buffer>>

(* The use of the map that t makes, and the insertions that it meets: for  *)
(* which object's name each is.                                            *)
Use(t) == [thread |-> t, part |-> pc[t], object |-> name[t]]
Meets(t) ==
  LET inserting == {u \in Threads \ {t} : pc[u] = "insert"}
  IN IF inserting = {} THEN {} ELSE {Use(u) : u \in inserting \cup {t}}

(* device2drive[device]: no lock is held, and a device that is not found   *)
(* is inserted.                                                            *)
Lookup(t) ==
  /\ At(t, "lookup")
  /\ met' = Meets(t)
  /\ LET device == Device(name[t])
         drive == device2drive[device]
     IN IF device \notin DOMAIN device2drive
        THEN Goto(t, "insert") /\ UNCHANGED <<name, in>>
        ELSE IF drive = NoDrive THEN NextEntry(t)
        ELSE /\ Goto(t, "judge")
             /\ name' = [name EXCEPT ![t] = DrivePath(drive, @)]
             /\ UNCHANGED in
  /\ UNCHANGED <<walkUnchanged, device2drive, buffer>>

Insert(t) ==
  /\ At(t, "insert")
  /\ met' = Meets(t)
  /\ device2drive' = [device \in DOMAIN device2drive \cup {Device(name[t])} |->
       IF device \in DOMAIN device2drive THEN device2drive[device] ELSE NoDrive]
  /\ IF harmed' THEN UNCHANGED <<pc, in, name>> ELSE NextEntry(t)
  /\ UNCHANGED <<walkUnchanged, buffer>>

(* GetFileAttributesW: of a path without a file, INVALID_FILE_ATTRIBUTES,  *)
(* in which every bit is set.                                              *)
GetFileAttributesW(path) ==
  IF \E file \in Files : FileAt(path, file) /\ attributes[file] # Gone
  THEN attributes[CHOOSE file \in Files : FileAt(path, file)]
  ELSE Flags

Filtered(path, attribs) == Filter(filterExpr, filterExcpExpr, path, attribs)

(* in->FileName[0] = '@'                                                   *)
Hidden(fileName) == IF fileName = <<>> THEN <<>> ELSE <<"@">> \o Tail(fileName)

(* Mutants: the record's own name is asked for, without its directory; the *)
(* attributes are not looked up.                                           *)
Judge_NameAlone(t) ==
  /\ At(t, "judge")
  /\ LET path == buffer[t][in[t]].name
     IN buffer' = IF Filtered(path, GetFileAttributesW(path))
                  THEN [buffer EXCEPT ![t][in[t]].name = Hidden(@)] ELSE buffer
  /\ NextEntry(t)
  /\ UNCHANGED <<walkUnchanged, mapVars>>
Judge_NoAttributes(t) ==
  /\ At(t, "judge")
  /\ LET path == name[t] \o <<"\\">> \o buffer[t][in[t]].name
     IN buffer' = IF Filtered(path, Flags)
                  THEN [buffer EXCEPT ![t][in[t]].name = Hidden(@)] ELSE buffer
  /\ NextEntry(t)
  /\ UNCHANGED <<walkUnchanged, mapVars>>
Judge(t) ==
  /\ At(t, "judge")
  /\ LET path == name[t] \o <<"\\">> \o buffer[t][in[t]].name
     IN buffer' = IF Filtered(path, GetFileAttributesW(path))
                  THEN [buffer EXCEPT ![t][in[t]].name = Hidden(@)] ELSE buffer
  /\ NextEntry(t)
  /\ UNCHANGED <<walkUnchanged, mapVars>>

FilterNotifyInformation(t) == Query(t) \/ Lookup(t) \/ Insert(t) \/ Judge(t)

-----------------------------------------------------------------------------
Next ==
  \/ \E file \in Files :
       \/ \E attribs \in SUBSET Flags : Write(file, attribs)
       \/ Delete(file)
       \/ \E to \in Files \ {file} : Rename(file, to)
  \/ \E t \in Threads :
       \/ \E d \in Directories : Open(t, d)
       \/ Close(t) \/ Call(t) \/ Consume(t) \/ Complete(t)
       \/ FilterNotifyInformation(t)

Spec == Init /\ [][Next]_vars

(* The scheduler runs every thread that walks over a buffer.               *)
FairSpec == Spec /\ \A t \in Threads : WF_vars(FilterNotifyInformation(t))

-----------------------------------------------------------------------------
(* Properties. *)

TypeOK ==
  /\ attributes \in [Files -> (SUBSET Flags) \cup {Gone}]
  /\ changes \in 0 .. MaxChanges
  /\ \A key \in DOMAIN InitUtil : device2drive[key] = InitUtil[key]
  /\ handle \in [Threads -> Directories \cup {Closed}]
  /\ \A t \in Threads :
       /\ Len(queue[t]) <= BufferLength
       /\ buffer[t] # <<>> /\ Len(buffer[t]) <= BufferLength
       /\ in[t] \in 1 .. BufferLength
       /\ pc[t] \in {"walk", "lookup", "insert", "judge"} => in[t] \in DOMAIN buffer[t]
  /\ pc \in [Threads -> {"idle", "asked", "walk", "lookup", "insert", "judge", "told"}]

(* A directory whose device was a drive when the DLL was loaded.           *)
Known(d) == Device(d) \in DOMAIN InitUtil

PathOf(r) == DrivePath(InitUtil[Device(r.of[1])], r.of[1]) \o <<"\\">> \o r.of[2]

(* The attributes a file may have been told with: a file that is gone may  *)
(* have had any.                                                           *)
Possible(r) == IF Gone \in r.had THEN SUBSET Flags ELSE r.had

Answered(t) ==
  IF pc[t] = "told" /\ transferred[t] /\ ~moved[t] /\ ~harmed
  THEN {buffer[t][i] : i \in DOMAIN buffer[t]} ELSE {}

(* A change of a file that the rules filter, with every attribute it has   *)
(* had since, is not told under its name, by the emulation thread or by    *)
(* the hook (Hook.cpp:294).  What the code does tell is excepted: that a   *)
(* file was removed; names that begin with the character they are hidden   *)
(* by; directories on no drive (Util.cpp:133); a handle that was closed    *)
(* before the walk was over.                                               *)
HiddenNotTold ==
  \A t \in Threads : \A r \in Answered(t) :
    /\ r.action # "removed" /\ Known(r.of[1]) /\ Head(r.of[2]) # "@"
    /\ \A attribs \in Possible(r) : Filtered(PathOf(r), attribs)
    => r.name # r.of[2]

(* A change of a file that no rule filters, with any attributes it has had *)
(* since, is told under its name: neither a change of attributes during    *)
(* the walk nor another record of the same buffer hides it.                *)
VisibleTold ==
  \A t \in Threads : \A r \in Answered(t) :
    /\ Known(r.of[1]) => \A attribs \in Possible(r) : ~Filtered(PathOf(r), attribs)
    => r.name = r.of[2]

(* device2drive is used by several threads without a lock: where an        *)
(* insertion met another thread's use of the map, every thread that was    *)
(* inserting had asked for a directory that is on no drive (Util.cpp:132). *)
(* Threads that only ask for directories on drives never harm the map.     *)
MapUnharmed ==
  harmed =>
    /\ \E one, other \in met : one.thread # other.thread /\ one.part = "insert"
    /\ \A one \in met : one.part = "insert" => DrivesOf(one.object) = {}

(* Each answer is given: the walk ends, also over a buffer whose records   *)
(* are an earlier answer's (Hook.cpp:330).                                 *)
WalksEnd == \A t \in Threads : pc[t] = "walk" ~> (pc[t] = "told" \/ harmed)

=============================================================================
