------------------------- MODULE ChangeFilterProofs -------------------------
(***************************************************************************)
(* Proofs about ChangeFilter for any threads, drives, directories, files,  *)
(* rules and buffers.                                                      *)
(***************************************************************************)
EXTENDS ChangeFilter, SequenceTheorems, WellFoundedInduction, TLAPS

-----------------------------------------------------------------------------
(* The inductive invariant.                                                *)

Walking == {"walk", "lookup", "insert", "judge"}

Attribs == (SUBSET Flags) \cup {Gone}
Names == Seq(DOMAIN Upper \cup {"@"})
Records == [action : {"none", "changed", "removed", "renamedOld", "renamedNew"},
            name : Names, of : Files \cup {NoFile}, had : SUBSET Attribs]

RecordsOK ==
  /\ queue \in [Threads -> Seq(Records)] /\ buffer \in [Threads -> Seq(Records)]
  /\ transferred \in [Threads -> BOOLEAN] /\ moved \in [Threads -> BOOLEAN]
  /\ overflow \in [Threads -> BOOLEAN]
  /\ in \in [Threads -> Nat] /\ name = [t \in Threads |-> name[t]]

(* The map has each drive, and no drive under another device's name.       *)
MapInv ==
  /\ DOMAIN InitUtil \subseteq DOMAIN device2drive
  /\ \A key \in DOMAIN device2drive :
       device2drive[key] = IF key \in DOMAIN InitUtil THEN InitUtil[key] ELSE NoDrive

(* Who inserts does so for a directory on no drive.                        *)
HarmInv ==
  /\ \A t \in Threads : pc[t] \in {"lookup", "insert"} => name[t] \in Directories
  /\ \A t \in Threads : pc[t] = "insert" => DrivesOf(name[t]) = {}
  /\ MapUnharmed

(* A record of a change has had the attributes that its file has.          *)
Genuine(r, attribs) == r.of \in Files /\ attribs[r.of] \in r.had
Untouched(r) == r.name = r.of[2]

QueueInv ==
  \A t \in Threads : \A i \in 1 .. Len(queue[t]) :
    Genuine(queue[t][i], attributes) /\ Untouched(queue[t][i]) /\ queue[t][i].of[1] = handle[t]

(* What HiddenNotTold and VisibleTold say of a record.                     *)
Good(r) ==
  /\ /\ r.action # "removed" /\ Known(r.of[1]) /\ Head(r.of[2]) # "@"
     /\ \A attribs \in Possible(r) : Filtered(PathOf(r), attribs)
     => r.name # r.of[2]
  /\ /\ Known(r.of[1]) => \A attribs \in Possible(r) : ~Filtered(PathOf(r), attribs)
     => r.name = r.of[2]

(* A walk over an answer of a handle that stays open: the records behind   *)
(* it are as they should be, the ones before it as they were given.        *)
Sound(t) == transferred[t] /\ ~moved[t]

Watched(t) ==
  /\ pc[t] \in {"idle", "asked"} => ~transferred[t]
  /\ pc[t] # "idle" /\ ~moved[t] => handle[t] \in Directories
  /\ Sound(t) =>
       /\ \A i \in 1 .. Len(buffer[t]) :
            Genuine(buffer[t][i], attributes) /\ buffer[t][i].of[1] = handle[t]
       /\ pc[t] \in Walking =>
            /\ \A i \in 1 .. in[t] - 1 : Good(buffer[t][i])
            /\ \A i \in in[t] .. Len(buffer[t]) : Untouched(buffer[t][i])
       /\ pc[t] = "told" => \A i \in 1 .. Len(buffer[t]) : Good(buffer[t][i])
       /\ pc[t] \in {"lookup", "insert"} => name[t] = handle[t]
       /\ pc[t] = "insert" => ~Known(handle[t])
       /\ pc[t] = "judge" => /\ Known(handle[t])
                             /\ name[t] = DrivePath(InitUtil[Device(handle[t])], handle[t])

WalkInv == \A t \in Threads : Watched(t)

IInv == TypeOK /\ RecordsOK /\ MapInv /\ HarmInv /\ (harmed \/ (QueueInv /\ WalkInv))

-----------------------------------------------------------------------------
(* Drives.                                                                 *)

(* The key of a drive in the map.                                          *)
Key(i) == LogicalDrives[i].device \o <<"\\">>

(* One of the drives of a device is the last.                              *)
LEMMA LastDrive ==
  ASSUME NEW S \in SUBSET (1 .. Len(LogicalDrives)), S # {}
  PROVE  \E i \in S : \A j \in S : j <= i
<1>1. Len(LogicalDrives) \in Nat
  BY DrivesAssumption
<1> DEFINE n == Len(LogicalDrives)
           left == {k \in 0 .. n : n - k \in S}
<1>2. left \subseteq Nat /\ left # {}
  <2>1. PICK i \in S : TRUE
    OBVIOUS
  <2>2. n - i \in 0 .. n /\ n - (n - i) \in S
    BY <1>1, <2>1
  <2>3. n - i \in left
    BY <2>2
  <2>4. 0 .. n \subseteq Nat
    BY <1>1
  <2> QED
    BY <2>3, <2>4, Zenon
<1>3. \E k \in left : \A m \in left : ~(<<m, k>> \in OpToRel(<, Nat))
  BY <1>2, NatLessThanWellFounded, WFMin
<1>4. PICK k \in left : \A m \in left : ~(m < k)
  BY <1>2, <1>3 DEF OpToRel
<1>5. \A j \in S : n - j \in left
  BY <1>1
<1>6. k \in Nat /\ n - k \in S
  BY <1>1, <1>4
<1> HIDE DEF left
<1>7. ASSUME NEW j \in S PROVE j <= n - k
  <2>1. n - j \in left /\ j \in Nat /\ j <= n
    BY <1>1, <1>5
  <2>2. ~(n - j < k)
    BY <1>4, <2>1
  <2> QED
    BY <1>1, <1>6, <2>1, <2>2
<1> QED
  BY <1>6, <1>7

LEMMA DriveKeys ==
  ASSUME NEW key \in DOMAIN InitUtil
  PROVE  /\ \E i \in DOMAIN LogicalDrives : Key(i) = key /\ InitUtil[key] = LogicalDrives[i].drive
         /\ InitUtil[key] # NoDrive
<1> DEFINE S == {i \in DOMAIN LogicalDrives : Key(i) = key}
<1>1. S \in SUBSET (1 .. Len(LogicalDrives)) /\ S # {}
  BY DrivesAssumption DEF InitUtil, Key
<1>2. \E i \in S : \A j \in S : j <= i
  BY <1>1, LastDrive
<1>3. \E i \in DOMAIN LogicalDrives :
        Key(i) = key /\ \A j \in DOMAIN LogicalDrives : Key(j) = key => j <= i
  BY <1>2
<1> DEFINE last == CHOOSE i \in DOMAIN LogicalDrives :
             Key(i) = key /\ \A j \in DOMAIN LogicalDrives : Key(j) = key => j <= i
<1>4. last \in DOMAIN LogicalDrives /\ Key(last) = key
  BY <1>3
<1>5. InitUtil[key] = LogicalDrives[last].drive
  BY DEF InitUtil, Key
<1> HIDE DEF last
<1> QED
  BY <1>4, <1>5, DrivesAssumption

(* A directory is on a drive exactly when it is known.                     *)
LEMMA DriveOf ==
  ASSUME NEW d
  PROVE  /\ Known(d) <=> DrivesOf(d) # {}
         /\ Known(d) => InitUtil[Device(d)] \in DrivesOf(d)
<1>1. DOMAIN InitUtil = {Key(i) : i \in DOMAIN LogicalDrives}
  BY DEF InitUtil, Key
<1>2. DrivesOf(d) = {LogicalDrives[i].drive : i \in {j \in DOMAIN LogicalDrives : Key(j) = Device(d)}}
  BY DEF DrivesOf, Key
<1>3. Known(d) <=> DrivesOf(d) # {}
  BY <1>1, <1>2 DEF Known
<1>4. ASSUME Known(d) PROVE InitUtil[Device(d)] \in DrivesOf(d)
  <2>1. \E i \in DOMAIN LogicalDrives :
          Key(i) = Device(d) /\ InitUtil[Device(d)] = LogicalDrives[i].drive
    BY <1>4, DriveKeys DEF Known
  <2> QED
    BY <1>2, <2>1
<1> QED
  BY <1>3, <1>4

-----------------------------------------------------------------------------
(* Records.                                                                *)

LEMMA FileFields ==
  ASSUME NEW file \in Files
  PROVE  file[1] \in Directories /\ file[2] \in Seq(DOMAIN Upper) /\ file[2] # <<>> /\ file # NoFile
  BY FilesAssumption DEF NoFile

(* A name that is hidden is another one.                                   *)
LEMMA HiddenDiffers ==
  ASSUME NEW fileName \in Names, fileName # <<>>, Head(fileName) # "@"
  PROVE  Hidden(fileName) # fileName
<1>1. Tail(fileName) \in Names /\ fileName[1] = Head(fileName)
  BY HeadTailProperties DEF Names
<1>2. (<<"@">> \o Tail(fileName))[1] = "@"
  BY <1>1 DEF Names
<1> QED
  BY <1>1, <1>2 DEF Hidden

LEMMA HiddenName == \A fileName \in Names : Hidden(fileName) \in Names
<1> SUFFICES ASSUME NEW fileName \in Names PROVE Hidden(fileName) \in Names
  OBVIOUS
<1>1. fileName # <<>> => Tail(fileName) \in Names
  BY HeadTailProperties DEF Names
<1>2. ASSUME fileName # <<>> PROVE <<"@">> \o Tail(fileName) \in Names
  <2>1. <<"@">> \in Names
    BY DEF Names
  <2> QED
    BY <1>1, <1>2, <2>1, ConcatProperties DEF Names
<1> QED
  BY <1>2 DEF Hidden, Names

(* What is told of a file may be told of it later.                         *)
LEMMA PossibleGrows ==
  ASSUME NEW r, NEW s, r.had \subseteq s.had, s.had \subseteq Attribs
  PROVE  Possible(r) \subseteq Possible(s)
  BY DEF Possible, Attribs

LEMMA GoodStays ==
  ASSUME NEW r, NEW s, Good(r), s.action = r.action, s.name = r.name, s.of = r.of,
         r.had \subseteq s.had, s.had \subseteq Attribs
  PROVE  Good(s)
<1>1. Possible(r) \subseteq Possible(s)
  BY PossibleGrows
<1>2. PathOf(s) = PathOf(r)
  BY DEF PathOf
<1> QED
  BY <1>1, <1>2 DEF Good

(* The attributes that Judge finds are among those the file has had.       *)
LEMMA AttributesFound ==
  ASSUME NEW r \in Records, Genuine(r, attributes), Known(r.of[1]), attributes \in [Files -> Attribs]
  PROVE  GetFileAttributesW(PathOf(r)) \in Possible(r)
<1> DEFINE path == PathOf(r)
           drive == InitUtil[Device(r.of[1])]
<1>1. r.of \in Files /\ drive \in DrivesOf(r.of[1])
  BY DriveOf DEF Genuine
<1>2. path = DrivePath(drive, r.of[1]) \o <<"\\">> \o r.of[2]
  BY DEF PathOf
<1>3. FileAt(path, r.of)
  BY <1>1, <1>2 DEF FileAt
<1>4. \A file \in Files : FileAt(path, file) => file = r.of
  BY <1>1, <1>2, PathsAssumption
<1> HIDE DEF path, drive
<1>5. (CHOOSE file \in Files : FileAt(path, file)) = r.of
  BY <1>1, <1>3, <1>4
<1>6. CASE attributes[r.of] # Gone
  <2>1. GetFileAttributesW(path) = attributes[r.of]
    BY <1>1, <1>3, <1>5, <1>6 DEF GetFileAttributesW
  <2> QED
    BY <1>1, <1>6, <2>1 DEF Possible, Genuine, Attribs, path
<1>7. CASE attributes[r.of] = Gone
  <2>1. GetFileAttributesW(path) = Flags
    BY <1>4, <1>7 DEF GetFileAttributesW
  <2> QED
    BY <1>7, <2>1 DEF Possible, Genuine, path
<1> QED
  BY <1>6, <1>7

(* The record that Judge leaves is as it should be.                        *)
LEMMA JudgedGood ==
  ASSUME NEW r \in Records, Genuine(r, attributes), Untouched(r), Known(r.of[1]),
         attributes \in [Files -> Attribs],
         NEW s, s = IF Filtered(PathOf(r), GetFileAttributesW(PathOf(r)))
                    THEN [r EXCEPT !.name = Hidden(r.name)] ELSE r
  PROVE  Good(s) /\ s \in Records /\ s.of = r.of /\ s.had = r.had
<1>1. GetFileAttributesW(PathOf(r)) \in Possible(r)
  BY AttributesFound
<1>2. r.name = r.of[2] /\ r.name # <<>> /\ r.name \in Names
  BY FileFields DEF Genuine, Untouched, Records
<1>3. Head(r.name) # "@" => Hidden(r.name) # r.name
  BY <1>2, HiddenDiffers
<1>4. s \in Records /\ s.of = r.of /\ s.had = r.had /\ s.action = r.action
      /\ s.name = IF Filtered(PathOf(r), GetFileAttributesW(PathOf(r))) THEN Hidden(r.name) ELSE r.name
  BY HiddenName DEF Records
<1>5. PathOf(s) = PathOf(r) /\ Possible(s) = Possible(r)
  BY <1>4 DEF PathOf, Possible
<1> QED
  BY <1>1, <1>2, <1>3, <1>4, <1>5 DEF Good

(* One that is passed over is, too.                                        *)
LEMMA PassedGood ==
  ASSUME NEW r, Untouched(r), r.action = "removed" \/ ~Known(r.of[1])
  PROVE  Good(r)
  BY DEF Good, Untouched

-----------------------------------------------------------------------------
(* The types of what the steps write.                                      *)

LEMMA NewRecord ==
  ASSUME NEW file \in Files, NEW action \in {"changed", "removed", "renamedOld", "renamedNew"},
         NEW attribs \in Attribs
  PROVE  /\ Record(action, file, {attribs}) \in Records
         /\ Record(action, file, {attribs}).of = file
         /\ Record(action, file, {attribs}).had = {attribs}
         /\ Untouched(Record(action, file, {attribs}))
<1>1. file[2] \in Names /\ file # NoFile
  BY FileFields DEF Names
<1> QED
  BY <1>1 DEF Record, Records, Untouched

LEMMA FunctionSeq ==
  ASSUME NEW S, NEW n \in Nat, NEW f \in [1 .. n -> S]
  PROVE  f \in Seq(S) /\ Len(f) = n
<1>1. f \in Seq(S)
  BY SeqDef
<1> QED
  BY <1>1, LenProperties

LEMMA Buffers ==
  /\ ZeroedBuffer \in Seq(Records) /\ Len(ZeroedBuffer) = 1
  /\ UsedBuffer(EarlierAnswer) \in Seq(Records)
  /\ Len(UsedBuffer(EarlierAnswer)) = Len(EarlierAnswer)
  /\ \A records \in Seq(Records) :
       Used(records) \in Seq(Records) /\ Len(Used(records)) = Len(records)
<1>1. ASSUME NEW records \in Seq(Records)
      PROVE  Used(records) \in Seq(Records) /\ Len(Used(records)) = Len(records)
  <2>1. /\ Used(records) = [i \in 1 .. Len(records) |-> [records[i] EXCEPT !.of = NoFile, !.had = {}]]
        /\ Len(records) \in Nat
    BY DEF Used
  <2>2. \A i \in 1 .. Len(records) : [records[i] EXCEPT !.of = NoFile, !.had = {}] \in Records
    <3> SUFFICES ASSUME NEW i \in 1 .. Len(records)
                 PROVE  [records[i] EXCEPT !.of = NoFile, !.had = {}] \in Records
      OBVIOUS
    <3>1. records[i] \in Records
      OBVIOUS
    <3> QED
      BY <3>1 DEF Records
  <2>3. Used(records) \in [1 .. Len(records) -> Records]
    BY <2>1, <2>2
  <2> QED
    BY <2>1, <2>3, FunctionSeq
<1>2. Record("none", NoFile, {}) \in Records
  BY EmptySeq DEF Record, Records, Names
<1>3. ZeroedBuffer \in Seq(Records) /\ Len(ZeroedBuffer) = 1
  BY <1>2 DEF ZeroedBuffer
<1> DEFINE told == [i \in 1 .. Len(EarlierAnswer) |-> Record("changed", EarlierAnswer[i], {})]
<1>4. told \in Seq(Records) /\ Len(told) = Len(EarlierAnswer)
  <2>1. Len(EarlierAnswer) \in Nat /\ \A i \in 1 .. Len(EarlierAnswer) : EarlierAnswer[i] \in Files
    BY EarlierAssumption
  <2>2. \A i \in 1 .. Len(EarlierAnswer) : Record("changed", EarlierAnswer[i], {}) \in Records
    BY <2>1, FileFields DEF Record, Records, Names
  <2> QED
    BY <2>1, <2>2, IsASeq
<1>5. UsedBuffer(EarlierAnswer) = Used(told)
  <2>1. DOMAIN EarlierAnswer = 1 .. Len(EarlierAnswer)
    BY EarlierAssumption
  <2> QED
    BY <2>1 DEF UsedBuffer
<1> QED
  BY <1>1, <1>3, <1>4, <1>5

(* A record after a change, with the attributes its file has now.          *)
NotedRecord(r, after) == IF r.of = NoFile THEN r ELSE [r EXCEPT !.had = @ \cup {after[r.of]}]

LEMMA NotedRecords ==
  ASSUME NEW records \in Seq(Records), NEW after \in [Files -> Attribs]
  PROVE  /\ Noted(records, after) \in Seq(Records)
         /\ Len(Noted(records, after)) = Len(records)
         /\ \A i \in 1 .. Len(records) : Noted(records, after)[i] = NotedRecord(records[i], after)
<1>1. /\ Noted(records, after) = [i \in 1 .. Len(records) |-> NotedRecord(records[i], after)]
      /\ Len(records) \in Nat
  BY DEF Noted, NotedRecord
<1>2. ASSUME NEW i \in 1 .. Len(records) PROVE NotedRecord(records[i], after) \in Records
  <2>1. records[i] \in Records
    OBVIOUS
  <2> QED
    BY <2>1 DEF NotedRecord, Records
<1>3. Noted(records, after) \in [1 .. Len(records) -> Records]
  BY <1>1, <1>2
<1> QED
  BY <1>1, <1>3, FunctionSeq

LEMMA NotedFields ==
  ASSUME NEW r \in Records, NEW after \in [Files -> Attribs]
  PROVE  /\ NotedRecord(r, after) \in Records
         /\ NotedRecord(r, after).action = r.action
         /\ NotedRecord(r, after).name = r.name
         /\ NotedRecord(r, after).of = r.of
         /\ r.had \subseteq NotedRecord(r, after).had
         /\ NotedRecord(r, after).had \subseteq Attribs
         /\ r.of \in Files => after[r.of] \in NotedRecord(r, after).had
<1>1. NotedRecord(r, after) \in Records
  BY DEF NotedRecord, Records
<1> QED
  BY <1>1, FileFields DEF NotedRecord, Records

-----------------------------------------------------------------------------
(* The steps.                                                              *)

LEMMA Longer ==
  \A s, u \in Seq(Records) : s \o u \in Seq(Records) /\ Len(s \o u) = Len(s) + Len(u)
  BY ConcatProperties

(* What the queue and the buffer are after a change.                       *)
LEMMA Told ==
  ASSUME TypeOK, RecordsOK, NEW d \in Directories, NEW news \in Seq(Records),
         NEW after \in [Files -> Attribs], Tell(d, news, after)
  PROVE  /\ queue' \in [Threads -> Seq(Records)] /\ buffer' \in [Threads -> Seq(Records)]
         /\ overflow' \in [Threads -> BOOLEAN]
         /\ \A t \in Threads :
              /\ Len(queue'[t]) <= BufferLength
              /\ buffer'[t] = Noted(buffer[t], after)
              /\ \/ queue'[t] = Noted(queue[t], after)
                 \/ handle[t] = d /\ queue'[t] = Noted(queue[t], after) \o news
                 \/ queue'[t] = <<>>
<1> DEFINE told == {t \in Threads : handle[t] = d /\ ~overflow[t]}
           fits(t) == Len(queue[t]) + Len(news) <= BufferLength
<1>1. /\ queue' = [t \in Threads |->
                     IF t \notin told THEN Noted(queue[t], after)
                     ELSE IF fits(t) THEN Noted(queue[t], after) \o news ELSE <<>>]
      /\ overflow' = [t \in Threads |-> overflow[t] \/ (t \in told /\ ~fits(t))]
      /\ buffer' = [t \in Threads |-> Noted(buffer[t], after)]
  BY DEF Tell
<1>2. \A t \in Threads : /\ Noted(queue[t], after) \in Seq(Records)
                         /\ Len(Noted(queue[t], after)) = Len(queue[t])
                         /\ Noted(buffer[t], after) \in Seq(Records)
                         /\ Len(queue[t]) \in Nat
  BY NotedRecords DEF RecordsOK
<1>3. \A t \in Threads : /\ Noted(queue[t], after) \o news \in Seq(Records)
                         /\ Len(Noted(queue[t], after) \o news) = Len(queue[t]) + Len(news)
  <2> SUFFICES ASSUME NEW t \in Threads
               PROVE  /\ Noted(queue[t], after) \o news \in Seq(Records)
                      /\ Len(Noted(queue[t], after) \o news) = Len(queue[t]) + Len(news)
    OBVIOUS
  <2>1. Noted(queue[t], after) \in Seq(Records) /\ Len(Noted(queue[t], after)) = Len(queue[t])
    BY <1>2
  <2>2. /\ Noted(queue[t], after) \o news \in Seq(Records)
        /\ Len(Noted(queue[t], after) \o news) = Len(Noted(queue[t], after)) + Len(news)
    BY <2>1, Longer, Zenon
  <2> QED
    BY <2>1, <2>2, Zenon
<1>4. BufferLength \in Nat /\ \A t \in Threads : Len(queue[t]) <= BufferLength
  BY BoundsAssumption DEF TypeOK
<1>5. queue' \in [Threads -> Seq(Records)]
  BY <1>1, <1>2, <1>3, EmptySeq
<1>6. ASSUME NEW t \in Threads PROVE Len(queue'[t]) <= BufferLength
  BY <1>1, <1>2, <1>3, <1>4, EmptySeq
<1>7. overflow' \in [Threads -> BOOLEAN]
  BY <1>1 DEF RecordsOK
<1> QED
  BY <1>1, <1>2, <1>5, <1>6, <1>7

(* The three ways a file changes.                                          *)
Changes(d, news, after) ==
  /\ d \in Directories /\ news \in Seq(Records) /\ after \in [Files -> Attribs]
  /\ Tell(d, news, after) /\ ~harmed
  /\ \A i \in 1 .. Len(news) :
       /\ news[i].of \in Files /\ news[i].of[1] = d /\ Untouched(news[i])
       /\ after[news[i].of] \in news[i].had

LEMMA FileChanges ==
  ASSUME TypeOK,
         \E file \in Files : \/ \E attribs \in SUBSET Flags : Write(file, attribs)
                             \/ Delete(file)
                             \/ \E to \in Files \ {file} : Rename(file, to)
  PROVE  \E d, news, after : Changes(d, news, after)
<1>a. attributes \in [Files -> Attribs]
  BY DEF TypeOK, Attribs
<1>1. ASSUME NEW file \in Files, NEW attribs \in SUBSET Flags, Write(file, attribs)
      PROVE  \E d, news, after : Changes(d, news, after)
  <2> DEFINE r == Record("changed", file, {attribs})
             after == [attributes EXCEPT ![file] = attribs]
  <2>1. r \in Records /\ r.of = file /\ r.had = {attribs} /\ Untouched(r)
    BY NewRecord DEF Attribs
  <2>2. after \in [Files -> Attribs] /\ after[file] = attribs
    BY <1>a DEF Attribs
  <2>3. ~harmed /\ Tell(file[1], <<r>>, after)
    BY <1>1 DEF Write
  <2> HIDE DEF r, after
  <2>4. <<r>> \in Seq(Records) /\ Len(<<r>>) = 1 /\ <<r>>[1] = r
    BY <2>1
  <2>5. Changes(file[1], <<r>>, after)
    BY <2>1, <2>2, <2>3, <2>4, FileFields DEF Changes
  <2> QED
    BY <2>5
<1>2. ASSUME NEW file \in Files, Delete(file)
      PROVE  \E d, news, after : Changes(d, news, after)
  <2> DEFINE r == Record("removed", file, {Gone})
             after == [attributes EXCEPT ![file] = Gone]
  <2>1. r \in Records /\ r.of = file /\ r.had = {Gone} /\ Untouched(r)
    BY NewRecord DEF Attribs
  <2>2. after \in [Files -> Attribs] /\ after[file] = Gone
    BY <1>a DEF Attribs
  <2>3. ~harmed /\ Tell(file[1], <<r>>, after)
    BY <1>2 DEF Delete
  <2> HIDE DEF r, after
  <2>4. <<r>> \in Seq(Records) /\ Len(<<r>>) = 1 /\ <<r>>[1] = r
    BY <2>1
  <2>5. Changes(file[1], <<r>>, after)
    BY <2>1, <2>2, <2>3, <2>4, FileFields DEF Changes
  <2> QED
    BY <2>5
<1>3. ASSUME NEW file \in Files, NEW to \in Files \ {file}, Rename(file, to)
      PROVE  \E d, news, after : Changes(d, news, after)
  <2> DEFINE r == Record("renamedOld", file, {Gone})
             s == Record("renamedNew", to, {attributes[file]})
             after == [attributes EXCEPT ![file] = Gone, ![to] = attributes[file]]
  <2>1. /\ r \in Records /\ r.of = file /\ r.had = {Gone} /\ Untouched(r)
        /\ s \in Records /\ s.of = to /\ s.had = {attributes[file]} /\ Untouched(s)
    BY <1>a, NewRecord DEF Attribs
  <2>2. after \in [Files -> Attribs] /\ after[file] = Gone /\ after[to] = attributes[file]
    BY <1>a DEF Attribs
  <2>3. ~harmed /\ Tell(file[1], <<r, s>>, after) /\ file[1] = to[1]
    BY <1>3 DEF Rename
  <2> HIDE DEF r, s, after
  <2>4. <<r, s>> \in Seq(Records) /\ Len(<<r, s>>) = 2 /\ <<r, s>>[1] = r /\ <<r, s>>[2] = s
    BY <2>1
  <2>5. Changes(file[1], <<r, s>>, after)
    BY <2>1, <2>2, <2>3, <2>4, FileFields DEF Changes
  <2> QED
    BY <2>5
<1> QED
  BY <1>1, <1>2, <1>3

(* The steps of one watch leave the others.                                *)
LEMMA NextCases ==
  ASSUME TypeOK, [Next]_vars
  PROVE  \/ \E d, news, after : Changes(d, news, after)
         \/ \E t \in Threads :
              \/ \E d \in Directories : Open(t, d)
              \/ Close(t) \/ Call(t) \/ Consume(t) \/ Complete(t)
              \/ Query(t) \/ Lookup(t) \/ Insert(t) \/ Judge(t)
         \/ UNCHANGED vars
<1>1. CASE \E file \in Files : \/ \E attribs \in SUBSET Flags : Write(file, attribs)
                               \/ Delete(file)
                               \/ \E to \in Files \ {file} : Rename(file, to)
  BY <1>1, FileChanges
<1> QED
  BY <1>1 DEF Next, FilterNotifyInformation

(* Where the walk is.                                                      *)
LEMMA InBuffer ==
  ASSUME TypeOK, RecordsOK, NEW t \in Threads
  PROVE  /\ buffer[t] \in Seq(Records) /\ DOMAIN buffer[t] = 1 .. Len(buffer[t])
         /\ Len(buffer[t]) \in Nat /\ Len(buffer[t]) >= 1 /\ Len(buffer[t]) <= BufferLength
         /\ pc[t] \in Walking => in[t] \in 1 .. Len(buffer[t]) /\ buffer[t][in[t]] \in Records
<1>1. buffer[t] \in Seq(Records) /\ buffer[t] # <<>> /\ Len(buffer[t]) <= BufferLength
  BY DEF TypeOK, RecordsOK
<1>2. DOMAIN buffer[t] = 1 .. Len(buffer[t]) /\ Len(buffer[t]) \in Nat
  BY <1>1
<1>3. Len(buffer[t]) # 0
  BY <1>1, EmptySeq
<1>4. pc[t] \in Walking => in[t] \in 1 .. Len(buffer[t])
  BY <1>2 DEF TypeOK, Walking
<1>5. \A i \in 1 .. Len(buffer[t]) : buffer[t][i] \in Records
  BY <1>1
<1> QED
  BY <1>1, <1>2, <1>3, <1>4, <1>5

LEMMA Positions ==
  \A n \in Nat : \A i \in 1 .. n : 1 \in 1 .. n /\ (i # n => i + 1 \in 1 .. n)
  OBVIOUS

LEMMA NextEntryTypes ==
  ASSUME TypeOK, RecordsOK, NEW t \in Threads, pc[t] \in Walking, NextEntry(t)
  PROVE  /\ pc' = [pc EXCEPT ![t] = pc'[t]] /\ in' = [in EXCEPT ![t] = in'[t]]
         /\ name' = [name EXCEPT ![t] = <<>>]
         /\ pc'[t] \in {"told", "walk"} /\ in'[t] \in 1 .. Len(buffer[t])
         /\ pc'[t] = "told" => in[t] = Len(buffer[t])
         /\ pc'[t] = "walk" => in'[t] = in[t] + 1
<1>1. /\ in[t] \in 1 .. Len(buffer[t]) /\ 1 \in 1 .. Len(buffer[t])
      /\ in[t] # Len(buffer[t]) => in[t] + 1 \in 1 .. Len(buffer[t])
  BY InBuffer, Positions
<1>0. name' = [name EXCEPT ![t] = <<>>]
  BY DEF NextEntry
<1>2. DOMAIN pc = Threads /\ DOMAIN in = Threads /\ pc = [u \in Threads |-> pc[u]]
      /\ in = [u \in Threads |-> in[u]]
  BY DEF TypeOK, RecordsOK
<1>3. CASE in[t] = Len(buffer[t])
  <2>1. pc' = [pc EXCEPT ![t] = "told"] /\ in' = [in EXCEPT ![t] = 1]
    BY <1>3 DEF NextEntry, Goto
  <2>2. pc'[t] = "told" /\ in'[t] = 1
    BY <1>2, <2>1
  <2> QED
    BY <1>0, <1>1, <1>3, <2>1, <2>2
<1>4. CASE in[t] # Len(buffer[t])
  <2>1. pc' = [pc EXCEPT ![t] = "walk"] /\ in' = [in EXCEPT ![t] = in[t] + 1]
    BY <1>4 DEF NextEntry, Goto
  <2>2. pc'[t] = "walk" /\ in'[t] = in[t] + 1
    BY <1>2, <2>1
  <2> QED
    BY <1>0, <1>1, <1>4, <2>1, <2>2
<1> QED
  BY <1>3, <1>4

(* A step of a walk, and the types of what it leaves.                      *)
WalkStep(t) ==
  /\ UNCHANGED walkUnchanged /\ pc[t] \in Walking
  /\ pc' = [pc EXCEPT ![t] = pc'[t]] /\ in' = [in EXCEPT ![t] = in'[t]]
  /\ name' = [name EXCEPT ![t] = name'[t]]
  /\ pc'[t] \in Walking \cup {"told"} /\ in'[t] \in 1 .. Len(buffer[t])
  /\ \E r \in Records :
       buffer' = [buffer EXCEPT ![t][in[t]] = r] /\ (r = buffer[t][in[t]] \/ pc[t] = "judge")

LEMMA SameBuffer ==
  ASSUME TypeOK, RecordsOK, NEW t \in Threads, pc[t] \in Walking, UNCHANGED buffer
  PROVE  buffer[t][in[t]] \in Records /\ buffer' = [buffer EXCEPT ![t][in[t]] = buffer[t][in[t]]]
<1>1. buffer[t] \in Seq(Records) /\ in[t] \in 1 .. Len(buffer[t]) /\ buffer[t][in[t]] \in Records
  BY InBuffer
<1>2. [buffer[t] EXCEPT ![in[t]] = buffer[t][in[t]]] = buffer[t]
  BY <1>1
<1>3. buffer = [u \in Threads |-> buffer[u]]
  BY DEF RecordsOK
<1> QED
  BY <1>1, <1>2, <1>3

LEMMA WalkSteps ==
  ASSUME TypeOK, RecordsOK, NEW t \in Threads,
         Query(t) \/ Lookup(t) \/ (Insert(t) /\ ~harmed') \/ Judge(t)
  PROVE  WalkStep(t) /\ ~harmed
<1>1. pc[t] \in Walking /\ ~harmed /\ UNCHANGED walkUnchanged
  BY DEF Query, Lookup, Insert, Judge, At, Walking
<1>2. in[t] \in 1 .. Len(buffer[t]) /\ buffer[t][in[t]] \in Records
  BY <1>1, InBuffer
<1>3. pc = [u \in Threads |-> pc[u]] /\ in = [u \in Threads |-> in[u]]
      /\ name = [u \in Threads |-> name[u]]
  BY DEF TypeOK, RecordsOK
<1>4. CASE NextEntry(t) /\ UNCHANGED buffer
  <2>1. name' = [name EXCEPT ![t] = name'[t]]
    BY <1>3, <1>4 DEF NextEntry
  <2> QED
    BY <1>1, <1>4, <2>1, NextEntryTypes, SameBuffer DEF WalkStep, Walking
<1>5. CASE /\ UNCHANGED <<in, buffer>> /\ pc[t] \in {"walk", "lookup"}
           /\ \E to \in Walking : Goto(t, to)
           /\ name' = [name EXCEPT ![t] = name'[t]]
  <2>1. pc' = [pc EXCEPT ![t] = pc'[t]] /\ pc'[t] \in Walking
    BY <1>3, <1>5 DEF Goto
  <2>2. in' = [in EXCEPT ![t] = in'[t]] /\ in'[t] \in 1 .. Len(buffer[t])
    BY <1>2, <1>3, <1>5
  <2> QED
    BY <1>1, <1>5, <2>1, <2>2, SameBuffer DEF WalkStep
<1>6. CASE Query(t)
  <2>1. UNCHANGED buffer
    BY <1>6 DEF Query
  <2>2. \/ NextEntry(t)
        \/ Goto(t, "lookup") /\ name' = [name EXCEPT ![t] = handle[t]] /\ UNCHANGED in
    BY <1>6 DEF Query
  <2>3. name' = [name EXCEPT ![t] = handle[t]] => name' = [name EXCEPT ![t] = name'[t]]
    BY <1>3
  <2>4. pc[t] = "walk"
    BY <1>6 DEF Query, At
  <2> QED
    BY <1>4, <1>5, <2>1, <2>2, <2>3, <2>4 DEF Walking
<1>7. CASE Lookup(t)
  <2>1. UNCHANGED buffer /\ pc[t] = "lookup"
    BY <1>7 DEF Lookup, At
  <2>2. \/ NextEntry(t)
        \/ \E to \in Walking : Goto(t, to) /\ UNCHANGED in
             /\ (UNCHANGED name \/ \E n : name' = [name EXCEPT ![t] = n])
    BY <1>7 DEF Lookup, Walking
  <2>3. UNCHANGED name \/ (\E n : name' = [name EXCEPT ![t] = n])
          => name' = [name EXCEPT ![t] = name'[t]]
    BY <1>3
  <2> QED
    BY <1>4, <1>5, <2>1, <2>2, <2>3
<1>8. CASE Insert(t) /\ ~harmed'
  BY <1>4, <1>8 DEF Insert
<1>9. CASE Judge(t)
  <2> DEFINE path == name[t] \o <<"\\">> \o buffer[t][in[t]].name
             r == IF Filtered(path, GetFileAttributesW(path))
                  THEN [buffer[t][in[t]] EXCEPT !.name = Hidden(buffer[t][in[t]].name)]
                  ELSE buffer[t][in[t]]
  <2>1. r \in Records
    BY <1>2, HiddenName DEF Records
  <2>2. NextEntry(t) /\ pc[t] = "judge"
    BY <1>9 DEF Judge, At
  <2>3. buffer = [u \in Threads |-> buffer[u]] /\ buffer[t] \in Seq(Records)
    BY DEF RecordsOK
  <2>4. buffer' = [buffer EXCEPT ![t][in[t]] = r]
    <3>1. CASE Filtered(path, GetFileAttributesW(path))
      BY <1>9, <3>1 DEF Judge
    <3>2. CASE ~Filtered(path, GetFileAttributesW(path))
      BY <1>1, <1>9, <3>2, SameBuffer DEF Judge
    <3> QED
      BY <3>1, <3>2
  <2>5. name' = [name EXCEPT ![t] = name'[t]]
    BY <1>3, <2>2 DEF NextEntry
  <2> HIDE DEF r
  <2> QED
    BY <1>1, <2>1, <2>2, <2>4, <2>5, NextEntryTypes DEF WalkStep, Walking
<1> QED
  BY <1>6, <1>7, <1>8, <1>9

-----------------------------------------------------------------------------
(* Types.                                                                  *)

Step(t) ==
  \/ \E d \in Directories : Open(t, d)
  \/ Close(t) \/ Call(t) \/ Consume(t) \/ Complete(t)

LEMMA TypeInit ==
  ASSUME Init
  PROVE  TypeOK /\ RecordsOK
<1>1. BufferLength \in Nat \ {0} /\ MaxChanges \in Nat
  BY BoundsAssumption
<1>2. \A t \in Threads : /\ buffer[t] \in Seq(Records) /\ buffer[t] # <<>>
                         /\ Len(buffer[t]) <= BufferLength /\ 1 \in DOMAIN buffer[t]
  <2> SUFFICES ASSUME NEW t \in Threads
               PROVE  /\ buffer[t] \in Seq(Records) /\ buffer[t] # <<>>
                      /\ Len(buffer[t]) <= BufferLength /\ 1 \in DOMAIN buffer[t]
    OBVIOUS
  <2>1. buffer[t] = ZeroedBuffer \/ buffer[t] = UsedBuffer(EarlierAnswer)
    BY DEF Init
  <2>2. buffer[t] \in Seq(Records) /\ Len(buffer[t]) \in 1 .. BufferLength
    <3>1. 1 \in 1 .. BufferLength
      BY <1>1
    <3> QED
      BY <2>1, <3>1, Buffers, EarlierAssumption, Zenon
  <2> QED
    BY <2>2, EmptySeq
<1>3. buffer \in [Threads -> Seq(Records)]
  BY <1>2 DEF Init
<1>4. RecordsOK
  BY <1>3, EmptySeq DEF Init, RecordsOK
<1> QED
  BY <1>1, <1>2, <1>4, EmptySeq DEF Init, TypeOK

LEMMA TypeChanges ==
  ASSUME TypeOK, RecordsOK, NEW d, NEW news, NEW after, Changes(d, news, after)
  PROVE  TypeOK' /\ RecordsOK'
<1>1. /\ queue' \in [Threads -> Seq(Records)] /\ buffer' \in [Threads -> Seq(Records)]
      /\ overflow' \in [Threads -> BOOLEAN]
      /\ \A t \in Threads : Len(queue'[t]) <= BufferLength /\ buffer'[t] = Noted(buffer[t], after)
  BY Told DEF Changes
<1>2. \A t \in Threads : Len(buffer'[t]) = Len(buffer[t]) /\ DOMAIN buffer'[t] = DOMAIN buffer[t]
                         /\ (buffer[t] # <<>> => buffer'[t] # <<>>)
  <2> SUFFICES ASSUME NEW t \in Threads
               PROVE  Len(buffer'[t]) = Len(buffer[t]) /\ DOMAIN buffer'[t] = DOMAIN buffer[t]
                      /\ (buffer[t] # <<>> => buffer'[t] # <<>>)
    OBVIOUS
  <2>1. buffer[t] \in Seq(Records) /\ buffer'[t] \in Seq(Records)
    BY <1>1 DEF RecordsOK
  <2>2. Len(buffer'[t]) = Len(buffer[t])
    BY <1>1, <2>1, NotedRecords DEF Changes
  <2> QED
    BY <2>1, <2>2, EmptySeq
<1>3. /\ after \in [Files -> Attribs] /\ attributes' = after
      /\ changes < MaxChanges /\ changes' = changes + 1
      /\ UNCHANGED <<mapVars, handle, pc, transferred, in, name, moved>>
  BY DEF Changes, Tell
<1>4. changes' \in 0 .. MaxChanges
  BY <1>3, BoundsAssumption DEF TypeOK
<1>5. RecordsOK'
  BY <1>1, <1>3 DEF RecordsOK, mapVars
<1> QED
  BY <1>1, <1>2, <1>3, <1>4, <1>5 DEF TypeOK, mapVars, Attribs

LEMMA TypeStep ==
  ASSUME TypeOK, RecordsOK, NEW t \in Threads, Step(t)
  PROVE  TypeOK' /\ RecordsOK'
<1> USE DEF fileVars, mapVars, kernelVars, walkVars
<1>0. BufferLength \in Nat \ {0} /\ Len(<<>>) = 0 /\ <<>> \in Seq(Records)
  BY BoundsAssumption, EmptySeq
<1>1. ASSUME NEW d \in Directories, Open(t, d) PROVE TypeOK' /\ RecordsOK'
  BY <1>1 DEF Open, TypeOK, RecordsOK
<1>2. CASE Close(t)
  <2>1. RecordsOK'
    BY <1>0, <1>2 DEF Close, TypeOK, RecordsOK
  <2>2. /\ \A u \in Threads : Len(queue'[u]) <= BufferLength
        /\ handle' \in [Threads -> Directories \cup {Closed}]
    BY <1>0, <1>2 DEF Close, TypeOK, RecordsOK
  <2>3. pc' \in [Threads -> {"idle", "asked", "walk", "lookup", "insert", "judge", "told"}]
        /\ \A u \in Threads : pc'[u] \in {"walk", "lookup", "insert", "judge"} => pc'[u] = pc[u]
    BY <1>2 DEF Close, TypeOK
  <2> QED
    BY <1>2, <2>1, <2>2, <2>3 DEF Close, TypeOK
<1>3. CASE Call(t)
  <2>1. RecordsOK'
    BY <1>3 DEF Call, RecordsOK
  <2> QED
    BY <1>3, <2>1 DEF Call, TypeOK
<1>4. CASE Consume(t)
  <2>1. /\ buffer[t] \in Seq(Records) /\ buffer[t] # <<>> /\ Len(buffer[t]) <= BufferLength
        /\ Len(buffer[t]) \in Nat /\ Len(buffer[t]) # 0
    BY EmptySeq DEF TypeOK, RecordsOK
  <2>2. buffer' = [buffer EXCEPT ![t] = buffer'[t]] /\ buffer'[t] \in Seq(Records)
        /\ buffer'[t] # <<>> /\ Len(buffer'[t]) <= BufferLength
    <3>1. buffer'[t] = IF t = emulator THEN ZeroedBuffer ELSE Used(buffer[t])
      BY <1>4 DEF Consume, RecordsOK
    <3>2. buffer'[t] \in Seq(Records) /\ Len(buffer'[t]) \in 1 .. BufferLength
      <4>1. 1 \in 1 .. BufferLength
        BY <1>0
      <4>2. Len(buffer[t]) \in 1 .. BufferLength
        BY <1>0, <2>1
      <4> QED
        BY <2>1, <3>1, <4>1, <4>2, Buffers, Zenon
    <3> QED
      BY <1>0, <1>4, <3>2 DEF Consume, RecordsOK
  <2>3. RecordsOK'
    BY <1>4, <2>2 DEF Consume, RecordsOK
  <2>4. pc' \in [Threads -> {"idle", "asked", "walk", "lookup", "insert", "judge", "told"}]
        /\ \A u \in Threads : pc'[u] \in {"walk", "lookup", "insert", "judge"} => pc'[u] = pc[u] /\ u # t
    BY <1>4 DEF Consume, TypeOK
  <2>5. \A u \in Threads \ {t} : buffer'[u] = buffer[u]
    BY <2>2 DEF RecordsOK
  <2> QED
    BY <1>4, <2>2, <2>3, <2>4, <2>5 DEF Consume, TypeOK
<1>5. CASE Complete(t)
  <2>1. /\ buffer[t] \in Seq(Records) /\ buffer[t] # <<>> /\ Len(buffer[t]) <= BufferLength
        /\ queue[t] \in Seq(Records) /\ Len(queue[t]) <= BufferLength
    BY DEF TypeOK, RecordsOK
  <2>2. buffer' = [buffer EXCEPT ![t] = buffer'[t]]
        /\ buffer'[t] = IF overflow[t] THEN buffer[t] ELSE queue[t]
    BY <1>5 DEF Complete, RecordsOK
  <2>3. buffer'[t] \in Seq(Records) /\ buffer'[t] # <<>> /\ Len(buffer'[t]) <= BufferLength
    BY <1>5, <2>1, <2>2 DEF Complete
  <2>4. 1 \in DOMAIN buffer'[t]
    BY <2>3, EmptySeq
  <2>5. RecordsOK'
    BY <1>0, <1>5, <2>2, <2>3 DEF Complete, RecordsOK
  <2>6. /\ \A u \in Threads : Len(queue'[u]) <= BufferLength
        /\ \A u \in Threads \ {t} : buffer'[u] = buffer[u] /\ in'[u] = in[u] /\ pc'[u] = pc[u]
        /\ in'[t] = 1
    BY <1>0, <1>5, <2>2 DEF Complete, TypeOK, RecordsOK
  <2>7. pc' \in [Threads -> {"idle", "asked", "walk", "lookup", "insert", "judge", "told"}]
    BY <1>5 DEF Complete, TypeOK
  <2>8. \A u \in Threads : /\ buffer'[u] # <<>> /\ Len(buffer'[u]) <= BufferLength
                           /\ in'[u] \in 1 .. BufferLength
                           /\ pc'[u] \in {"walk", "lookup", "insert", "judge"} => in'[u] \in DOMAIN buffer'[u]
    BY <1>0, <2>3, <2>4, <2>6 DEF TypeOK
  <2> QED
    BY <1>5, <2>5, <2>6, <2>7, <2>8 DEF Complete, TypeOK
<1> QED
  BY <1>1, <1>2, <1>3, <1>4, <1>5 DEF Step

LEMMA TypeWalk ==
  ASSUME TypeOK, RecordsOK, NEW t \in Threads, WalkStep(t),
         \A key \in DOMAIN InitUtil : device2drive'[key] = InitUtil[key]
  PROVE  TypeOK' /\ RecordsOK'
<1>0. UNCHANGED <<attributes, changes, handle, queue, overflow, transferred, moved>>
  BY DEF WalkStep, walkUnchanged, fileVars, kernelVars
<1>1. PICK r \in Records : buffer' = [buffer EXCEPT ![t][in[t]] = r]
  BY DEF WalkStep
<1>2. /\ buffer[t] \in Seq(Records) /\ in[t] \in 1 .. Len(buffer[t])
      /\ Len(buffer[t]) \in Nat /\ Len(buffer[t]) <= BufferLength
      /\ DOMAIN buffer[t] = 1 .. Len(buffer[t])
  BY InBuffer DEF WalkStep
<1>3. /\ buffer' = [buffer EXCEPT ![t] = buffer'[t]]
      /\ buffer'[t] = [buffer[t] EXCEPT ![in[t]] = r]
  BY <1>1 DEF RecordsOK
<1>4. /\ buffer'[t] \in Seq(Records) /\ Len(buffer'[t]) = Len(buffer[t])
      /\ DOMAIN buffer'[t] = DOMAIN buffer[t]
  BY <1>2, <1>3, ExceptSeq
<1>5. buffer'[t] # <<>>
  BY <1>2, <1>4, EmptySeq
<1>6. /\ pc' = [pc EXCEPT ![t] = pc'[t]] /\ in' = [in EXCEPT ![t] = in'[t]]
      /\ name' = [name EXCEPT ![t] = name'[t]]
      /\ pc'[t] \in Walking \cup {"told"} /\ in'[t] \in 1 .. Len(buffer[t])
  BY DEF WalkStep
<1>7. \A u \in Threads \ {t} : buffer'[u] = buffer[u] /\ in'[u] = in[u] /\ pc'[u] = pc[u]
  BY <1>3, <1>6 DEF RecordsOK, TypeOK
<1>8. in'[t] \in 1 .. BufferLength /\ in'[t] \in Nat
  BY <1>2, <1>6, BoundsAssumption
<1>9. RecordsOK'
  BY <1>0, <1>3, <1>4, <1>6, <1>8 DEF RecordsOK
<1>10. pc' \in [Threads -> {"idle", "asked", "walk", "lookup", "insert", "judge", "told"}]
  BY <1>6 DEF TypeOK, Walking
<1>11. \A u \in Threads : /\ buffer'[u] # <<>> /\ Len(buffer'[u]) <= BufferLength
                          /\ in'[u] \in 1 .. BufferLength
                          /\ pc'[u] \in {"walk", "lookup", "insert", "judge"} => in'[u] \in DOMAIN buffer'[u]
  BY <1>2, <1>4, <1>5, <1>6, <1>7, <1>8 DEF TypeOK
<1> QED
  BY <1>0, <1>9, <1>10, <1>11 DEF TypeOK

-----------------------------------------------------------------------------
(* The map of the drives.                                                  *)

LEMMA MapInit ==
  ASSUME Init
  PROVE  MapInv /\ HarmInv
<1>1. MapInv
  BY DEF Init, MapInv
<1> QED
  BY <1>1 DEF Init, HarmInv, MapUnharmed, harmed

(* A directory's drive is what the map has of it.                          *)
LEMMA MapOf ==
  ASSUME MapInv, NEW d
  PROVE  /\ Device(d) \notin DOMAIN device2drive => ~Known(d)
         /\ Device(d) \in DOMAIN device2drive /\ device2drive[Device(d)] = NoDrive => ~Known(d)
         /\ Device(d) \in DOMAIN device2drive /\ device2drive[Device(d)] # NoDrive
              => Known(d) /\ device2drive[Device(d)] = InitUtil[Device(d)]
  BY DriveKeys DEF MapInv, Known

(* No step but an insertion changes the map, and none but a look at it     *)
(* harms it.                                                               *)
LEMMA MapOthers ==
  ASSUME MapInv, HarmInv, TypeOK, RecordsOK, UNCHANGED mapVars, ~harmed,
         \A u \in Threads : pc'[u] \in {"lookup", "insert"} =>
           \/ pc'[u] = pc[u] /\ name'[u] = name[u]
           \/ pc'[u] = "lookup" /\ name'[u] \in Directories
  PROVE  MapInv' /\ HarmInv'
<1>1. MapInv'
  BY DEF MapInv, mapVars
<1> QED
  BY <1>1 DEF HarmInv, MapUnharmed, mapVars, harmed

(* Who inserts meanwhile asks for a directory on no drive.                 *)
LEMMA MeetingKnown ==
  ASSUME HarmInv, NEW t \in Threads, pc[t] \in {"lookup", "insert"}, met' = Meets(t)
  PROVE  MapUnharmed'
<1> DEFINE inserting == {u \in Threads \ {t} : pc[u] = "insert"}
<1> SUFFICES ASSUME met' # {}
             PROVE  /\ \E one, other \in met' : one.thread # other.thread /\ one.part = "insert"
                    /\ \A one \in met' : one.part = "insert" => DrivesOf(one.object) = {}
  BY DEF MapUnharmed, harmed
<1>1. met' = {Use(u) : u \in inserting \cup {t}} /\ inserting # {}
  BY DEF Meets
<1>2. \A u : Use(u).thread = u /\ Use(u).part = pc[u] /\ Use(u).object = name[u]
  BY DEF Use
<1>3. PICK u \in inserting : TRUE
  BY <1>1
<1>4. Use(u) \in met' /\ Use(t) \in met' /\ u # t /\ pc[u] = "insert"
  BY <1>1, <1>3
<1>5. \E one, other \in met' : one.thread # other.thread /\ one.part = "insert"
  BY <1>2, <1>4
<1>6. ASSUME NEW one \in met', one.part = "insert" PROVE DrivesOf(one.object) = {}
  <2>1. PICK v \in Threads : one = Use(v)
    BY <1>1
  <2>2. pc[v] = "insert" /\ one.object = name[v]
    BY <1>2, <1>6, <2>1
  <2> QED
    BY <2>2 DEF HarmInv
<1> QED
  BY <1>5, <1>6

LEMMA MapStep ==
  ASSUME TypeOK, RecordsOK, MapInv, HarmInv, NEW t \in Threads,
         Query(t) \/ Lookup(t) \/ Insert(t) \/ Judge(t)
  PROVE  MapInv' /\ HarmInv'
<1>1. pc = [u \in Threads |-> pc[u]] /\ name = [u \in Threads |-> name[u]]
      /\ in = [u \in Threads |-> in[u]]
  BY DEF TypeOK, RecordsOK
<1>2. NextEntry(t) => /\ \A u \in Threads \ {t} : pc'[u] = pc[u] /\ name'[u] = name[u]
                      /\ pc'[t] \notin {"lookup", "insert"}
  BY <1>1 DEF NextEntry, Goto
<1>3. CASE Query(t)
  <2>1. ~harmed /\ UNCHANGED mapVars
    BY <1>3 DEF Query, At
  <2>2. CASE NextEntry(t)
    BY <1>2, <2>1, <2>2, MapOthers DEF mapVars
  <2>3. CASE ~NextEntry(t)
    <3>1. Goto(t, "lookup") /\ name' = [name EXCEPT ![t] = handle[t]] /\ handle[t] # Closed
      BY <1>3, <2>3 DEF Query
    <3>2. handle[t] \in Directories
      BY <3>1 DEF TypeOK
    <3>3. \A u \in Threads : pc'[u] = (IF u = t THEN "lookup" ELSE pc[u])
                             /\ name'[u] = (IF u = t THEN handle[t] ELSE name[u])
      BY <1>1, <3>1 DEF Goto
    <3> QED
      BY <2>1, <3>2, <3>3, MapOthers DEF mapVars
  <2> QED
    BY <2>2, <2>3
<1>4. CASE Lookup(t)
  <2>1. met' = Meets(t) /\ UNCHANGED device2drive /\ pc[t] = "lookup"
    BY <1>4 DEF Lookup, At
  <2>2. MapInv'
    BY <2>1 DEF MapInv
  <2>3. /\ \A u \in Threads \ {t} : pc'[u] = pc[u] /\ name'[u] = name[u]
        /\ pc'[t] \in {"lookup", "insert"} =>
             /\ name'[t] = name[t] /\ pc'[t] = "insert" /\ Device(name[t]) \notin DOMAIN device2drive
    <3>1. CASE NextEntry(t)
      BY <1>2, <3>1
    <3>2. CASE Device(name[t]) \notin DOMAIN device2drive
      <4>1. Goto(t, "insert") /\ UNCHANGED name
        BY <1>4, <3>2 DEF Lookup
      <4> QED
        BY <1>1, <3>2, <4>1 DEF Goto
    <3>3. CASE ~NextEntry(t) /\ Device(name[t]) \in DOMAIN device2drive
      <4>1. Goto(t, "judge") /\ \E n : name' = [name EXCEPT ![t] = n]
        BY <1>4, <3>3 DEF Lookup
      <4> QED
        BY <1>1, <4>1 DEF Goto
    <3> QED
      BY <3>1, <3>2, <3>3
  <2>4. Device(name[t]) \notin DOMAIN device2drive => DrivesOf(name[t]) = {}
    BY MapOf, DriveOf
  <2>5. MapUnharmed'
    BY <2>1, MeetingKnown
  <2>6. \A u \in Threads : pc'[u] = "insert" => DrivesOf(name'[u]) = {}
    BY <2>3, <2>4 DEF HarmInv
  <2>7. \A u \in Threads : pc'[u] \in {"lookup", "insert"} => name'[u] \in Directories
    BY <2>1, <2>3 DEF HarmInv
  <2> QED
    BY <2>1, <2>2, <2>5, <2>6, <2>7 DEF HarmInv
<1>5. CASE Insert(t)
  <2>1. /\ met' = Meets(t) /\ pc[t] = "insert"
        /\ device2drive' = [device \in DOMAIN device2drive \cup {Device(name[t])} |->
             IF device \in DOMAIN device2drive THEN device2drive[device] ELSE NoDrive]
    BY <1>5 DEF Insert, At
  <2>2. DrivesOf(name[t]) = {}
    BY <2>1 DEF HarmInv
  <2>3. MapInv'
    <3>1. Device(name[t]) \notin DOMAIN InitUtil
      BY <2>2, DriveOf DEF Known
    <3> QED
      BY <2>1, <3>1 DEF MapInv
  <2>4. MapUnharmed'
    BY <2>1, MeetingKnown
  <2>5. CASE harmed'
    <3>1. UNCHANGED <<pc, name>>
      BY <1>5, <2>5 DEF Insert
    <3> QED
      BY <2>3, <2>4, <3>1 DEF HarmInv
  <2>6. CASE ~harmed'
    <3>1. NextEntry(t)
      BY <1>5, <2>6 DEF Insert
    <3> QED
      BY <1>2, <2>1, <2>3, <2>4, <3>1 DEF HarmInv
  <2> QED
    BY <2>5, <2>6
<1>6. CASE Judge(t)
  <2>1. ~harmed /\ UNCHANGED mapVars /\ NextEntry(t)
    BY <1>6 DEF Judge, At
  <2> QED
    BY <1>2, <2>1, MapOthers DEF mapVars
<1> QED
  BY <1>3, <1>4, <1>5, <1>6

-----------------------------------------------------------------------------
(* What is told.                                                           *)

LEMMA LiveInit ==
  ASSUME Init
  PROVE  QueueInv /\ WalkInv
<1>1. QueueInv
  BY EmptySeq DEF Init, QueueInv
<1> QED
  BY <1>1 DEF Init, WalkInv, Watched, Sound

(* A change of a file: what was told of it has now had its attributes.     *)
LEMMA LiveChanges ==
  ASSUME TypeOK, RecordsOK, QueueInv, WalkInv, NEW d, NEW news, NEW after,
         Changes(d, news, after)
  PROVE  QueueInv' /\ WalkInv'
<1>1. /\ after \in [Files -> Attribs] /\ news \in Seq(Records) /\ attributes' = after
      /\ UNCHANGED <<handle, pc, transferred, in, name, moved>>
  BY DEF Changes, Tell
<1>2. \A t \in Threads :
        /\ buffer'[t] = Noted(buffer[t], after)
        /\ \/ queue'[t] = Noted(queue[t], after)
           \/ handle[t] = d /\ queue'[t] = Noted(queue[t], after) \o news
           \/ queue'[t] = <<>>
  BY Told DEF Changes
<1>3. ASSUME NEW r \in Records
      PROVE  /\ Genuine(r, attributes) => Genuine(NotedRecord(r, after), after)
             /\ Untouched(r) => Untouched(NotedRecord(r, after))
             /\ Good(r) => Good(NotedRecord(r, after))
             /\ NotedRecord(r, after).of = r.of
  BY <1>1, NotedFields, GoodStays DEF Genuine, Untouched
<1>4. ASSUME NEW t \in Threads
      PROVE  \A i \in 1 .. Len(queue'[t]) :
               /\ Genuine(queue'[t][i], after) /\ Untouched(queue'[t][i])
               /\ queue'[t][i].of[1] = handle[t]
  <2> DEFINE noted == Noted(queue[t], after)
  <2>1. queue[t] \in Seq(Records)
    BY DEF RecordsOK
  <2>2. /\ noted \in Seq(Records) /\ Len(noted) = Len(queue[t])
        /\ \A i \in 1 .. Len(queue[t]) : noted[i] = NotedRecord(queue[t][i], after)
    BY <1>1, <2>1, NotedRecords
  <2>3. \A i \in 1 .. Len(noted) :
          Genuine(noted[i], after) /\ Untouched(noted[i]) /\ noted[i].of[1] = handle[t]
    <3> SUFFICES ASSUME NEW i \in 1 .. Len(queue[t])
                 PROVE  Genuine(noted[i], after) /\ Untouched(noted[i]) /\ noted[i].of[1] = handle[t]
      BY <2>2
    <3>1. queue[t][i] \in Records
      BY <2>1
    <3>2. Genuine(queue[t][i], attributes) /\ Untouched(queue[t][i]) /\ queue[t][i].of[1] = handle[t]
      BY DEF QueueInv
    <3>3. noted[i] = NotedRecord(queue[t][i], after)
      BY <2>2
    <3> HIDE DEF noted
    <3> QED
      BY <1>3, <3>1, <3>2, <3>3
  <2> HIDE DEF noted
  <2>4. CASE queue'[t] = noted
    BY <2>3, <2>4
  <2>5. CASE handle[t] = d /\ queue'[t] = noted \o news
    <3>1. \A i \in 1 .. Len(news) :
            Genuine(news[i], after) /\ Untouched(news[i]) /\ news[i].of[1] = handle[t]
      BY <2>5 DEF Changes, Genuine
    <3>2. /\ Len(noted \o news) = Len(noted) + Len(news)
          /\ \A i \in 1 .. Len(noted) + Len(news) :
               (noted \o news)[i] = IF i <= Len(noted) THEN noted[i] ELSE news[i - Len(noted)]
      BY <1>1, <2>2, ConcatProperties
    <3>3. Len(noted) \in Nat /\ Len(news) \in Nat
      BY <1>1, <2>2
    <3>4. \A i \in 1 .. Len(noted) + Len(news) :
            i \in 1 .. Len(noted) \/ (~(i <= Len(noted)) /\ i - Len(noted) \in 1 .. Len(news))
      BY <3>3
    <3>5. \A i \in 1 .. Len(noted) : i <= Len(noted)
      BY <3>3
    <3> QED
      BY <2>3, <2>5, <3>1, <3>2, <3>4, <3>5
  <2>6. CASE queue'[t] = <<>>
    BY <2>6, EmptySeq
  <2> QED
    BY <1>2, <2>4, <2>5, <2>6 DEF noted
<1>5. QueueInv'
  BY <1>1, <1>4 DEF QueueInv
<1>6. ASSUME NEW t \in Threads
      PROVE  /\ Len(buffer'[t]) = Len(buffer[t])
             /\ \A i \in 1 .. Len(buffer[t]) :
                  /\ Genuine(buffer[t][i], attributes) => Genuine(buffer'[t][i], after)
                  /\ Untouched(buffer[t][i]) => Untouched(buffer'[t][i])
                  /\ Good(buffer[t][i]) => Good(buffer'[t][i])
                  /\ buffer'[t][i].of = buffer[t][i].of
  <2>1. buffer[t] \in Seq(Records)
    BY DEF RecordsOK
  <2>2. /\ Len(buffer'[t]) = Len(buffer[t])
        /\ \A i \in 1 .. Len(buffer[t]) : buffer'[t][i] = NotedRecord(buffer[t][i], after)
    BY <1>1, <1>2, <2>1, NotedRecords
  <2>3. \A i \in 1 .. Len(buffer[t]) : buffer[t][i] \in Records
    BY <2>1
  <2> QED
    BY <1>3, <2>2, <2>3
<1>7. \A t \in Threads :
        pc[t] \in Walking => /\ \A i \in 1 .. in[t] - 1 : i \in 1 .. Len(buffer[t])
                             /\ \A i \in in[t] .. Len(buffer[t]) : i \in 1 .. Len(buffer[t])
  BY InBuffer
<1>8. WalkInv'
  <2> SUFFICES ASSUME NEW t \in Threads, Sound(t)
               PROVE  /\ \A i \in 1 .. Len(buffer'[t]) :
                           Genuine(buffer'[t][i], after) /\ buffer'[t][i].of[1] = handle[t]
                      /\ pc[t] \in Walking =>
                           /\ \A i \in 1 .. in[t] - 1 : Good(buffer'[t][i])
                           /\ \A i \in in[t] .. Len(buffer'[t]) : Untouched(buffer'[t][i])
                      /\ pc[t] = "told" => \A i \in 1 .. Len(buffer'[t]) : Good(buffer'[t][i])
    BY <1>1 DEF WalkInv, Watched, Sound
  <2>1. /\ \A i \in 1 .. Len(buffer[t]) :
             Genuine(buffer[t][i], attributes) /\ buffer[t][i].of[1] = handle[t]
        /\ pc[t] \in Walking =>
             /\ \A i \in 1 .. in[t] - 1 : Good(buffer[t][i])
             /\ \A i \in in[t] .. Len(buffer[t]) : Untouched(buffer[t][i])
        /\ pc[t] = "told" => \A i \in 1 .. Len(buffer[t]) : Good(buffer[t][i])
    BY DEF WalkInv, Watched
  <2> QED
    BY <1>6, <1>7, <2>1
<1> QED
  BY <1>5, <1>8

(* The steps of the application and the kernel.                            *)
LEMMA LiveCalls ==
  ASSUME TypeOK, RecordsOK, QueueInv, WalkInv, NEW t \in Threads, Step(t)
  PROVE  QueueInv' /\ WalkInv'
<1> USE DEF fileVars, mapVars, kernelVars, walkVars
<1>0. \A u \in Threads : queue[u] \in Seq(Records)
  BY DEF RecordsOK
<1>1. ASSUME NEW d \in Directories, Open(t, d) PROVE QueueInv' /\ WalkInv'
  <2>1. handle[t] = Closed /\ handle' = [handle EXCEPT ![t] = d]
    BY <1>1 DEF Open
  <2>2. \A i \in 1 .. Len(queue[t]) : FALSE
    <3> SUFFICES ASSUME NEW i \in 1 .. Len(queue[t]) PROVE FALSE
      OBVIOUS
    <3>1. queue[t][i].of \in Files /\ queue[t][i].of[1] = Closed
      BY <2>1 DEF QueueInv, Genuine
    <3> QED
      BY <3>1, FileFields, ClosedAssumption
  <2>3. ~Sound(t)
    BY <2>1, ClosedAssumption DEF WalkInv, Watched, Sound, TypeOK
  <2>4. \A u \in Threads : handle'[u] = IF u = t THEN d ELSE handle[u]
    BY <2>1 DEF TypeOK
  <2>5. QueueInv'
    BY <1>1, <2>2, <2>4 DEF Open, QueueInv
  <2> QED
    BY <1>1, <2>3, <2>4, <2>5 DEF Open, WalkInv, Watched, Sound
<1>2. CASE Close(t)
  <2>1. \A u \in Threads :
          /\ handle'[u] = IF u = t THEN Closed ELSE handle[u]
          /\ queue'[u] = IF u = t THEN <<>> ELSE queue[u]
          /\ moved'[u] = IF u = t THEN pc[t] # "idle" ELSE moved[u]
          /\ pc'[u] = IF u = t /\ pc[t] = "asked" THEN "told" ELSE pc[u]
          /\ transferred'[u] = IF u = t THEN transferred[t] /\ pc[t] # "asked" ELSE transferred[u]
    BY <1>2 DEF Close, TypeOK, RecordsOK
  <2>2. UNCHANGED <<attributes, buffer, in, name>>
    BY <1>2 DEF Close
  <2>3. QueueInv'
    BY <2>1, <2>2, EmptySeq DEF QueueInv
  <2>4. pc'[t] \in {"idle", "asked"} => ~transferred'[t]
    BY <2>1 DEF WalkInv, Watched
  <2>5. pc'[t] = "idle" \/ moved'[t]
    BY <2>1
  <2>6. ~(transferred'[t] /\ ~moved'[t])
    BY <2>4, <2>5
  <2>7. \A u \in Threads \ {t} :
          /\ handle'[u] = handle[u] /\ moved'[u] = moved[u] /\ pc'[u] = pc[u]
          /\ transferred'[u] = transferred[u]
    BY <2>1
  <2>8. Watched(t)'
    BY <2>4, <2>5, <2>6 DEF Watched, Sound
  <2>9. \A u \in Threads \ {t} : Watched(u)'
    BY <2>2, <2>7 DEF WalkInv, Watched, Sound
  <2> QED
    BY <2>3, <2>8, <2>9 DEF WalkInv
<1>3. CASE Call(t)
  <2>1. handle[t] \in Directories /\ ~transferred[t]
    BY <1>3 DEF Call, TypeOK, WalkInv, Watched
  <2>2. \A u \in Threads : pc'[u] = IF u = t THEN "asked" ELSE pc[u]
    BY <1>3 DEF Call, TypeOK
  <2>3. QueueInv'
    BY <1>3 DEF Call, QueueInv
  <2> QED
    BY <1>3, <2>1, <2>2, <2>3 DEF Call, WalkInv, Watched, Sound
<1>4. CASE Consume(t)
  <2>1. \A u \in Threads :
          /\ pc'[u] = IF u = t THEN "idle" ELSE pc[u]
          /\ transferred'[u] = IF u = t THEN FALSE ELSE transferred[u]
          /\ moved'[u] = IF u = t THEN FALSE ELSE moved[u]
    BY <1>4 DEF Consume, TypeOK, RecordsOK
  <2>2. \A u \in Threads \ {t} : buffer'[u] = buffer[u]
    BY <1>4 DEF Consume, RecordsOK
  <2>3. QueueInv'
    BY <1>4 DEF Consume, QueueInv
  <2> QED
    <3>1. UNCHANGED <<attributes, handle, in, name>>
      BY <1>4 DEF Consume
    <3>2. pc'[t] = "idle" /\ ~transferred'[t]
      BY <2>1
    <3>3. Watched(t)'
      BY <3>2 DEF Watched, Sound, Walking
    <3>4. \A u \in Threads \ {t} :
            pc'[u] = pc[u] /\ transferred'[u] = transferred[u] /\ moved'[u] = moved[u]
      BY <2>1
    <3>5. \A u \in Threads \ {t} : Watched(u)'
      BY <2>2, <3>1, <3>4 DEF WalkInv, Watched, Sound
    <3> QED
      BY <2>3, <3>3, <3>5 DEF WalkInv
<1>5. CASE Complete(t)
  <2>1. \A u \in Threads : queue'[u] = IF u = t THEN <<>> ELSE queue[u]
    BY <1>5 DEF Complete, RecordsOK
  <2>2. UNCHANGED <<attributes, handle, name, moved>> /\ pc[t] = "asked"
    BY <1>5 DEF Complete
  <2>3. QueueInv'
    BY <2>1, <2>2, EmptySeq DEF QueueInv
  <2>4. \A u \in Threads \ {t} :
          pc'[u] = pc[u] /\ buffer'[u] = buffer[u] /\ transferred'[u] = transferred[u] /\ in'[u] = in[u]
    BY <1>5 DEF Complete, TypeOK, RecordsOK
  <2>5. /\ pc'[t] = IF overflow[t] /\ t = emulator THEN "told" ELSE "walk"
        /\ transferred'[t] = ~overflow[t] /\ in'[t] = 1
        /\ ~overflow[t] => buffer'[t] = queue[t]
    BY <1>5 DEF Complete, TypeOK, RecordsOK
  <2>6. ~moved[t] => handle[t] \in Directories
    BY <2>2 DEF WalkInv, Watched
  <2>7. \A i \in 1 .. Len(queue[t]) :
          Genuine(queue[t][i], attributes) /\ Untouched(queue[t][i]) /\ queue[t][i].of[1] = handle[t]
    BY DEF QueueInv
  <2>8. Watched(t)'
    <3>1. \A i \in 1 .. in'[t] - 1 : FALSE
      BY <2>5
    <3> QED
      BY <2>2, <2>5, <2>6, <2>7, <3>1 DEF Watched, Sound
  <2>9. \A u \in Threads \ {t} : Watched(u)'
    BY <2>2, <2>4 DEF WalkInv, Watched, Sound
  <2> QED
    BY <2>3, <2>8, <2>9 DEF WalkInv
<1> QED
  BY <1>1, <1>2, <1>3, <1>4, <1>5 DEF Step

(* A step of a walk leaves the other watches.                              *)
LEMMA WalkOthers ==
  ASSUME TypeOK, RecordsOK, QueueInv, WalkInv, NEW t \in Threads, WalkStep(t)
  PROVE  /\ QueueInv' /\ \A u \in Threads \ {t} : Watched(u)'
         /\ UNCHANGED <<attributes, handle, transferred, moved>>
<1>1. UNCHANGED <<attributes, handle, queue, transferred, moved>>
  BY DEF WalkStep, walkUnchanged, fileVars, kernelVars
<1>2. QueueInv'
  BY <1>1 DEF QueueInv
<1>3. \A u \in Threads \ {t} :
        buffer'[u] = buffer[u] /\ in'[u] = in[u] /\ pc'[u] = pc[u] /\ name'[u] = name[u]
  BY DEF WalkStep, TypeOK, RecordsOK
<1>4. \A u \in Threads \ {t} : Watched(u)'
  BY <1>1, <1>3 DEF WalkInv, Watched, Sound
<1> QED
  BY <1>1, <1>2, <1>4

(* The walk goes on, and the record behind it is as it should be.          *)
LEMMA WalkOn ==
  ASSUME TypeOK, RecordsOK, WalkInv, NEW t \in Threads, WalkStep(t), NextEntry(t),
         NEW r \in Records, buffer' = [buffer EXCEPT ![t][in[t]] = r],
         Sound(t) => Good(r) /\ r.of = buffer[t][in[t]].of /\ r.had = buffer[t][in[t]].had
  PROVE  Watched(t)'
<1>1. /\ pc[t] \in Walking
      /\ UNCHANGED <<attributes, handle, transferred, moved>>
  BY DEF WalkStep, walkUnchanged, fileVars
<1>2. /\ buffer[t] \in Seq(Records) /\ in[t] \in 1 .. Len(buffer[t])
      /\ Len(buffer[t]) \in Nat
  BY <1>1, InBuffer
<1>3. buffer'[t] = [buffer[t] EXCEPT ![in[t]] = r]
  BY DEF RecordsOK
<1>4. /\ Len(buffer'[t]) = Len(buffer[t])
      /\ \A i \in 1 .. Len(buffer[t]) : buffer'[t][i] = IF i = in[t] THEN r ELSE buffer[t][i]
  BY <1>2, <1>3, ExceptSeq
<1>5. /\ pc'[t] \in {"told", "walk"}
      /\ pc'[t] = "told" => in[t] = Len(buffer[t])
      /\ pc'[t] = "walk" => in'[t] = in[t] + 1
  BY <1>1, NextEntryTypes
<1>6. ~moved'[t] => handle'[t] \in Directories
  BY <1>1 DEF WalkInv, Watched, Walking
<1>7. ASSUME Sound(t)
      PROVE  /\ \A i \in 1 .. Len(buffer[t]) :
                  Genuine(buffer'[t][i], attributes) /\ buffer'[t][i].of[1] = handle[t]
             /\ \A i \in 1 .. in[t] : Good(buffer'[t][i])
             /\ \A i \in in[t] + 1 .. Len(buffer[t]) : Untouched(buffer'[t][i])
  <2>1. /\ \A i \in 1 .. Len(buffer[t]) :
             Genuine(buffer[t][i], attributes) /\ buffer[t][i].of[1] = handle[t]
        /\ \A i \in 1 .. in[t] - 1 : Good(buffer[t][i])
        /\ \A i \in in[t] .. Len(buffer[t]) : Untouched(buffer[t][i])
    BY <1>1, <1>7 DEF WalkInv, Watched
  <2>2. /\ \A i \in 1 .. in[t] : i \in 1 .. Len(buffer[t]) /\ (i = in[t] \/ i \in 1 .. in[t] - 1)
        /\ \A i \in in[t] + 1 .. Len(buffer[t]) :
             i \in 1 .. Len(buffer[t]) /\ i # in[t] /\ i \in in[t] .. Len(buffer[t])
    BY <1>2
  <2>3. \A i \in 1 .. Len(buffer[t]) :
          Genuine(buffer'[t][i], attributes) /\ buffer'[t][i].of[1] = handle[t]
    BY <1>2, <1>4, <1>7, <2>1 DEF Genuine
  <2>4. \A i \in 1 .. in[t] - 1 : i # in[t]
    BY <1>2
  <2> QED
    BY <1>4, <1>7, <2>1, <2>2, <2>3, <2>4
<1>8. CASE pc'[t] = "told"
  BY <1>1, <1>4, <1>5, <1>6, <1>7, <1>8 DEF Watched, Sound, Walking
<1>9. CASE pc'[t] = "walk"
  <2>1. in'[t] - 1 = in[t]
    BY <1>2, <1>5, <1>9
  <2> QED
    BY <1>1, <1>4, <1>5, <1>6, <1>7, <1>9, <2>1 DEF Watched, Sound, Walking
<1> QED
  BY <1>5, <1>8, <1>9

(* The walk goes on behind a record it leaves alone.                       *)
LEMMA WalkPast ==
  ASSUME TypeOK, RecordsOK, WalkInv, NEW t \in Threads, WalkStep(t), NextEntry(t),
         UNCHANGED buffer,
         Sound(t) => buffer[t][in[t]].action = "removed" \/ ~Known(handle[t])
  PROVE  Watched(t)'
<1>1. pc[t] \in Walking
  BY DEF WalkStep
<1>2. buffer[t][in[t]] \in Records /\ buffer' = [buffer EXCEPT ![t][in[t]] = buffer[t][in[t]]]
  BY <1>1, SameBuffer
<1>3. in[t] \in 1 .. Len(buffer[t]) /\ in[t] \in in[t] .. Len(buffer[t])
  BY <1>1, InBuffer
<1>4. ASSUME Sound(t) PROVE Good(buffer[t][in[t]])
  <2>1. Untouched(buffer[t][in[t]]) /\ buffer[t][in[t]].of[1] = handle[t]
    BY <1>1, <1>3, <1>4 DEF WalkInv, Watched
  <2> QED
    BY <1>4, <2>1, PassedGood
<1> QED
  BY <1>2, <1>4, WalkOn

(* The walk stays at its record.                                           *)
LEMMA WalkStays ==
  ASSUME TypeOK, RecordsOK, WalkInv, NEW t \in Threads, WalkStep(t),
         UNCHANGED <<buffer, in>>, pc'[t] \in {"lookup", "insert", "judge"},
         Sound(t) =>
           /\ pc'[t] \in {"lookup", "insert"} => name'[t] = handle[t]
           /\ pc'[t] = "insert" => ~Known(handle[t])
           /\ pc'[t] = "judge" => /\ Known(handle[t])
                                  /\ name'[t] = DrivePath(InitUtil[Device(handle[t])], handle[t])
  PROVE  Watched(t)'
<1>1. /\ pc[t] \in Walking
      /\ UNCHANGED <<attributes, handle, transferred, moved>>
  BY DEF WalkStep, walkUnchanged, fileVars
<1> QED
  BY <1>1 DEF WalkInv, Watched, Sound, Walking

LEMMA LiveWalk ==
  ASSUME TypeOK, RecordsOK, MapInv, HarmInv, QueueInv, WalkInv, NEW t \in Threads,
         Query(t) \/ Lookup(t) \/ (Insert(t) /\ ~harmed') \/ Judge(t)
  PROVE  QueueInv' /\ WalkInv'
<1>1. WalkStep(t) /\ pc[t] \in Walking
  BY WalkSteps DEF WalkStep
<1>2. QueueInv' /\ \A u \in Threads \ {t} : Watched(u)'
  BY <1>1, WalkOthers
<1>3. Sound(t) => handle[t] \in Directories
  BY <1>1 DEF WalkInv, Watched, Sound, Walking
<1>4. /\ DOMAIN name = Threads /\ DOMAIN pc = Threads
      /\ pc' = [pc EXCEPT ![t] = pc'[t]] /\ name' = [name EXCEPT ![t] = name'[t]]
  BY <1>1 DEF WalkStep, TypeOK, RecordsOK
<1>5. ASSUME Query(t) PROVE Watched(t)'
  <2>1. UNCHANGED buffer
    BY <1>5 DEF Query
  <2>2. CASE buffer[t][in[t]].action = "removed" \/ handle[t] = Closed
    <3>1. NextEntry(t)
      BY <1>5, <2>2 DEF Query
    <3>2. Sound(t) => buffer[t][in[t]].action = "removed"
      BY <1>3, <2>2, ClosedAssumption
    <3> QED
      BY <1>1, <2>1, <3>1, <3>2, WalkPast
  <2>3. CASE ~(buffer[t][in[t]].action = "removed" \/ handle[t] = Closed)
    <3>1. pc'[t] = "lookup" /\ name'[t] = handle[t] /\ UNCHANGED in
      BY <1>4, <1>5, <2>3 DEF Query, Goto
    <3> QED
      BY <1>1, <2>1, <3>1, WalkStays
  <2> QED
    BY <2>2, <2>3
<1>6. ASSUME Lookup(t) PROVE Watched(t)'
  <2> DEFINE device == Device(name[t])
  <2>1. UNCHANGED buffer /\ pc[t] = "lookup"
    BY <1>6 DEF Lookup, At
  <2>2. Sound(t) => name[t] = handle[t]
    BY <2>1 DEF WalkInv, Watched
  <2>3. CASE device \notin DOMAIN device2drive
    <3>1. pc'[t] = "insert" /\ UNCHANGED <<name, in>>
      BY <1>4, <1>6, <2>3 DEF Lookup, Goto
    <3>2. ~Known(name[t])
      BY <2>3, MapOf
    <3> QED
      BY <1>1, <2>1, <2>2, <3>1, <3>2, WalkStays
  <2>4. CASE device \in DOMAIN device2drive /\ device2drive[device] = NoDrive
    <3>1. NextEntry(t)
      BY <1>6, <2>4 DEF Lookup
    <3>2. ~Known(name[t])
      BY <2>4, MapOf
    <3> QED
      BY <1>1, <2>1, <2>2, <3>1, <3>2, WalkPast
  <2>5. CASE device \in DOMAIN device2drive /\ device2drive[device] # NoDrive
    <3>1. /\ pc'[t] = "judge" /\ UNCHANGED in
          /\ name'[t] = DrivePath(device2drive[device], name[t])
      BY <1>4, <1>6, <2>5 DEF Lookup, Goto
    <3>2. Known(name[t]) /\ device2drive[device] = InitUtil[device]
      BY <2>5, MapOf
    <3> QED
      BY <1>1, <2>1, <2>2, <3>1, <3>2, WalkStays
  <2> QED
    BY <2>3, <2>4, <2>5
<1>7. ASSUME Insert(t) /\ ~harmed' PROVE Watched(t)'
  <2>1. NextEntry(t) /\ UNCHANGED buffer /\ pc[t] = "insert"
    BY <1>7 DEF Insert, At
  <2>2. Sound(t) => ~Known(handle[t])
    BY <2>1 DEF WalkInv, Watched
  <2> QED
    BY <1>1, <2>1, <2>2, WalkPast
<1>8. ASSUME Judge(t) PROVE Watched(t)'
  <2> DEFINE path == name[t] \o <<"\\">> \o buffer[t][in[t]].name
             r == IF Filtered(path, GetFileAttributesW(path))
                  THEN [buffer[t][in[t]] EXCEPT !.name = Hidden(buffer[t][in[t]].name)]
                  ELSE buffer[t][in[t]]
  <2>1. NextEntry(t) /\ pc[t] = "judge"
    BY <1>8 DEF Judge, At
  <2>2. buffer[t][in[t]] \in Records /\ in[t] \in 1 .. Len(buffer[t]) /\ in[t] \in in[t] .. Len(buffer[t])
    BY <1>1, InBuffer
  <2>3. r \in Records
    BY <2>2, HiddenName DEF Records
  <2>4. buffer' = [buffer EXCEPT ![t][in[t]] = r]
    <3>1. CASE Filtered(path, GetFileAttributesW(path))
      <4>1. buffer = [u \in Threads |-> buffer[u]] /\ buffer[t] \in Seq(Records)
        BY DEF RecordsOK
      <4> QED
        BY <1>8, <2>2, <3>1, <4>1 DEF Judge
    <3>2. CASE ~Filtered(path, GetFileAttributesW(path))
      BY <1>1, <1>8, <3>2, SameBuffer DEF Judge
    <3> QED
      BY <3>1, <3>2
  <2>5. ASSUME Sound(t)
        PROVE  Good(r) /\ r.of = buffer[t][in[t]].of /\ r.had = buffer[t][in[t]].had
    <3>1. /\ Genuine(buffer[t][in[t]], attributes) /\ Untouched(buffer[t][in[t]])
          /\ buffer[t][in[t]].of[1] = handle[t]
          /\ Known(handle[t]) /\ name[t] = DrivePath(InitUtil[Device(handle[t])], handle[t])
      BY <1>1, <2>1, <2>2, <2>5 DEF WalkInv, Watched
    <3>2. path = PathOf(buffer[t][in[t]])
      BY <3>1 DEF PathOf, Untouched
    <3>3. attributes \in [Files -> Attribs]
      BY DEF TypeOK, Attribs
    <3> HIDE DEF path
    <3> QED
      BY <2>2, <3>1, <3>2, <3>3, JudgedGood
  <2> HIDE DEF r
  <2> QED
    BY <1>1, <2>1, <2>3, <2>4, <2>5, WalkOn
<1>9. Watched(t)'
  BY <1>5, <1>6, <1>7, <1>8
<1> QED
  BY <1>2, <1>9 DEF WalkInv

-----------------------------------------------------------------------------
(* The invariant.                                                          *)

LEMMA Inductive ==
  ASSUME IInv, [Next]_vars
  PROVE  IInv'
<1> USE DEF IInv
<1>1. ASSUME NEW d, NEW news, NEW after, Changes(d, news, after) PROVE IInv'
  <2>1. ~harmed /\ UNCHANGED <<mapVars, pc, name>>
    BY <1>1 DEF Changes, Tell
  <2>2. MapInv' /\ HarmInv'
    BY <2>1, MapOthers
  <2>3. QueueInv' /\ WalkInv'
    BY <1>1, <2>1, LiveChanges
  <2> QED
    BY <1>1, <2>2, <2>3, TypeChanges
<1>2. ASSUME NEW t \in Threads, Step(t) PROVE IInv'
  <2>1. ~harmed /\ UNCHANGED <<mapVars, name>>
    BY <1>2 DEF Step, Open, Close, Call, Consume, Complete, walkVars
  <2>2. \A u \in Threads : pc'[u] \in {"lookup", "insert"} => pc'[u] = pc[u]
    BY <1>2 DEF Step, Open, Close, Call, Consume, Complete, walkVars, TypeOK
  <2>3. MapInv' /\ HarmInv'
    BY <2>1, <2>2, MapOthers
  <2>4. QueueInv' /\ WalkInv'
    BY <1>2, <2>1, LiveCalls
  <2> QED
    BY <1>2, <2>3, <2>4, TypeStep
<1>3. ASSUME NEW t \in Threads, Query(t) \/ Lookup(t) \/ Insert(t) \/ Judge(t) PROVE IInv'
  <2>1. MapInv' /\ HarmInv'
    BY <1>3, MapStep
  <2>2. \A key \in DOMAIN InitUtil : device2drive'[key] = InitUtil[key]
    BY <2>1 DEF MapInv
  <2>3. CASE Query(t) \/ Lookup(t) \/ (Insert(t) /\ ~harmed') \/ Judge(t)
    <3>1. WalkStep(t) /\ ~harmed
      BY <2>3, WalkSteps
    <3>2. TypeOK' /\ RecordsOK'
      BY <2>1, <2>2, <3>1, TypeWalk
    <3>3. QueueInv' /\ WalkInv'
      BY <2>3, <3>1, LiveWalk
    <3> QED
      BY <2>1, <3>2, <3>3
  <2>4. CASE Insert(t) /\ harmed'
    <3>1. UNCHANGED <<walkUnchanged, buffer, pc, in, name>>
      BY <2>4 DEF Insert
    <3>2. TypeOK' /\ RecordsOK'
      BY <2>1, <2>2, <3>1 DEF TypeOK, RecordsOK, walkUnchanged, fileVars, kernelVars
    <3> QED
      BY <2>1, <2>4, <3>2
  <2> QED
    BY <1>3, <2>3, <2>4
<1>4. CASE UNCHANGED vars
  <2> USE <1>4 DEF vars, fileVars, mapVars, kernelVars, walkVars
  <2>1. TypeOK' /\ RecordsOK'
    BY DEF TypeOK, RecordsOK
  <2>2. MapInv' /\ HarmInv'
    BY DEF MapInv, HarmInv, MapUnharmed, harmed
  <2>3. QueueInv => QueueInv'
    BY DEF QueueInv
  <2>4. WalkInv => WalkInv'
    BY DEF WalkInv, Watched, Sound
  <2>5. UNCHANGED harmed
    BY DEF harmed
  <2> QED
    BY <2>1, <2>2, <2>3, <2>4, <2>5
<1> QED
  BY <1>1, <1>2, <1>3, <1>4, NextCases DEF Step

(* What the properties say of an answer is what the invariant says of its  *)
(* records.                                                                *)
LEMMA AnswersGood ==
  ASSUME IInv, NEW t \in Threads, NEW r \in Answered(t)
  PROVE  Good(r)
<1>1. pc[t] = "told" /\ Sound(t) /\ ~harmed /\ \E i \in DOMAIN buffer[t] : r = buffer[t][i]
  BY DEF Answered, Sound
<1>2. DOMAIN buffer[t] = 1 .. Len(buffer[t])
  BY InBuffer DEF IInv
<1> QED
  BY <1>1, <1>2 DEF IInv, WalkInv, Watched

LEMMA Invariant == Spec => []IInv
<1>1. Init => IInv
  BY TypeInit, MapInit, LiveInit DEF IInv
<1>2. IInv /\ [Next]_vars => IInv'
  BY Inductive
<1> QED
  BY <1>1, <1>2, PTL DEF Spec

-----------------------------------------------------------------------------
(* Theorems.                                                               *)

(* The variables have their types: no walk is ever behind the last record  *)
(* of its buffer (Hook.cpp:283), and the drives of the map stay.           *)
THEOREM TypeCorrect == Spec => []TypeOK
<1>1. IInv => TypeOK
  BY DEF IInv
<1> QED
  BY <1>1, Invariant, PTL

(* Where an insertion into device2drive meets another thread's use of it,  *)
(* every thread that inserts had asked for a directory on no drive         *)
(* (Util.cpp:132).                                                         *)
THEOREM MapOnlyRead == Spec => []MapUnharmed
<1>1. IInv => MapUnharmed
  BY DEF IInv, HarmInv
<1> QED
  BY <1>1, Invariant, PTL

(* A change of a file that is filtered, whatever attributes it has had     *)
(* since, is not told under its name (Hook.cpp:294).                       *)
THEOREM FilteredHidden == Spec => []HiddenNotTold
<1>1. IInv => HiddenNotTold
  BY AnswersGood DEF HiddenNotTold, Good
<1> QED
  BY <1>1, Invariant, PTL

(* A change of a file that is not filtered, whatever attributes it has had *)
(* since, is told under its name (Hook.cpp:294).                           *)
THEOREM OthersTold == Spec => []VisibleTold
<1>1. IInv => VisibleTold
  BY AnswersGood DEF VisibleTold, Good
<1> QED
  BY <1>1, Invariant, PTL

=============================================================================
