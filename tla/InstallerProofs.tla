-------------------------- MODULE InstallerProofs --------------------------
(***************************************************************************)
(* Proofs about Installer: its launcher, for any use of the installer next *)
(* to it, and what its commands make of the files, of the link and of the  *)
(* characters of AppInit_DLLs, for any paths.                              *)
(***************************************************************************)
EXTENDS Installer, SequenceTheorems, TLAPS

-----------------------------------------------------------------------------
(* A Dropbox that is held has a launcher, or had one; when the launcher    *)
(* means to resume it, nothing is left to be loaded.                       *)
LaunchInv ==
  /\ dropbox \in Held => launcher # "none"
  /\ launcher = "resume" => dropbox \notin {"suspended", "loading"}

Launches ==
  /\ dropbox \in Held => dropbox' # "plain"
  /\ dropbox' \in Held => launcher' # "none"

(* What others do to Dropbox is to end it, or to start one.                *)
LEMMA OthersStep ==
  ASSUME LaunchInv, UNCHANGED launcher,
         \/ UNCHANGED dropbox
         \/ dropbox' = "none"
         \/ dropbox = "none" /\ dropbox' \in {"plain", "filtered"}
  PROVE  LaunchInv' /\ Launches
  BY DEF LaunchInv, Launches, Held

(* The installer itself only ends it.                                      *)
LEMMA InstallerStep ==
  ASSUME LaunchInv,
         \/ \E later \in BOOLEAN : Open(later)
         \/ \E c \in Commands : Press(c)
         \/ Close \/ End \/ Step
         \/ \E path \in Others : AddOther(path)
  PROVE  LaunchInv' /\ Launches
<1>1. UNCHANGED launcher /\ (UNCHANGED dropbox \/ dropbox' = "none")
  <2>1. CASE \E later \in BOOLEAN : Open(later)
    BY <2>1 DEF Open
  <2>2. CASE \E c \in Commands : Press(c)
    BY <2>2 DEF Press
  <2>3. CASE Close \/ End
    BY <2>3 DEF Close, End
  <2>4. CASE Step
    BY <2>4 DEF Step, Elevate, Compare, Kill, CopyExe, WriteDll, DeleteExe, DeleteDll,
                Unlink, Relink, Register, Unregister, SetList, SetEnabled, Say
  <2>5. CASE \E path \in Others : AddOther(path)
    BY <2>5 DEF AddOther
  <2> QED
    BY <2>1, <2>2, <2>3, <2>4, <2>5
<1> QED
  BY <1>1, OthersStep

LEMMA LauncherStep ==
  ASSUME LaunchInv, LaunchDropbox
  PROVE  LaunchInv' /\ Launches
<1> USE DEF LaunchInv, Launches, Held
<1>1. CASE Launch
  BY <1>1 DEF Launch
<1>2. CASE RemoteLoadDll
  BY <1>2 DEF RemoteLoadDll
<1>3. CASE RemoteThread
  BY <1>3 DEF RemoteThread
<1>4. CASE Wait
  BY <1>4 DEF Wait
<1>5. CASE Refuse
  BY <1>5 DEF Refuse
<1>6. CASE Resume
  BY <1>6 DEF Resume
<1>7. CASE EndLauncher
  BY <1>7 DEF EndLauncher, Launching
<1> QED
  BY <1>1, <1>2, <1>3, <1>4, <1>5, <1>6, <1>7 DEF LaunchDropbox

LEMMA LaunchStep ==
  ASSUME LaunchInv, [Next]_vars
  PROVE  LaunchInv' /\ (Launches \/ UNCHANGED vars)
<1>1. CASE LaunchDropbox
  BY <1>1, LauncherStep
<1>2. CASE Start
  <2>1. dropbox = "none" /\ dropbox' \in {"plain", "filtered"} /\ UNCHANGED launcher
    BY <1>2 DEF Start
  <2> QED
    BY <2>1, OthersStep
<1>3. CASE Quit
  BY <1>3, OthersStep DEF Quit
<1>4. CASE UNCHANGED vars
  BY <1>4 DEF LaunchInv, vars
<1> QED
  BY <1>1, <1>2, <1>3, <1>4, InstallerStep DEF Next

(* A Dropbox that the launcher started never runs without the DLL, and     *)
(* none stays suspended when the launcher is done (DropboxFilter.cpp:368). *)
THEOREM LaunchesFiltered == Spec => LaunchedFiltered
<1>1. Init => LaunchInv
  BY DEF Init, LaunchInv, Held
<1>2. LaunchInv /\ [Next]_vars => LaunchInv'
  BY LaunchStep
<1>3. LaunchInv /\ [Next]_vars =>
        [/\ dropbox \in Held => dropbox' # "plain"
         /\ dropbox' \in Held => launcher' # "none"]_vars
  BY LaunchStep DEF Launches
<1> QED
  BY <1>1, <1>2, <1>3, PTL DEF Spec, LaunchedFiltered

-----------------------------------------------------------------------------
(* The text of the list.                                                   *)

(* Where a part occurs, character by character.                            *)
LEMMA OccursWhere ==
  ASSUME NEW text \in Seq(Char), NEW part \in Seq(Char),
         NEW k \in 1 .. Len(text) - Len(part) + 1
  PROVE  OccursAt(text, part, k) <=> \A i \in 1 .. Len(part) : text[k + i - 1] = part[i]
<1>0. Len(text) \in Nat /\ Len(part) \in Nat
  BY LenProperties
<1>1. Len(text) \in Nat /\ Len(part) \in Nat /\ k \in Nat
  BY <1>0
<1> DEFINE n    == k + Len(part) - 1
           sub  == SubSeq(text, k, n)
<1>2. \A i \in k .. n : text[i] \in Char
  BY <1>1, ElementOfSeq
<1>3. sub \in Seq(Char) /\ (\A i \in 1 .. n - k + 1 : sub[i] = text[k + i - 1])
  BY <1>1, <1>2, SubSeqProperties
<1>4. Len(sub) = IF k <= n THEN n - k + 1 ELSE 0
  BY <1>1, <1>2, SubSeqProperties
<1>5. n - k + 1 = Len(part) /\ Len(sub) = Len(part)
  BY <1>1, <1>4
<1>6. \A i \in 1 .. Len(part) : sub[i] = text[k + i - 1]
  BY <1>3, <1>5
<1> HIDE DEF sub
<1>7. sub = part <=> \A i \in 1 .. Len(part) : sub[i] = part[i]
  BY <1>3, <1>5, SeqEqual
<1>8. OccursAt(text, part, k) <=> sub = part
  BY DEF OccursAt, sub
<1>9. (\A i \in 1 .. Len(part) : sub[i] = part[i]) <=>
        (\A i \in 1 .. Len(part) : text[k + i - 1] = part[i])
  BY <1>6
<1> QED
  BY <1>7, <1>8, <1>9

LEMMA OccurrencesDef ==
  ASSUME NEW text \in Seq(Char), NEW part \in Seq(Char), NEW k \in Int
  PROVE  k \in Occurrences(text, part) <=>
           /\ 1 <= k /\ k + Len(part) <= Len(text) + 1
           /\ \A i \in 1 .. Len(part) : text[k + i - 1] = part[i]
<1>1. Len(text) \in Nat /\ Len(part) \in Nat
  BY LenProperties
<1>2. k \in Occurrences(text, part) <=>
        k \in 1 .. Len(text) - Len(part) + 1 /\ OccursAt(text, part, k)
  BY DEF Occurrences
<1>3. k \in 1 .. Len(text) - Len(part) + 1 <=> 1 <= k /\ k + Len(part) <= Len(text) + 1
  BY <1>1
<1>4. k \in 1 .. Len(text) - Len(part) + 1 =>
        (OccursAt(text, part, k) <=> \A i \in 1 .. Len(part) : text[k + i - 1] = part[i])
  BY OccursWhere
<1> QED
  BY <1>2, <1>3, <1>4

LEMMA OccurrencesInt ==
  ASSUME NEW text \in Seq(Char), NEW part \in Seq(Char), NEW k \in Occurrences(text, part)
  PROVE  k \in Int /\ 1 <= k /\ k + Len(part) <= Len(text) + 1
<1>1. Len(text) \in Nat /\ Len(part) \in Nat
  BY LenProperties
<1> QED
  BY <1>1 DEF Occurrences

LEMMA NothingOccurs ==
  ASSUME NEW part \in Seq(Char), part # <<>>
  PROVE  Occurrences(<<>>, part) = {}
<1>1. SUFFICES ASSUME NEW k \in Occurrences(<<>>, part)
               PROVE  FALSE
  OBVIOUS
<1>2. <<>> \in Seq(Char) /\ Len(<<>>) = 0
  OBVIOUS
<1>3. Len(part) \in Nat \ {0}
  BY EmptySeq
<1>4. k \in Int /\ 1 <= k /\ k + Len(part) <= Len(<<>>) + 1
  BY <1>1, <1>2, OccurrencesInt
<1> QED
  BY <1>2, <1>3, <1>4

(* What is left when characters are taken off the front.                   *)
LEMMA FromProperties ==
  ASSUME NEW text \in Seq(Char), NEW m \in Nat \ {0}
  PROVE  /\ From(text, m) \in Seq(Char)
         /\ Len(From(text, m)) = IF m <= Len(text) THEN Len(text) - m + 1 ELSE 0
         /\ \A i \in 1 .. Len(From(text, m)) : From(text, m)[i] = text[m + i - 1]
<1>1. Len(text) \in Nat
  BY LenProperties
<1>2. \A i \in m .. Len(text) : text[i] \in Char
  BY <1>1, ElementOfSeq
<1> DEFINE sub == SubSeq(text, m, Len(text))
<1>3. sub \in Seq(Char) /\ (\A i \in 1 .. Len(text) - m + 1 : sub[i] = text[m + i - 1])
  BY <1>1, <1>2, SubSeqProperties
<1>4. Len(sub) = IF m <= Len(text) THEN Len(text) - m + 1 ELSE 0
  BY <1>1, <1>2, SubSeqProperties
<1> HIDE DEF sub
<1>5. \A i \in 1 .. Len(sub) : sub[i] = text[m + i - 1]
  BY <1>1, <1>3, <1>4
<1> QED
  BY <1>3, <1>4, <1>5 DEF From, sub

LEMMA FromAll ==
  ASSUME NEW text \in Seq(Char)
  PROVE  From(text, 1) = text
  BY SubSeqFull DEF From

LEMMA FromOccurrences ==
  ASSUME NEW text \in Seq(Char), NEW part \in Seq(Char), part # <<>>, NEW m \in Nat \ {0},
         NEW k \in Int
  PROVE  k \in Occurrences(From(text, m), part) <=>
           1 <= k /\ k + m - 1 \in Occurrences(text, part)
<1> DEFINE rest == From(text, m)
<1>1. /\ rest \in Seq(Char)
      /\ Len(rest) = IF m <= Len(text) THEN Len(text) - m + 1 ELSE 0
      /\ \A i \in 1 .. Len(rest) : rest[i] = text[m + i - 1]
  BY FromProperties
<1>2. Len(text) \in Nat /\ Len(part) \in Nat \ {0}
  BY LenProperties, EmptySeq
<1> HIDE DEF rest
<1>3. k \in Occurrences(rest, part) <=>
        /\ 1 <= k /\ k + Len(part) <= Len(rest) + 1
        /\ \A i \in 1 .. Len(part) : rest[k + i - 1] = part[i]
  BY <1>1, OccurrencesDef
<1>4. k + m - 1 \in Occurrences(text, part) <=>
        /\ 1 <= k + m - 1 /\ k + m - 1 + Len(part) <= Len(text) + 1
        /\ \A i \in 1 .. Len(part) : text[k + m - 1 + i - 1] = part[i]
  BY OccurrencesDef
<1>5. 1 <= k => (k + Len(part) <= Len(rest) + 1 <=> k + m - 1 + Len(part) <= Len(text) + 1)
  BY <1>1, <1>2
<1>6. ASSUME 1 <= k, k + Len(part) <= Len(rest) + 1, NEW i \in 1 .. Len(part)
      PROVE  rest[k + i - 1] = text[k + m - 1 + i - 1]
  <2>1. k + i - 1 \in 1 .. Len(rest) /\ m + (k + i - 1) - 1 = k + m - 1 + i - 1
    BY <1>1, <1>2, <1>6
  <2> QED
    BY <1>1, <2>1
<1>7. 1 <= k => 1 <= k + m - 1
  OBVIOUS
<1>8. k \in Occurrences(rest, part) <=> 1 <= k /\ k + m - 1 \in Occurrences(text, part)
  BY <1>3, <1>4, <1>5, <1>6, <1>7
<1> QED
  BY <1>8 DEF rest

LEMMA FromCharAt ==
  ASSUME NEW text \in Seq(Char), NEW m \in Nat \ {0}, NEW k \in Nat \ {0}
  PROVE  CharAt(From(text, m), k) = CharAt(text, k + m - 1)
<1>1. /\ Len(From(text, m)) = IF m <= Len(text) THEN Len(text) - m + 1 ELSE 0
      /\ \A i \in 1 .. Len(From(text, m)) : From(text, m)[i] = text[m + i - 1]
  BY FromProperties
<1>2. Len(text) \in Nat
  BY LenProperties
<1>3. k \in 1 .. Len(From(text, m)) <=> k + m - 1 \in 1 .. Len(text)
  BY <1>1, <1>2
<1>4. k \in 1 .. Len(From(text, m)) => From(text, m)[k] = text[k + m - 1]
  <2>1. m + k - 1 = k + m - 1
    OBVIOUS
  <2> QED
    BY <1>1, <2>1
<1> QED
  BY <1>3, <1>4 DEF CharAt

(* What strcat makes of it.                                                *)
LEMMA AppendedProperties ==
  ASSUME NEW text \in Seq(Char), NEW entry \in Seq(Char)
  PROVE  LET new == text \o Appended(text, entry) IN
         /\ new \in Seq(Char)
         /\ text = <<>> => new = entry
         /\ text # <<>> =>
              /\ Len(new) = Len(text) + 1 + Len(entry)
              /\ \A i \in 1 .. Len(text) : new[i] = text[i]
              /\ new[Len(text) + 1] = Comma
              /\ \A i \in 1 .. Len(entry) : new[Len(text) + 1 + i] = entry[i]
<1> DEFINE tail == <<Comma>> \o entry
           new  == text \o Appended(text, entry)
<1>1. Len(text) \in Nat /\ Len(entry) \in Nat
  BY LenProperties
<1>2. <<Comma>> \in Seq(Char) /\ Len(<<Comma>>) = 1 /\ <<Comma>>[1] = Comma
  BY CharAssumption
<1>3. /\ tail \in Seq(Char) /\ Len(tail) = 1 + Len(entry)
      /\ \A i \in 1 .. 1 + Len(entry) : tail[i] = IF i <= 1 THEN <<Comma>>[i] ELSE entry[i - 1]
  BY <1>2, ConcatProperties
<1>4. CASE text = <<>>
  <2>1. Appended(text, entry) = entry
    BY <1>4, ConcatEmptySeq DEF Appended
  <2>2. new = entry
    BY <1>4, <2>1, ConcatEmptySeq
  <2> QED
    BY <1>4, <2>2
<1>5. CASE text # <<>>
  <2>1. Appended(text, entry) = tail
    BY <1>5 DEF Appended
  <2> HIDE DEF tail
  <2>2. /\ new \in Seq(Char) /\ Len(new) = Len(text) + Len(tail)
        /\ \A i \in 1 .. Len(text) + Len(tail) :
             new[i] = IF i <= Len(text) THEN text[i] ELSE tail[i - Len(text)]
    BY <1>3, <2>1, ConcatProperties
  <2> HIDE DEF new
  <2>3. \A i \in 1 .. Len(text) : new[i] = text[i]
    BY <1>1, <1>3, <2>2
  <2>4. new[Len(text) + 1] = Comma
    <3>1. Len(text) + 1 \in 1 .. Len(text) + Len(tail) /\ Len(text) + 1 - Len(text) = 1
      BY <1>1, <1>3
    <3>2. new[Len(text) + 1] = tail[1] /\ tail[1] = Comma
      BY <1>1, <1>2, <1>3, <2>2, <3>1
    <3> QED
      BY <3>2
  <2>5. ASSUME NEW i \in 1 .. Len(entry)
        PROVE  new[Len(text) + 1 + i] = entry[i]
    <3>1. /\ Len(text) + 1 + i \in 1 .. Len(text) + Len(tail)
          /\ ~(Len(text) + 1 + i <= Len(text))
          /\ Len(text) + 1 + i - Len(text) = i + 1
          /\ i + 1 \in 1 .. 1 + Len(entry) /\ ~(i + 1 <= 1) /\ i + 1 - 1 = i
      BY <1>1, <1>3
    <3>2. new[Len(text) + 1 + i] = tail[i + 1] /\ tail[i + 1] = entry[i]
      BY <1>3, <2>2, <3>1
    <3> QED
      BY <3>2
  <2>6. Len(new) = Len(text) + 1 + Len(entry)
    BY <1>1, <1>3, <2>2
  <2> QED
    BY <1>5, <2>2, <2>3, <2>4, <2>5, <2>6 DEF new
<1> QED
  BY <1>4, <1>5

(* A part without a comma occurs in one of the two.                        *)
LEMMA AppendedOccurrences ==
  ASSUME NEW text \in Seq(Char), text # <<>>, NEW entry \in Seq(Char),
         NEW part \in Seq(Char), part # <<>>, \A i \in 1 .. Len(part) : part[i] # Comma,
         NEW k \in Int
  PROVE  k \in Occurrences(text \o Appended(text, entry), part) <=>
           \/ k \in Occurrences(text, part)
           \/ k - (Len(text) + 1) \in Occurrences(entry, part)
<1> DEFINE new == text \o Appended(text, entry)
           at  == k - (Len(text) + 1)
<1>1. /\ new \in Seq(Char) /\ Len(new) = Len(text) + 1 + Len(entry)
      /\ \A i \in 1 .. Len(text) : new[i] = text[i]
      /\ new[Len(text) + 1] = Comma
      /\ \A i \in 1 .. Len(entry) : new[Len(text) + 1 + i] = entry[i]
  BY AppendedProperties
<1>2. Len(text) \in Nat /\ Len(entry) \in Nat /\ Len(part) \in Nat \ {0}
  BY LenProperties, EmptySeq
<1> HIDE DEF new
<1>3. k \in Occurrences(new, part) <=>
        /\ 1 <= k /\ k + Len(part) <= Len(new) + 1
        /\ \A i \in 1 .. Len(part) : new[k + i - 1] = part[i]
  BY <1>1, OccurrencesDef
<1>4. k \in Occurrences(text, part) <=>
        /\ 1 <= k /\ k + Len(part) <= Len(text) + 1
        /\ \A i \in 1 .. Len(part) : text[k + i - 1] = part[i]
  BY OccurrencesDef
<1>5. at \in Int
  BY <1>2
<1>6. at \in Occurrences(entry, part) <=>
        /\ 1 <= at /\ at + Len(part) <= Len(entry) + 1
        /\ \A i \in 1 .. Len(part) : entry[at + i - 1] = part[i]
  BY <1>5, OccurrencesDef
<1>7. CASE k + Len(part) <= Len(text) + 1
  <2>1. ~(1 <= at)
    BY <1>2, <1>7
  <2>2. k + Len(part) <= Len(new) + 1
    BY <1>1, <1>2, <1>7
  <2>3. ASSUME 1 <= k, NEW i \in 1 .. Len(part)
        PROVE  new[k + i - 1] = text[k + i - 1]
    <3>1. k + i - 1 \in 1 .. Len(text)
      BY <1>2, <1>7, <2>3
    <3> QED
      BY <1>1, <3>1
  <2> QED
    BY <1>3, <1>4, <1>6, <1>7, <2>1, <2>2, <2>3 DEF new
<1>8. CASE 1 <= at
  <2>1. ~(k + Len(part) <= Len(text) + 1) /\ 1 <= k
    BY <1>2, <1>8
  <2>2. k + Len(part) <= Len(new) + 1 <=> at + Len(part) <= Len(entry) + 1
    BY <1>1, <1>2
  <2>3. ASSUME at + Len(part) <= Len(entry) + 1, NEW i \in 1 .. Len(part)
        PROVE  new[k + i - 1] = entry[at + i - 1]
    <3>1. at + i - 1 \in 1 .. Len(entry) /\ Len(text) + 1 + (at + i - 1) = k + i - 1
      BY <1>2, <1>8, <2>3
    <3> QED
      BY <1>1, <3>1
  <2> QED
    BY <1>3, <1>4, <1>6, <1>8, <2>1, <2>2, <2>3 DEF new
<1>9. CASE ~(k + Len(part) <= Len(text) + 1) /\ ~(1 <= at)
  <2>1. ASSUME k \in Occurrences(new, part)
        PROVE  FALSE
    <3> DEFINE i == Len(text) + 2 - k
    <3>1. i \in 1 .. Len(part) /\ k + i - 1 = Len(text) + 1
      BY <1>2, <1>9
    <3> QED
      BY <1>1, <1>3, <2>1, <3>1
  <2> QED
    BY <1>4, <1>6, <1>9, <2>1 DEF new
<1> QED
  BY <1>7, <1>8, <1>9

LEMMA AppendedCharAt ==
  ASSUME NEW text \in Seq(Char), text # <<>>, NEW entry \in Seq(Char), NEW k \in Int
  PROVE  LET new == text \o Appended(text, entry) IN
         /\ k \in 0 .. Len(text) => CharAt(new, k) = CharAt(text, k)
         /\ k = Len(text) + 1 => CharAt(new, k) = Comma
         /\ k > Len(text) + 1 => CharAt(new, k) = CharAt(entry, k - (Len(text) + 1))
<1> DEFINE new == text \o Appended(text, entry)
           at  == k - (Len(text) + 1)
<1>1. /\ new \in Seq(Char) /\ Len(new) = Len(text) + 1 + Len(entry)
      /\ \A i \in 1 .. Len(text) : new[i] = text[i]
      /\ new[Len(text) + 1] = Comma
      /\ \A i \in 1 .. Len(entry) : new[Len(text) + 1 + i] = entry[i]
  BY AppendedProperties
<1>2. Len(text) \in Nat /\ Len(entry) \in Nat
  BY LenProperties
<1> HIDE DEF new
<1>3. k \in 0 .. Len(text) => CharAt(new, k) = CharAt(text, k)
  BY <1>1, <1>2 DEF CharAt
<1>4. k = Len(text) + 1 => CharAt(new, k) = Comma
  BY <1>1, <1>2 DEF CharAt
<1>5. ASSUME k > Len(text) + 1
      PROVE  CharAt(new, k) = CharAt(entry, at)
  <2>1. /\ k \in 1 .. Len(new) <=> at \in 1 .. Len(entry)
        /\ Len(text) + 1 + at = k
    BY <1>1, <1>2, <1>5
  <2> QED
    BY <1>1, <2>1 DEF CharAt
<1> QED
  BY <1>3, <1>4, <1>5 DEF new

-----------------------------------------------------------------------------
(* Our path in the list, and the other programs' paths.                    *)

(* Our path is at the front of the list or not in it.                      *)
Ended(text, path, k) == CharAt(text, k + Len(path)) \in {Comma, "nul"}

Fronted(text) == \A k \in Occurrences(text, Ours) : k = 1 /\ Ended(text, Ours, 1)

(* The other programs' paths are listed, behind ours, and every comma     *)
(* divides two entries.                                                    *)
ListedBehind(text, path) ==
  \E k \in Occurrences(text, path) :
    /\ CharAt(text, k - 1) \in {Comma, "nul"} /\ Ended(text, path, k)
    /\ Contains(text, Ours) => k > Len(Ours) + 1

Clean(text) ==
  \A i \in 1 .. Len(text) :
    text[i] = Comma => i > 1 /\ i < Len(text) /\ text[i + 1] # Comma

LEMMA OursProperties ==
  /\ Ours \in Seq(Char) /\ Ours # <<>> /\ Len(Ours) \in Nat \ {0}
  /\ \A i \in 1 .. Len(Ours) : Ours[i] # Comma
<1>1. Ours \in Seq(Char) /\ Ours # <<>> /\ (\A i \in 1 .. Len(Ours) : Ours[i] # Comma)
  BY OursAssumption, PathsAssumption
<1> QED
  BY <1>1, EmptySeq

LEMMA OthersProperties ==
  ASSUME NEW path \in Others
  PROVE  /\ path \in Seq(Char) /\ path # <<>> /\ Len(path) \in Nat \ {0}
         /\ \A i \in 1 .. Len(path) : path[i] # Comma
         /\ ~Contains(path, Ours)
<1>1. path \in Seq(Char) /\ path # <<>> /\ (\A i \in 1 .. Len(path) : path[i] # Comma)
  BY OthersAssumption, PathsAssumption
<1>2. ~Contains(path, Ours)
  BY PathsAssumption
<1> QED
  BY <1>1, <1>2, EmptySeq

LEMMA ContainsOurs ==
  ASSUME NEW text
  PROVE  Contains(text, Ours) <=> Occurrences(text, Ours) # {}
  BY OursProperties DEF Contains

(* A text's characters.                                                    *)
LEMMA CharAtProperties ==
  ASSUME NEW text \in Seq(Char), NEW k \in Int
  PROVE  /\ CharAt(text, k) = "nul" <=> k \notin 1 .. Len(text)
         /\ k \in 1 .. Len(text) => CharAt(text, k) = text[k] /\ text[k] \in Char
<1>1. k \in 1 .. Len(text) => text[k] \in Char
  BY ElementOfSeq
<1> QED
  BY <1>1, CharAssumption DEF CharAt

(* What is taken off the front leaves our path at the front, or takes it   *)
(* with it.                                                                *)
LEMMA FrontedFrom ==
  ASSUME NEW text \in Seq(Char), Fronted(text), NEW m \in Nat \ {0}
  PROVE  Fronted(From(text, m)) /\ (m > 1 => ~Contains(From(text, m), Ours))
<1>1. From(text, m) \in Seq(Char)
  BY FromProperties
<1>2. ASSUME m > 1
      PROVE  Occurrences(From(text, m), Ours) = {}
  <2>1. SUFFICES ASSUME NEW k \in Occurrences(From(text, m), Ours)
                 PROVE  FALSE
    OBVIOUS
  <2>2. k \in Int /\ 1 <= k
    BY <1>1, OursProperties, OccurrencesInt
  <2>3. k + m - 1 \in Occurrences(text, Ours)
    BY <2>1, <2>2, OursProperties, FromOccurrences
  <2>4. k + m - 1 = 1
    BY <2>3 DEF Fronted
  <2> QED
    BY <1>2, <2>2, <2>4
<1>3. CASE m > 1
  BY <1>2, <1>3, ContainsOurs DEF Fronted
<1>4. CASE m = 1
  BY <1>4, FromAll
<1> QED
  BY <1>3, <1>4

LEMMA FrontedListed ==
  ASSUME NEW text \in Seq(Char), Fronted(text), Contains(text, Ours)
  PROVE  /\ Occurrences(text, Ours) = {1} /\ Ended(text, Ours, 1)
         /\ Listed(text, Ours) /\ First(text, Ours) = 1
<1>1. Occurrences(text, Ours) # {}
  BY ContainsOurs
<1>2. Occurrences(text, Ours) = {1} /\ Ended(text, Ours, 1)
  BY <1>1 DEF Fronted
<1>3. Listed(text, Ours)
  <2>1. CharAt(text, 1 - 1) = "nul"
    BY DEF CharAt
  <2> QED
    BY <1>2, <2>1 DEF Listed, Ended
<1>4. First(text, Ours) = 1
  BY <1>2, OursProperties DEF First
<1> QED
  BY <1>2, <1>3, <1>4

(* The memmoves.                                                           *)
LEMMA RemovedFrom ==
  ASSUME NEW text \in Seq(Char), NEW path \in Seq(Char)
  PROVE  \E m \in Nat \ {0} : Removed(text, path) = From(text, m) /\ (path # <<>> => m > 1)
<1>1. Len(path) \in Nat /\ (path # <<>> => Len(path) # 0)
  BY EmptySeq
<1>2. Removed(text, path) = From(text, Len(path) + 2) \/ Removed(text, path) = From(text, Len(path) + 1)
  BY DEF Removed
<1>3. Len(path) + 2 \in Nat \ {0} /\ Len(path) + 2 > 1
  BY <1>1
<1>4. Len(path) + 1 \in Nat \ {0} /\ (path # <<>> => Len(path) + 1 > 1)
  BY <1>1
<1> QED
  BY <1>2, <1>3, <1>4

LEMMA RemovedEmpty ==
  ASSUME NEW text \in Seq(Char), Clean(text)
  PROVE  Removed(text, <<>>) = text
<1>1. First(text, <<>>) = 1 /\ Len(<<>>) = 0
  BY DEF First
<1>2. CharAt(text, 0) # Comma
  BY CharAssumption DEF CharAt
<1>3. CharAt(text, 1) # Comma
  <2>1. 1 \in 1 .. Len(text) => text[1] # Comma
    BY DEF Clean
  <2> QED
    BY <2>1, CharAssumption DEF CharAt
<1>4. Removed(text, <<>>) = From(text, 1)
  BY <1>1, <1>2, <1>3 DEF Removed
<1> QED
  BY <1>4, FromAll

LEMMA RemovedOurs ==
  ASSUME NEW text \in Seq(Char), Fronted(text), Contains(text, Ours)
  PROVE  \/ Len(text) = Len(Ours) /\ Removed(text, Ours) = <<>>
         \/ /\ Len(Ours) + 1 \in 1 .. Len(text) /\ text[Len(Ours) + 1] = Comma
            /\ Removed(text, Ours) = From(text, Len(Ours) + 2)
<1>1. 1 \in Occurrences(text, Ours) /\ Ended(text, Ours, 1) /\ First(text, Ours) = 1
  BY FrontedListed
<1>2. Len(text) \in Nat /\ Len(Ours) \in Nat \ {0} /\ Len(Ours) <= Len(text)
  <2>1. 1 + Len(Ours) <= Len(text) + 1
    BY <1>1, OursProperties, OccurrencesInt
  <2> QED
    BY <2>1, OursProperties, LenProperties
<1>3. CharAt(text, 0) # Comma
  BY CharAssumption DEF CharAt
<1>4. 1 - 1 = 0 /\ 1 + Len(Ours) = Len(Ours) + 1
  BY <1>2
<1>5. CharAt(text, Len(Ours) + 1) \in {Comma, "nul"}
  BY <1>1, <1>4 DEF Ended
<1>6. Removed(text, Ours) = IF CharAt(text, Len(Ours) + 1) = Comma
                              THEN From(text, Len(Ours) + 2) ELSE From(text, Len(Ours) + 1)
  BY <1>1, <1>3, <1>4 DEF Removed
<1>7. Len(Ours) + 1 \in Int
  BY <1>2
<1>8. CASE Len(text) = Len(Ours)
  <2>1. CharAt(text, Len(Ours) + 1) = "nul"
    BY <1>2, <1>8 DEF CharAt
  <2>2. Removed(text, Ours) = From(text, Len(Ours) + 1)
    BY <1>6, <2>1, CharAssumption
  <2>3. From(text, Len(Ours) + 1) = <<>>
    BY <1>2, <1>8, SubSeqEmpty DEF From
  <2> QED
    BY <1>8, <2>2, <2>3
<1>9. CASE Len(text) # Len(Ours)
  <2>1. Len(Ours) + 1 \in 1 .. Len(text)
    BY <1>2, <1>9
  <2>2. CharAt(text, Len(Ours) + 1) = Comma /\ text[Len(Ours) + 1] = Comma
    BY <1>5, <1>7, <2>1, CharAtProperties
  <2> QED
    BY <1>6, <2>1, <2>2
<1> QED
  BY <1>8, <1>9

(* The list that is our path alone.                                        *)
LEMMA OursAlone ==
  Fronted(Ours) /\ Listed(Ours, Ours) /\ Clean(Ours) /\ <<>> \o Appended(<<>>, Ours) = Ours
<1>1. Clean(Ours)
  BY OursProperties DEF Clean
<1>2. \A k \in Occurrences(Ours, Ours) : k = 1
  BY OursProperties DEF Occurrences
<1>3. CharAt(Ours, 0) = "nul" /\ CharAt(Ours, 1 + Len(Ours)) = "nul"
  BY OursProperties DEF CharAt
<1>4. 1 \in Occurrences(Ours, Ours)
  <2>1. \A i \in 1 .. Len(Ours) : Ours[1 + i - 1] = Ours[i]
    BY OursProperties
  <2>2. 1 + Len(Ours) <= Len(Ours) + 1
    BY OursProperties
  <2> QED
    BY <2>1, <2>2, OursProperties, OccurrencesDef
<1>5. Fronted(Ours)
  BY <1>2, <1>3 DEF Fronted, Ended
<1>6. Listed(Ours, Ours)
  <2>1. 1 - 1 = 0
    OBVIOUS
  <2> QED
    BY <1>3, <1>4, <2>1 DEF Listed
<1>7. <<>> \in Seq(Char)
  OBVIOUS
<1>8. <<>> \o Appended(<<>>, Ours) = Ours
  BY <1>7, OursProperties, AppendedProperties
<1> QED
  BY <1>1, <1>5, <1>6, <1>8

(* Another program's path is added behind what is there.                   *)
LEMMA AppendedOurs ==
  ASSUME NEW text \in Seq(Char), NEW entry \in Others
  PROVE  /\ Contains(text \o Appended(text, entry), Ours) <=> Contains(text, Ours)
         /\ Fronted(text) => Fronted(text \o Appended(text, entry))
         /\ Listed(text, Ours) => Listed(text \o Appended(text, entry), Ours)
<1> DEFINE new == text \o Appended(text, entry)
<1>1. entry \in Seq(Char) /\ Occurrences(entry, Ours) = {}
  BY OthersProperties, ContainsOurs
<1>2. new \in Seq(Char) /\ Len(text) \in Nat
  BY <1>1, AppendedProperties, LenProperties
<1>3. CASE text = <<>>
  <2>1. new = entry
    BY <1>1, <1>3, AppendedProperties
  <2>2. Occurrences(text, Ours) = {}
    BY <1>3, OursProperties, NothingOccurs
  <2> QED
    BY <1>1, <2>1, <2>2, ContainsOurs DEF Fronted, Listed
<1>4. CASE text # <<>>
  <2> HIDE DEF new
  <2>1. ASSUME NEW k \in Int
        PROVE  k \in Occurrences(new, Ours) <=> k \in Occurrences(text, Ours)
    BY <1>1, <1>4, OursProperties, AppendedOccurrences DEF new
  <2>2. Occurrences(new, Ours) = Occurrences(text, Ours)
    <3>1. \A k \in Occurrences(new, Ours) : k \in Int
      BY <1>2, OursProperties, OccurrencesInt
    <3>2. \A k \in Occurrences(text, Ours) : k \in Int
      BY OursProperties, OccurrencesInt
    <3> QED
      BY <2>1, <3>1, <3>2
  <2>3. ASSUME NEW k \in Occurrences(text, Ours)
        PROVE  /\ CharAt(new, k - 1) = CharAt(text, k - 1)
               /\ CharAt(text, k + Len(Ours)) \in {Comma, "nul"} =>
                    CharAt(new, k + Len(Ours)) \in {Comma, "nul"}
    <3>1. k \in Int /\ 1 <= k /\ k + Len(Ours) <= Len(text) + 1
      BY <2>3, OursProperties, OccurrencesInt
    <3>2. k - 1 \in 0 .. Len(text) /\ k - 1 \in Int
      BY <1>2, <3>1, OursProperties
    <3>3. k + Len(Ours) \in 0 .. Len(text) \/ k + Len(Ours) = Len(text) + 1
      BY <1>2, <3>1, OursProperties
    <3>4. k + Len(Ours) \in Int
      BY <3>1, OursProperties
    <3>5. CharAt(new, k - 1) = CharAt(text, k - 1)
      BY <1>1, <1>4, <3>2, AppendedCharAt DEF new
    <3>6. CharAt(new, k + Len(Ours)) \in {CharAt(text, k + Len(Ours)), Comma}
      BY <1>1, <1>4, <3>3, <3>4, AppendedCharAt DEF new
    <3> QED
      BY <3>5, <3>6
  <2>4. Contains(new, Ours) <=> Contains(text, Ours)
    BY <2>2, ContainsOurs
  <2>5. Fronted(text) => Fronted(new)
    BY <2>2, <2>3 DEF Fronted, Ended
  <2>6. Listed(text, Ours) => Listed(new, Ours)
    <3>1. ASSUME NEW k \in Occurrences(text, Ours), CharAt(text, k - 1) \in {Comma, "nul"},
                 CharAt(text, k + Len(Ours)) \in {Comma, "nul"}
          PROVE  /\ k \in Occurrences(new, Ours) /\ CharAt(new, k - 1) \in {Comma, "nul"}
                 /\ CharAt(new, k + Len(Ours)) \in {Comma, "nul"}
      BY <2>2, <2>3, <3>1
    <3> QED
      BY <3>1 DEF Listed
  <2> QED
    BY <2>4, <2>5, <2>6 DEF new
<1> QED
  BY <1>3, <1>4

LEMMA AppendedClean ==
  ASSUME NEW text \in Seq(Char), Clean(text), NEW entry \in Others
  PROVE  Clean(text \o Appended(text, entry))
<1> DEFINE new == text \o Appended(text, entry)
<1>1. /\ entry \in Seq(Char) /\ Len(entry) \in Nat \ {0}
      /\ \A i \in 1 .. Len(entry) : entry[i] # Comma
  BY OthersProperties
<1>2. Len(text) \in Nat
  BY LenProperties
<1>3. CASE text = <<>>
  <2>1. new = entry
    BY <1>1, <1>3, AppendedProperties
  <2> QED
    BY <1>1, <2>1 DEF Clean
<1>4. CASE text # <<>>
  <2>1. /\ Len(new) = Len(text) + 1 + Len(entry)
        /\ \A i \in 1 .. Len(text) : new[i] = text[i]
        /\ \A i \in 1 .. Len(entry) : new[Len(text) + 1 + i] = entry[i]
    BY <1>1, <1>4, AppendedProperties
  <2> HIDE DEF new
  <2>2. SUFFICES ASSUME NEW i \in 1 .. Len(new), new[i] = Comma
                 PROVE  i > 1 /\ i < Len(new) /\ new[i + 1] # Comma
    BY DEF Clean, new
  <2>3. CASE i <= Len(text)
    <3>1. i \in 1 .. Len(text) /\ text[i] = Comma
      BY <1>2, <2>1, <2>2, <2>3
    <3>2. i > 1 /\ i < Len(text) /\ text[i + 1] # Comma
      BY <3>1 DEF Clean
    <3>3. i + 1 \in 1 .. Len(text) /\ i < Len(new)
      BY <1>1, <1>2, <2>1, <3>1, <3>2
    <3> QED
      BY <2>1, <3>2, <3>3
  <2>4. CASE i = Len(text) + 1
    <3>1. Len(text) # 0
      BY <1>4, EmptySeq
    <3>2. 1 \in 1 .. Len(entry) /\ i + 1 = Len(text) + 1 + 1
      BY <1>1, <2>4
    <3>3. new[i + 1] # Comma
      BY <1>1, <2>1, <3>2
    <3> QED
      BY <1>1, <1>2, <2>1, <2>4, <3>1, <3>3
  <2>5. CASE i > Len(text) + 1
    <3> DEFINE j == i - (Len(text) + 1)
    <3>1. j \in 1 .. Len(entry) /\ Len(text) + 1 + j = i
      BY <1>1, <1>2, <2>1, <2>5
    <3> HIDE DEF j
    <3>2. new[Len(text) + 1 + j] = entry[j] /\ entry[j] # Comma
      BY <1>1, <2>1, <3>1
    <3> QED
      BY <2>2, <3>1, <3>2
  <2> QED
    BY <1>2, <2>1, <2>3, <2>4, <2>5
<1> QED
  BY <1>3, <1>4

(* The paths that are listed behind ours still are, and so is the new one. *)
LEMMA AppendedListed ==
  ASSUME NEW text \in Seq(Char), NEW entry \in Others
  PROVE  /\ ListedBehind(text \o Appended(text, entry), entry)
         /\ \A old \in Others :
              ListedBehind(text, old) => ListedBehind(text \o Appended(text, entry), old)
<1> DEFINE new == text \o Appended(text, entry)
<1>1. /\ entry \in Seq(Char) /\ entry # <<>> /\ Len(entry) \in Nat \ {0}
      /\ \A i \in 1 .. Len(entry) : entry[i] # Comma
      /\ ~Contains(entry, Ours)
  BY OthersProperties
<1>2. Len(text) \in Nat /\ new \in Seq(Char)
  BY <1>1, LenProperties, AppendedProperties
<1>3. Contains(new, Ours) => Contains(text, Ours)
  BY AppendedOurs
<1>4. 1 \in Occurrences(entry, entry)
  <2>1. \A i \in 1 .. Len(entry) : entry[1 + i - 1] = entry[i]
    BY <1>1
  <2>2. 1 + Len(entry) <= Len(entry) + 1
    BY <1>1
  <2> QED
    BY <1>1, <2>1, <2>2, OccurrencesDef
<1>5. CharAt(entry, 0) = "nul" /\ CharAt(entry, 1 + Len(entry)) = "nul"
  BY <1>1 DEF CharAt
<1>6. CASE text = <<>>
  <2>1. new = entry
    BY <1>1, <1>6, AppendedProperties
  <2>2. ListedBehind(entry, entry)
    <3>1. 1 - 1 = 0
      OBVIOUS
    <3> QED
      BY <1>1, <1>4, <1>5, <3>1 DEF ListedBehind, Ended
  <2>3. ASSUME NEW old \in Others, NEW k \in Occurrences(text, old)
        PROVE  FALSE
    BY <1>6, <2>3, OthersProperties, NothingOccurs
  <2> QED
    BY <2>1, <2>2, <2>3 DEF ListedBehind
<1>7. CASE text # <<>>
  <2> HIDE DEF new
  <2>1. ListedBehind(new, entry)
    <3> DEFINE k == Len(text) + 2
    <3>1. k \in Int /\ k - (Len(text) + 1) = 1
      BY <1>2
    <3>2. k \in Occurrences(new, entry)
      BY <1>1, <1>4, <1>7, <3>1, AppendedOccurrences DEF new
    <3>3. CharAt(new, k - 1) = Comma
      <4>1. k - 1 = Len(text) + 1 /\ k - 1 \in Int
        BY <1>2
      <4> QED
        BY <1>1, <1>7, <4>1, AppendedCharAt DEF new
    <3>4. CharAt(new, k + Len(entry)) = "nul"
      <4>1. k + Len(entry) \in Int /\ k + Len(entry) > Len(text) + 1
        BY <1>1, <1>2
      <4>2. k + Len(entry) - (Len(text) + 1) = 1 + Len(entry)
        BY <1>1, <1>2
      <4>3. CharAt(new, k + Len(entry)) = CharAt(entry, 1 + Len(entry))
        BY <1>1, <1>7, <4>1, <4>2, AppendedCharAt DEF new
      <4> QED
        BY <1>5, <4>3
    <3>5. Contains(new, Ours) => k > Len(Ours) + 1
      <4>1. SUFFICES ASSUME Contains(new, Ours)
                     PROVE  k > Len(Ours) + 1
        OBVIOUS
      <4>2. PICK n \in Occurrences(text, Ours) : TRUE
        BY <1>3, <4>1, ContainsOurs
      <4>3. n \in Int /\ 1 <= n /\ n + Len(Ours) <= Len(text) + 1
        BY <4>2, OursProperties, OccurrencesInt
      <4> QED
        BY <1>2, <4>3, OursProperties
    <3> HIDE DEF k
    <3> QED
      BY <3>2, <3>3, <3>4, <3>5 DEF ListedBehind, Ended
  <2>2. ASSUME NEW old \in Others, ListedBehind(text, old)
        PROVE  ListedBehind(new, old)
    <3>1. /\ old \in Seq(Char) /\ old # <<>> /\ Len(old) \in Nat \ {0}
          /\ \A i \in 1 .. Len(old) : old[i] # Comma
      BY OthersProperties
    <3>2. PICK k \in Occurrences(text, old) :
            /\ CharAt(text, k - 1) \in {Comma, "nul"} /\ Ended(text, old, k)
            /\ Contains(text, Ours) => k > Len(Ours) + 1
      BY <2>2 DEF ListedBehind
    <3>3. k \in Int /\ 1 <= k /\ k + Len(old) <= Len(text) + 1
      BY <3>1, <3>2, OccurrencesInt
    <3>4. k \in Occurrences(new, old)
      BY <1>1, <1>7, <3>1, <3>2, <3>3, AppendedOccurrences DEF new
    <3>5. CharAt(new, k - 1) = CharAt(text, k - 1)
      <4>1. k - 1 \in 0 .. Len(text) /\ k - 1 \in Int
        BY <1>2, <3>1, <3>3
      <4> QED
        BY <1>1, <1>7, <4>1, AppendedCharAt DEF new
    <3>6. CharAt(new, k + Len(old)) \in {CharAt(text, k + Len(old)), Comma}
      <4>1. k + Len(old) \in 0 .. Len(text) \/ k + Len(old) = Len(text) + 1
        BY <1>2, <3>1, <3>3
      <4>2. k + Len(old) \in Int
        BY <3>1, <3>3
      <4> QED
        BY <1>1, <1>7, <4>1, <4>2, AppendedCharAt DEF new
    <3>7. Contains(new, Ours) => k > Len(Ours) + 1
      BY <1>3, <3>2
    <3> QED
      BY <3>2, <3>4, <3>5, <3>6, <3>7 DEF ListedBehind, Ended
  <2> QED
    BY <2>1, <2>2 DEF new
<1> QED
  BY <1>6, <1>7

(* Our path is removed, and the comma behind it.                           *)
LEMMA RemovedListed ==
  ASSUME NEW text \in Seq(Char), Fronted(text), Contains(text, Ours),
         NEW old \in Others, ListedBehind(text, old)
  PROVE  ListedBehind(Removed(text, Ours), old) /\ Removed(text, Ours) # <<>>
<1> DEFINE rest == Removed(text, Ours)
           m    == Len(Ours) + 2
<1>1. old \in Seq(Char) /\ old # <<>> /\ Len(old) \in Nat \ {0}
  BY OthersProperties
<1>2. PICK k \in Occurrences(text, old) :
        CharAt(text, k - 1) \in {Comma, "nul"} /\ Ended(text, old, k) /\ k > Len(Ours) + 1
  BY DEF ListedBehind
<1>3. k \in Int /\ 1 <= k /\ k + Len(old) <= Len(text) + 1
  BY <1>1, <1>2, OccurrencesInt
<1>4. Len(text) \in Nat /\ Len(text) # Len(Ours)
  <2>1. Len(text) \in Nat
    BY LenProperties
  <2> QED
    BY <1>1, <1>2, <1>3, <2>1, OursProperties
<1>5. rest = From(text, m) /\ m \in Nat \ {0} /\ m > 1
  <2>1. rest = From(text, m)
    BY <1>4, RemovedOurs
  <2> QED
    BY <2>1, OursProperties
<1> DEFINE n == k - (Len(Ours) + 1)
<1>6. n \in Int /\ n \in Nat \ {0} /\ n + m - 1 = k /\ n + Len(old) \in Nat \ {0}
  BY <1>1, <1>2, <1>3, OursProperties
<1>7. ~Contains(rest, Ours) /\ rest \in Seq(Char)
  BY <1>5, FrontedFrom, FromProperties
<1> HIDE DEF rest, m, n
<1>8. n \in Occurrences(rest, old)
  <2>1. 1 <= n
    BY <1>6
  <2> QED
    BY <1>1, <1>2, <1>5, <1>6, <2>1, FromOccurrences
<1>9. Ended(rest, old, n)
  <2>1. n + Len(old) + m - 1 = k + Len(old)
    BY <1>1, <1>3, <1>5, <1>6
  <2>2. CharAt(rest, n + Len(old)) = CharAt(text, k + Len(old))
    BY <1>5, <1>6, <2>1, FromCharAt
  <2> QED
    BY <1>2, <2>2 DEF Ended
<1>10. CharAt(rest, n - 1) \in {Comma, "nul"}
  <2>1. CASE n = 1
    BY <2>1 DEF CharAt
  <2>2. CASE n # 1
    <3>1. n - 1 \in Nat \ {0} /\ n - 1 + m - 1 = k - 1
      BY <1>5, <1>6, <2>2
    <3>2. CharAt(rest, n - 1) = CharAt(text, k - 1)
      BY <1>5, <3>1, FromCharAt
    <3> QED
      BY <1>2, <3>2
  <2> QED
    BY <2>1, <2>2
<1>11. ListedBehind(rest, old)
  BY <1>7, <1>8, <1>9, <1>10 DEF ListedBehind
<1>12. rest # <<>>
  <2>1. n + Len(old) <= Len(rest) + 1
    BY <1>1, <1>7, <1>8, OccurrencesInt
  <2> QED
    BY <1>1, <1>6, <2>1
<1> QED
  BY <1>11, <1>12 DEF rest

LEMMA RemovedClean ==
  ASSUME NEW text \in Seq(Char), Fronted(text), Contains(text, Ours), Clean(text)
  PROVE  Clean(Removed(text, Ours))
<1> DEFINE rest == Removed(text, Ours)
           m    == Len(Ours) + 2
<1>1. CASE rest = <<>>
  <2>1. Len(rest) = 0
    BY <1>1
  <2> QED
    BY <2>1 DEF Clean
<1>2. CASE rest # <<>>
  <2>1. Len(Ours) + 1 \in 1 .. Len(text) /\ text[Len(Ours) + 1] = Comma /\ rest = From(text, m)
    BY <1>2, RemovedOurs
  <2>2. Len(text) \in Nat /\ m \in Nat \ {0} /\ Len(Ours) + 1 + 1 = m
    BY LenProperties, OursProperties
  <2>3. Len(Ours) + 1 < Len(text) /\ text[m] # Comma
    BY <2>1, <2>2 DEF Clean
  <2> HIDE DEF rest, m
  <2>4. /\ Len(rest) = IF m <= Len(text) THEN Len(text) - m + 1 ELSE 0
        /\ \A i \in 1 .. Len(rest) : rest[i] = text[m + i - 1]
    BY <2>1, <2>2, FromProperties
  <2>5. Len(rest) = Len(text) - m + 1
    BY <2>2, <2>3, <2>4, OursProperties
  <2>6. SUFFICES ASSUME NEW i \in 1 .. Len(rest), rest[i] = Comma
                 PROVE  i > 1 /\ i < Len(rest) /\ rest[i + 1] # Comma
    BY DEF Clean, rest
  <2>7. m + i - 1 \in 1 .. Len(text) /\ text[m + i - 1] = Comma
    BY <2>2, <2>4, <2>5, <2>6
  <2>8. m + i - 1 < Len(text) /\ text[m + i - 1 + 1] # Comma
    BY <2>7 DEF Clean
  <2>9. i # 1
    <3>1. m + 1 - 1 = m
      BY <2>2
    <3> QED
      BY <2>3, <2>7, <3>1
  <2>10. i > 1 /\ i < Len(rest) /\ i + 1 \in 1 .. Len(rest) /\ m + i - 1 + 1 = m + (i + 1) - 1
    BY <2>2, <2>5, <2>8, <2>9
  <2> QED
    BY <2>4, <2>8, <2>10
<1> QED
  BY <1>1, <1>2

-----------------------------------------------------------------------------
(* The inductive invariant of the files, the link and the list.            *)

ListTypes ==
  /\ appInit \in Seq(Char) /\ buffer \in Seq(Char) /\ enabled \in BOOLEAN
  /\ added \subseteq Others
  /\ failed \in BOOLEAN /\ behind \in BOOLEAN /\ astray \in BOOLEAN

(* Which commands take which steps, and when something has been said.      *)
StepInv ==
  /\ pc \in {"closed", "idle", "elevate", "compare", "kill", "copyExe", "writeDll", "deleteExe",
            "deleteDll", "unlink", "relink", "register", "unregister", "setList", "setEnabled",
            "say"}
  /\ pc \in {"compare", "copyExe", "writeDll"} => command \in {"appInit", "piggyback"}
  /\ pc \in {"deleteExe", "deleteDll"} => command = "uninstall"
  /\ pc = "register" => command = "appInit"
  /\ pc = "unregister" => command \in {"piggyback", "uninstall"}
  /\ pc \in {"elevate", "kill", "unlink", "relink", "setList", "setEnabled", "say"} =>
       command \in Commands
  /\ pc \notin {"closed", "idle"} => said = "none"
  /\ said \in Commands \cup {"none"}

(* What has been done of a command, as long as nothing fails.              *)
FilesDone(c) ==
  IF c = "uninstall" THEN exe = "none" /\ dll = "none" ELSE exe = "same" /\ dll = "whole"

LinkDone(c) == link = IF c = "piggyback" THEN "filter" ELSE "dropbox"

ListDone(c) ==
  /\ c = "appInit" => Listed(appInit, Ours) /\ enabled
  /\ c = "piggyback" => ~Contains(appInit, Ours)

FilesInv ==
  ~failed =>
    /\ exe = "same" /\ pc # "writeDll" => dll = "whole"
    /\ pc = "writeDll" => exe = "same"
    /\ pc = "deleteDll" => exe = "none"
    /\ pc \in {"unlink", "relink", "register", "unregister", "setList", "setEnabled", "say"} =>
         FilesDone(command)
    /\ pc = "idle" /\ said # "none" => FilesDone(said)

LinkInv ==
  ~failed =>
    /\ pc \in {"register", "say"} => LinkDone(command)
    /\ pc \in {"unregister", "setList", "setEnabled"} /\ command # "piggyback" => LinkDone(command)
    /\ pc = "idle" /\ said # "none" => LinkDone(said)

DoneInv ==
  ~failed /\ ~behind =>
    /\ pc # "setEnabled" /\ Contains(appInit, Ours) => enabled
    /\ pc = "say" => ListDone(command)
    /\ pc \in {"unlink", "relink"} /\ command = "piggyback" => ListDone(command)
    /\ pc = "idle" /\ said # "none" => ListDone(said)

(* The list.                                                               *)
FrontInv == ~behind /\ ~(failed /\ astray) => Fronted(appInit)

KeptInv ==
  ~behind /\ ~astray =>
    /\ Clean(appInit)
    /\ \A path \in added \ undone : ListedBehind(appInit, path)
    /\ added \ undone # {} => enabled

(* The buffer, until it and what it says of the list are written: it has   *)
(* every DLL but those that were added after the list was read.            *)
Writing == pc \in {"setList", "setEnabled"}

BufferFronted == ~behind /\ ~(failed /\ astray) => Fronted(buffer)

BufferKept ==
  ~behind /\ ~astray =>
    /\ Clean(buffer)
    /\ \A path \in added \ (undone \cup late) : ListedBehind(buffer, path)

Edited(text) ==
  /\ command = "appInit" => Listed(text, Ours)
  /\ command = "piggyback" => ~Contains(text, Ours)

BufferDone ==
  ~failed /\ ~behind =>
    /\ Edited(buffer)
    /\ pc = "setEnabled" =>
         Edited(appInit) /\ (Contains(appInit, Ours) => Contains(buffer, Ours))

BufferInv == Writing => BufferFronted /\ BufferKept /\ BufferDone

ListInv ==
  /\ ListTypes /\ StepInv /\ FilesInv /\ LinkInv
  /\ DoneInv /\ FrontInv /\ KeptInv /\ BufferInv

(* The tables of steps.                                                    *)
LEMMA AfterIs ==
  ASSUME NEW steps, Steps[command] = steps, NEW i \in 1 .. Len(steps),
         \A j \in 1 .. Len(steps) : steps[j] = steps[i] => j = i
  PROVE  After(steps[i]) = steps[1 + i]
<1>1. (CHOOSE j \in 1 .. Len(steps) : steps[j] = steps[i]) = i
  OBVIOUS
<1> QED
  BY <1>1 DEF After

LEMMA FirstSteps ==
  /\ Steps["appInit"][1] = "compare" /\ Steps["piggyback"][1] = "compare"
  /\ Steps["uninstall"][1] = "kill"
  BY DEF Steps

LEMMA AppInitSteps ==
  ASSUME command = "appInit"
  PROVE  /\ After("compare") = "kill" /\ After("kill") = "copyExe"
         /\ After("copyExe") = "writeDll" /\ After("writeDll") = "unlink"
         /\ After("unlink") = "relink" /\ After("relink") = "register"
         /\ After("setEnabled") = "say"
<1> DEFINE steps == <<"compare", "kill", "copyExe", "writeDll", "unlink", "relink",
                      "register", "setList", "setEnabled", "say">>
<1>1. Steps[command] = steps /\ Len(steps) = 10
  BY DEF Steps
<1>2. /\ steps[1] = "compare" /\ steps[2] = "kill" /\ steps[3] = "copyExe"
      /\ steps[4] = "writeDll" /\ steps[5] = "unlink" /\ steps[6] = "relink"
      /\ steps[7] = "register" /\ steps[8] = "setList" /\ steps[9] = "setEnabled"
      /\ steps[10] = "say"
  OBVIOUS
<1> HIDE DEF steps
<1>3. \A i, j \in 1 .. 10 : steps[j] = steps[i] => j = i
  BY <1>2
<1>4. ASSUME NEW i \in 1 .. 9
      PROVE  After(steps[i]) = steps[1 + i]
  <2>1. i \in 1 .. Len(steps) /\ \A j \in 1 .. Len(steps) : steps[j] = steps[i] => j = i
    BY <1>1, <1>3
  <2> QED
    BY <1>1, <2>1, AfterIs
<1> QED
  BY <1>2, <1>4

LEMMA PiggybackSteps ==
  ASSUME command = "piggyback"
  PROVE  /\ After("compare") = "kill" /\ After("kill") = "copyExe"
         /\ After("copyExe") = "writeDll" /\ After("writeDll") = "unregister"
         /\ After("setEnabled") = "unlink" /\ After("unlink") = "relink"
         /\ After("relink") = "say"
<1> DEFINE steps == <<"compare", "kill", "copyExe", "writeDll", "unregister", "setList",
                      "setEnabled", "unlink", "relink", "say">>
<1>1. Steps[command] = steps /\ Len(steps) = 10
  BY DEF Steps
<1>2. /\ steps[1] = "compare" /\ steps[2] = "kill" /\ steps[3] = "copyExe"
      /\ steps[4] = "writeDll" /\ steps[5] = "unregister" /\ steps[6] = "setList"
      /\ steps[7] = "setEnabled" /\ steps[8] = "unlink" /\ steps[9] = "relink"
      /\ steps[10] = "say"
  OBVIOUS
<1> HIDE DEF steps
<1>3. \A i, j \in 1 .. 10 : steps[j] = steps[i] => j = i
  BY <1>2
<1>4. ASSUME NEW i \in 1 .. 9
      PROVE  After(steps[i]) = steps[1 + i]
  <2>1. i \in 1 .. Len(steps) /\ \A j \in 1 .. Len(steps) : steps[j] = steps[i] => j = i
    BY <1>1, <1>3
  <2> QED
    BY <1>1, <2>1, AfterIs
<1> QED
  BY <1>2, <1>4

LEMMA UninstallSteps ==
  ASSUME command = "uninstall"
  PROVE  /\ After("kill") = "deleteExe" /\ After("deleteExe") = "deleteDll"
         /\ After("deleteDll") = "unlink" /\ After("unlink") = "relink"
         /\ After("relink") = "unregister" /\ After("setEnabled") = "say"
<1> DEFINE steps == <<"kill", "deleteExe", "deleteDll", "unlink", "relink", "unregister",
                      "setList", "setEnabled", "say">>
<1>1. Steps[command] = steps /\ Len(steps) = 9
  BY DEF Steps
<1>2. /\ steps[1] = "kill" /\ steps[2] = "deleteExe" /\ steps[3] = "deleteDll"
      /\ steps[4] = "unlink" /\ steps[5] = "relink" /\ steps[6] = "unregister"
      /\ steps[7] = "setList" /\ steps[8] = "setEnabled" /\ steps[9] = "say"
  OBVIOUS
<1> HIDE DEF steps
<1>3. \A i, j \in 1 .. 9 : steps[j] = steps[i] => j = i
  BY <1>2
<1>4. ASSUME NEW i \in 1 .. 8
      PROVE  After(steps[i]) = steps[1 + i]
  <2>1. i \in 1 .. Len(steps) /\ \A j \in 1 .. Len(steps) : steps[j] = steps[i] => j = i
    BY <1>1, <1>3
  <2> QED
    BY <1>1, <2>1, AfterIs
<1> QED
  BY <1>2, <1>4

(* A step of a command leaves pc one further, or ends the command.         *)
LEMMA GoneOn ==
  ASSUME StepInv, UNCHANGED <<command, said>>,
         pc \notin {"closed", "idle", "elevate", "register", "unregister", "setList", "say"},
         pc' \in {After(pc), "idle", "closed"}
  PROVE  StepInv'
<1>1. CASE pc' = After(pc)
  <2>1. command \in Commands /\ said = "none" /\ said' = "none" /\ command' = command
    BY DEF StepInv, Commands
  <2>2. CASE command = "appInit"
    <3>1. pc \in {"compare", "kill", "copyExe", "writeDll", "unlink", "relink", "setEnabled"}
      BY <2>2 DEF StepInv
    <3>2. pc' \in {"kill", "copyExe", "writeDll", "unlink", "relink", "register", "say"}
      BY <1>1, <2>2, <3>1, AppInitSteps
    <3> QED
      BY <2>1, <2>2, <3>2 DEF StepInv
  <2>3. CASE command = "piggyback"
    <3>1. pc \in {"compare", "kill", "copyExe", "writeDll", "setEnabled", "unlink", "relink"}
      BY <2>3 DEF StepInv
    <3>2. pc' \in {"kill", "copyExe", "writeDll", "unregister", "unlink", "relink", "say"}
      BY <1>1, <2>3, <3>1, PiggybackSteps
    <3> QED
      BY <2>1, <2>3, <3>2 DEF StepInv
  <2>4. CASE command = "uninstall"
    <3>1. pc \in {"kill", "deleteExe", "deleteDll", "unlink", "relink", "setEnabled"}
      BY <2>4 DEF StepInv
    <3>2. pc' \in {"deleteExe", "deleteDll", "unlink", "relink", "unregister", "say"}
      BY <1>1, <2>4, <3>1, UninstallSteps
    <3> QED
      BY <2>1, <2>4, <3>2 DEF StepInv
  <2> QED
    BY <2>1, <2>2, <2>3, <2>4 DEF Commands
<1>2. CASE pc' \in {"idle", "closed"}
  BY <1>2 DEF StepInv, Commands
<1> QED
  BY <1>1, <1>2

LEMMA AfterEach ==
  ASSUME StepInv
  PROVE  /\ pc = "compare" => After("compare") = "kill"
         /\ pc \in {"compare", "writeDll"} =>
              After("writeDll") = IF command = "appInit" THEN "unlink" ELSE "unregister"
         /\ pc = "kill" => After("kill") = IF command = "uninstall" THEN "deleteExe" ELSE "copyExe"
         /\ pc = "copyExe" => After("copyExe") = "writeDll"
         /\ pc = "deleteExe" => After("deleteExe") = "deleteDll"
         /\ pc = "deleteDll" => After("deleteDll") = "unlink"
         /\ pc = "unlink" => After("unlink") = "relink"
         /\ pc = "relink" => After("relink") = IF command = "appInit" THEN "register"
                                               ELSE IF command = "piggyback" THEN "say"
                                               ELSE "unregister"
         /\ pc \in {"register", "unregister", "setEnabled"} =>
              After("setEnabled") = IF command = "piggyback" THEN "unlink" ELSE "say"
<1>1. CASE command = "appInit"
  BY <1>1, AppInitSteps DEF StepInv, Commands
<1>2. CASE command = "piggyback"
  BY <1>2, PiggybackSteps DEF StepInv, Commands
<1>3. CASE command = "uninstall"
  BY <1>3, UninstallSteps DEF StepInv, Commands
<1>4. CASE command \notin Commands
  BY <1>4 DEF StepInv, Commands
<1> QED
  BY <1>1, <1>2, <1>3, <1>4 DEF Commands

(* The steps about the list, as far as the command goes.                   *)
LEMMA QueriesText ==
  ASSUME ListTypes, NEW query \in Queries
  PROVE  /\ query.text \in Seq(Char) /\ query.done \in BOOLEAN
         /\ query.done => query.text = appInit
<1>1. CASE query = [done |-> TRUE, text |-> appInit]
  BY <1>1 DEF ListTypes
<1>2. CASE query \in [done : {FALSE}, text : Stale]
  <2>1. query.done = FALSE /\ query.text \in Stale
    BY <1>2
  <2> QED
    BY <2>1, OthersAssumption
<1> QED
  BY <1>1, <1>2 DEF Queries

LEMMA ListRead ==
  ASSUME ListTypes, StepInv, Register \/ Unregister
  PROVE  /\ pc \in {"register", "unregister"} /\ pc' \in {"setList", After("setEnabled"), "idle"}
         /\ UNCHANGED <<exe, dll, link, appInit, enabled, command, said, added, undone>>
         /\ failed' \in BOOLEAN /\ (failed => failed')
         /\ behind' \in BOOLEAN /\ (behind => behind')
         /\ astray' \in BOOLEAN /\ (astray => astray')
<1>1. /\ pc \in {"register", "unregister"}
      /\ UNCHANGED <<exe, dll, link, appInit, enabled, command, said, added, undone>>
  BY DEF Register, Unregister, files, list, others
<1>2. CASE KeyFails
  BY <1>1, <1>2 DEF KeyFails, Return, ListTypes
<1>3. CASE Register /\ ~KeyFails
  <2>1. PICK path \in ShortPaths, query \in Queries :
          /\ failed' = (failed \/ ~query.done)
          /\ IF Contains(query.text, path)
               THEN Return(query.done) /\ UNCHANGED <<behind, astray>>
               ELSE /\ ToWrite(query.text \o Appended(query.text, path), query.done)
                    /\ behind' = (behind \/ query.text # <<>>)
                    /\ astray' = (astray \/ ~query.done \/ path # Ours)
    BY <1>3, Zenon DEF Register
  <2>2. pc' \in {"setList", After("setEnabled"), "idle"}
    BY <2>1 DEF Return, ToWrite
  <2>3. failed' \in BOOLEAN /\ (failed => failed')
    BY <2>1, Zenon DEF ListTypes
  <2>4. behind' \in BOOLEAN /\ astray' \in BOOLEAN /\ (behind => behind') /\ (astray => astray')
    BY <2>1, Zenon DEF ListTypes
  <2> QED
    BY <1>1, <2>2, <2>3, <2>4
<1>4. CASE Unregister /\ ~KeyFails
  <2>1. PICK path \in ShortPaths, query \in Queries :
          /\ failed' = (failed \/ ~query.done)
          /\ IF Contains(query.text, path)
               THEN /\ ToWrite(Removed(query.text, path), query.done)
                    /\ astray' = (astray \/ ~query.done \/ path \notin {Ours, <<>>})
               ELSE Return(query.done) /\ UNCHANGED astray
          /\ UNCHANGED behind
    BY <1>4, Zenon DEF Unregister
  <2>2. pc' \in {"setList", After("setEnabled"), "idle"}
    BY <2>1 DEF Return, ToWrite
  <2>3. failed' \in BOOLEAN /\ (failed => failed')
    BY <2>1, Zenon DEF ListTypes
  <2>4. behind' \in BOOLEAN /\ astray' \in BOOLEAN /\ (behind => behind') /\ (astray => astray')
    BY <2>1, Zenon DEF ListTypes
  <2> QED
    BY <1>1, <2>2, <2>3, <2>4
<1> QED
  BY <1>2, <1>3, <1>4

LEMMA ListWritten ==
  ASSUME ListTypes, SetList \/ SetEnabled
  PROVE  /\ \/ pc = "setList" /\ pc' = "setEnabled"
            \/ pc = "setEnabled" /\ pc' \in {After("setEnabled"), "idle"}
         /\ UNCHANGED <<exe, dll, link, command, said, behind, astray, added>>
         /\ failed' \in BOOLEAN /\ (failed => failed')
<1>1. CASE SetList
  BY <1>1 DEF SetList, files, ListTypes
<1>2. CASE SetEnabled
  BY <1>2 DEF SetEnabled, Return, files, ListTypes
<1> QED
  BY <1>1, <1>2

(* Dropbox, its launcher and the other programs.                           *)
LEMMA AroundCommands ==
  ASSUME LaunchDropbox \/ Start \/ Quit \/ (\E path \in Others : AddOther(path))
  PROVE  UNCHANGED <<exe, dll, link, rights, command, pc, said, failed, behind, astray>>
<1>1. CASE launchUnchanged' = launchUnchanged
  BY <1>1 DEF launchUnchanged, files, history
<1>2. CASE \E path \in Others : AddOther(path)
  BY <1>2 DEF AddOther, files
<1> QED
  BY <1>1, <1>2 DEF LaunchDropbox, Launch, RemoteLoadDll, RemoteThread, Wait, Refuse, Resume,
                    EndLauncher, Start, Quit

LEMMA StepInvStep ==
  ASSUME ListTypes, StepInv, [Next]_vars
  PROVE  StepInv'
<1>1. CASE UNCHANGED <<command, pc, said>>
  BY <1>1 DEF StepInv
<1>2. CASE Close \/ End \/ (\E later \in BOOLEAN : Open(later)) \/ (\E c \in Commands : Press(c))
  BY <1>2 DEF StepInv, Close, End, Open, Press
<1>3. CASE Elevate
  <2>1. command \in Commands /\ said = "none" /\ said' = "none"
    BY <1>3 DEF Elevate, StepInv
  <2>2. /\ command' \in Commands
        /\ \/ pc' = Steps[command'][1]
           \/ pc' \in {"idle", "closed"}
    BY <1>3, <2>1 DEF Elevate, Commands
  <2>3. pc' = Steps[command'][1] =>
          pc' = IF command' = "uninstall" THEN "kill" ELSE "compare"
    BY <2>2, FirstSteps DEF Commands
  <2> QED
    BY <2>1, <2>2, <2>3 DEF StepInv, Commands
<1>4. CASE Compare
  <2>1. pc = "compare" /\ UNCHANGED <<command, said>>
    BY <1>4 DEF Compare
  <2>2. pc' \in {"unlink", "unregister", "kill", "idle"} /\
        (pc' = "unregister" => command = "piggyback")
    BY <1>4, <2>1, AfterEach DEF Compare, StepInv
  <2> QED
    BY <2>1, <2>2 DEF StepInv, Commands
<1>5. CASE Kill \/ CopyExe \/ WriteDll \/ DeleteExe \/ DeleteDll \/ Unlink \/ Relink
  <2>1. /\ pc \in {"kill", "copyExe", "writeDll", "deleteExe", "deleteDll", "unlink", "relink"}
        /\ UNCHANGED <<command, said>> /\ pc' \in {After(pc), "idle", "closed"}
    BY <1>5 DEF Kill, CopyExe, WriteDll, DeleteExe, DeleteDll, Unlink, Relink, GoOn
  <2> QED
    BY <2>1, GoneOn
<1>6. CASE Register \/ Unregister
  <2>1. /\ pc \in {"register", "unregister"} /\ UNCHANGED <<command, said>>
        /\ pc' \in {"setList", After("setEnabled"), "idle"}
    BY <1>6, ListRead
  <2>2. /\ pc' \in {"setList", "unlink", "say", "idle"}
        /\ command \in Commands /\ said = "none"
    BY <2>1, AfterEach DEF StepInv, Commands
  <2> QED
    BY <2>1, <2>2 DEF StepInv, Commands
<1>7. CASE SetList \/ SetEnabled
  <2>1. /\ \/ pc = "setList" /\ pc' = "setEnabled"
           \/ pc = "setEnabled" /\ pc' \in {After(pc), "idle"}
        /\ UNCHANGED <<command, said>>
    BY <1>7, ListWritten
  <2>2. CASE pc = "setList"
    BY <2>1, <2>2 DEF StepInv
  <2> QED
    BY <2>1, <2>2, GoneOn
<1>8. CASE Say
  BY <1>8 DEF Say, StepInv, Commands
<1> QED
  BY <1>1, <1>2, <1>3, <1>4, <1>5, <1>6, <1>7, <1>8, AroundCommands DEF Next, Step, vars

LEMMA FilesStep ==
  ASSUME ListTypes, StepInv, FilesInv, LinkInv, [Next]_vars
  PROVE  FilesInv' /\ LinkInv'
<1> USE DEF FilesInv, LinkInv, FilesDone, LinkDone
<1>1. CASE UNCHANGED <<exe, dll, link, command, pc, said, failed>>
  BY <1>1
<1>2. CASE \E later \in BOOLEAN : Open(later)
  BY <1>2 DEF Open, history
<1>3. CASE Close \/ (\E c \in Commands : Press(c))
  BY <1>3 DEF Close, Press, files, history
<1>4. CASE End
  BY <1>4 DEF End
<1>5. CASE Elevate
  <2>1. UNCHANGED <<exe, dll, link, failed>> /\ said' = "none" /\ command \in Commands
    BY <1>5 DEF Elevate, files, history, StepInv
  <2>2. pc' \in {"compare", "kill", "idle", "closed"} /\ pc # "writeDll"
    BY <1>5, <2>1, FirstSteps DEF Elevate, Commands
  <2> QED
    BY <2>1, <2>2
<1>6. CASE Compare
  <2>1. pc = "compare" /\ UNCHANGED <<exe, dll, link, command, said, failed>> /\ said = "none"
    BY <1>6 DEF Compare, files, history, StepInv
  <2>2. \/ exe = "same" /\ pc' = After("writeDll")
        \/ pc' \in {After("compare"), "idle"}
    BY <1>6 DEF Compare
  <2>3. command \in {"appInit", "piggyback"}
    BY <2>1 DEF StepInv
  <2> QED
    BY <2>1, <2>2, <2>3, AfterEach
<1>7. CASE Kill
  BY <1>7, AfterEach DEF Kill, GoOn, files, StepInv
<1>8. CASE CopyExe
  BY <1>8, AfterEach DEF CopyExe, GoOn, StepInv
<1>9. CASE WriteDll
  BY <1>9, AfterEach DEF WriteDll, GoOn, StepInv
<1>10. CASE DeleteExe
  BY <1>10, AfterEach DEF DeleteExe, GoOn, StepInv
<1>11. CASE DeleteDll
  BY <1>11, AfterEach DEF DeleteDll, GoOn, StepInv
<1>12. CASE Unlink
  BY <1>12, AfterEach DEF Unlink, GoOn, files, StepInv
<1>13. CASE Relink
  BY <1>13, AfterEach DEF Relink, GoOn, files, StepInv, Commands
<1>14. CASE Register \/ Unregister \/ SetList \/ SetEnabled
  <2>1. /\ pc \in {"register", "unregister", "setList", "setEnabled"}
        /\ \/ pc' \in {"setList", "setEnabled", "idle"}
           \/ pc # "setList" /\ pc' = After("setEnabled")
        /\ UNCHANGED <<exe, dll, link, command, said>> /\ (failed => failed')
    BY <1>14, ListRead, ListWritten
  <2>2. /\ said = "none" /\ pc' \in {"setList", "setEnabled", "say", "unlink", "idle"}
        /\ pc' = "say" => command # "piggyback"
    BY <2>1, AfterEach DEF StepInv
  <2>3. command = "appInit" \/ pc # "register"
    BY <2>1 DEF StepInv
  <2> QED
    BY <2>1, <2>2, <2>3
<1>15. CASE Say
  BY <1>15 DEF Say, files, history, StepInv
<1> QED
  BY <1>1, <1>2, <1>3, <1>4, <1>5, <1>6, <1>7, <1>8, <1>9, <1>10, <1>11, <1>12, <1>13, <1>14,
     <1>15, AroundCommands DEF Next, Step, vars

(* Steps that leave the list alone.                                        *)
LEMMA ListLeft ==
  ASSUME FrontInv, KeptInv, UNCHANGED <<appInit, enabled, added, undone>>,
         failed => failed', behind => behind', astray => astray'
  PROVE  FrontInv' /\ KeptInv'
<1>1. PICK text : text = appInit
  OBVIOUS
<1>2. appInit' = text
  BY <1>1
<1>3. (~behind' /\ ~(failed' /\ astray')) => Fronted(text)
  BY <1>1 DEF FrontInv
<1>4. FrontInv'
  BY <1>2, <1>3 DEF FrontInv
<1>5. KeptInv'
  BY DEF KeptInv
<1> QED
  BY <1>4, <1>5

LEMMA DoneLeft ==
  ASSUME ListTypes, StepInv, DoneInv, [Next]_vars,
         UNCHANGED <<appInit, enabled, behind, astray, added>>,
         pc \notin {"register", "unregister", "setList", "setEnabled"}
  PROVE  DoneInv'
<1> USE DEF DoneInv, ListDone
<1>1. CASE UNCHANGED <<command, pc, said, failed>>
  BY <1>1
<1>2. CASE End
  BY <1>2 DEF End
<1>3. CASE (\E later \in BOOLEAN : Open(later)) \/ Close \/ (\E c \in Commands : Press(c))
  BY <1>3 DEF Open, Close, Press, history
<1>4. CASE Elevate
  <2>1. UNCHANGED failed /\ said' = "none" /\ command \in Commands
    BY <1>4 DEF Elevate, history, StepInv
  <2>2. pc' \in {"compare", "kill", "idle", "closed"}
    BY <1>4, <2>1, FirstSteps DEF Elevate, Commands
  <2> QED
    BY <2>1, <2>2
<1>5. CASE Compare
  <2>1. pc = "compare" /\ UNCHANGED <<command, said, failed>> /\ said = "none"
    BY <1>5 DEF Compare, history, StepInv
  <2>2. pc' \in {"kill", "idle", "unlink", "unregister"} /\ (pc' = "unlink" => command = "appInit")
    BY <1>5, <2>1, AfterEach DEF Compare
  <2> QED
    BY <2>1, <2>2
<1>6. CASE Kill \/ CopyExe \/ WriteDll \/ DeleteExe \/ DeleteDll \/ Unlink \/ Relink
  <2>1. /\ pc \in {"kill", "copyExe", "writeDll", "deleteExe", "deleteDll", "unlink", "relink"}
        /\ UNCHANGED <<command, said>> /\ said = "none" /\ pc' \in {After(pc), "idle"}
        /\ ~failed' => ~failed
    BY <1>6 DEF Kill, CopyExe, WriteDll, DeleteExe, DeleteDll, Unlink, Relink, GoOn, StepInv,
                ListTypes
  <2>2. /\ pc' = "unlink" => command # "piggyback"
        /\ pc' = "relink" => pc = "unlink"
        /\ pc' = "say" => pc = "relink" /\ command = "piggyback"
    BY <2>1, AfterEach DEF StepInv
  <2> QED
    BY <2>1, <2>2
<1>7. CASE Say
  BY <1>7 DEF Say, history, StepInv
<1> QED
  BY <1>1, <1>2, <1>3, <1>4, <1>5, <1>6, <1>7, AroundCommands
     DEF Next, Step, vars, Register, Unregister, SetList, SetEnabled

LEMMA OtherAdded ==
  ASSUME ListTypes, StepInv, DoneInv, FrontInv, KeptInv, BufferInv,
         NEW path \in Others, AddOther(path)
  PROVE  DoneInv' /\ FrontInv' /\ KeptInv' /\ BufferInv' /\ ListTypes'
<1>1. PICK text : text = appInit
  OBVIOUS
<1> DEFINE new == text \o Appended(text, path)
<1>2. /\ text \in Seq(Char) /\ appInit' = new /\ enabled' = TRUE /\ added' = added \cup {path}
      /\ UNCHANGED <<command, pc, said, buffer, failed, behind, astray, undone>>
      /\ Writing => late' = late \cup {path}
  BY <1>1 DEF AddOther, ListTypes, Writing
<1>3. new \in Seq(Char)
  BY <1>2, OthersProperties, AppendedProperties
<1>4. /\ Contains(new, Ours) <=> Contains(text, Ours)
      /\ Fronted(text) => Fronted(new)
      /\ Listed(text, Ours) => Listed(new, Ours)
  BY <1>2, AppendedOurs
<1>5. /\ ListedBehind(new, path)
      /\ \A old \in Others : ListedBehind(text, old) => ListedBehind(new, old)
  BY <1>2, AppendedListed
<1>6. Clean(text) => Clean(new)
  BY <1>2, AppendedClean
<1> HIDE DEF new
<1>7. DoneInv'
  BY <1>1, <1>2, <1>4 DEF DoneInv, ListDone
<1>8. FrontInv'
  BY <1>1, <1>2, <1>4 DEF FrontInv
<1>9. KeptInv'
  <2>1. SUFFICES ASSUME ~behind, ~astray
                 PROVE  /\ Clean(new)
                        /\ \A old \in (added \cup {path}) \ undone : ListedBehind(new, old)
    BY <1>2 DEF KeptInv
  <2>2. Clean(text) /\ \A old \in added \ undone : ListedBehind(text, old) /\ old \in Others
    BY <1>1, <2>1 DEF KeptInv, ListTypes
  <2> QED
    BY <1>5, <1>6, <2>2
<1>10. ListTypes'
  BY <1>2, <1>3 DEF ListTypes
<1>11. BufferInv'
  <2>1. SUFFICES ASSUME Writing
                 PROVE  (BufferFronted /\ BufferKept /\ BufferDone)'
    BY <1>2 DEF BufferInv, Writing
  <2>2. BufferFronted /\ BufferKept /\ BufferDone
    BY <2>1 DEF BufferInv
  <2>3. BufferFronted'
    BY <1>2, <2>2 DEF BufferFronted
  <2>4. (added \cup {path}) \ (undone \cup (late \cup {path})) \subseteq added \ (undone \cup late)
    OBVIOUS
  <2>5. BufferKept'
    BY <1>2, <2>1, <2>2, <2>4 DEF BufferKept
  <2>6. BufferDone'
    BY <1>1, <1>2, <1>4, <2>2 DEF BufferDone, Edited
  <2> QED
    BY <2>3, <2>5, <2>6
<1> QED
  BY <1>7, <1>8, <1>9, <1>10, <1>11

(* InstallAppInit reads the list.                                          *)
LEMMA Registered ==
  ASSUME ListTypes, StepInv, FilesInv, DoneInv, FrontInv, KeptInv, Register
  PROVE  DoneInv' /\ FrontInv' /\ KeptInv' /\ BufferInv' /\ ListTypes'
<1>1. /\ pc = "register" /\ pc' \in {"setList", "say", "idle"}
      /\ command = "appInit" /\ said = "none" /\ command' = "appInit" /\ said' = "none"
      /\ UNCHANGED <<appInit, enabled, added, undone>> /\ failed' \in BOOLEAN
      /\ (failed => failed') /\ (behind => behind') /\ (astray => astray')
      /\ behind' \in BOOLEAN /\ astray' \in BOOLEAN
  BY ListRead, AfterEach DEF Register, StepInv
<1>2. FrontInv' /\ KeptInv'
  BY <1>1, ListLeft
<1>3. PICK text : text = appInit /\ text \in Seq(Char)
  BY DEF ListTypes
<1>4. CASE KeyFails
  <2>1. failed' /\ buffer' = <<>> /\ pc' # "setList"
    BY <1>1, <1>4, AfterEach DEF KeyFails, Return, StepInv
  <2> QED
    BY <1>1, <1>2, <1>3, <2>1 DEF DoneInv, BufferInv, Writing, ListTypes
<1>5. ASSUME NEW path \in ShortPaths
      PROVE  path \in Seq(Char) /\ (~failed' => path = Ours)
  BY <1>1, <1>5, OursAssumption, OthersAssumption DEF ShortPaths, FilesInv, FilesDone
<1>6. ASSUME NEW path \in ShortPaths, NEW query \in Queries,
             failed' = (failed \/ ~query.done), Contains(query.text, path), Return(query.done)
      PROVE  DoneInv' /\ FrontInv' /\ KeptInv' /\ BufferInv' /\ ListTypes'
  <2>1. buffer' = <<>> /\ pc' \in {"say", "idle"}
    BY <1>1, <1>6, AfterEach DEF Return, StepInv
  <2>2. ListTypes' /\ BufferInv'
    BY <1>1, <1>3, <2>1 DEF ListTypes, BufferInv, Writing
  <2>3. ASSUME ~failed', ~behind'
        PROVE  Listed(text, Ours) /\ enabled
    <3>1. query.done
      BY <1>6, <2>3, QueriesText, Zenon
    <3>2. path = Ours /\ ~failed /\ ~behind /\ query.text = text
      BY <1>1, <1>3, <1>5, <2>3, <3>1, QueriesText
    <3>3. Contains(text, Ours) /\ Fronted(text)
      BY <1>3, <1>6, <3>2 DEF FrontInv
    <3>4. Listed(text, Ours)
      BY <1>3, <3>3, FrontedListed
    <3> QED
      BY <1>1, <1>3, <3>2, <3>3, <3>4 DEF DoneInv
  <2>4. DoneInv'
    BY <1>1, <1>3, <2>1, <2>3 DEF DoneInv, ListDone
  <2> QED
    BY <1>2, <2>2, <2>4
<1>7. ASSUME NEW path \in ShortPaths, NEW query \in Queries,
             failed' = (failed \/ ~query.done),
             ToWrite(query.text \o Appended(query.text, path), query.done),
             behind' = (behind \/ query.text # <<>>),
             astray' = (astray \/ ~query.done \/ path # Ours)
      PROVE  DoneInv' /\ FrontInv' /\ KeptInv' /\ BufferInv' /\ ListTypes'
  <2> DEFINE new == query.text \o Appended(query.text, path)
  <2>1. query.text \in Seq(Char) /\ new \in Seq(Char)
    BY <1>5, QueriesText, AppendedProperties
  <2>2. buffer' = new /\ pc' = "setList"
    BY <1>7 DEF ToWrite
  <2>3. query.text = <<>> /\ path = Ours => new = Ours
    BY OursAlone
  <2> HIDE DEF new
  <2>4. ListTypes'
    BY <1>1, <1>3, <2>1, <2>2 DEF ListTypes
  <2>5. DoneInv'
    BY <1>1, <1>3, <2>2 DEF DoneInv
  <2>6. /\ ~behind' => ~behind /\ query.text = <<>>
        /\ ~astray' => ~astray /\ query.done /\ path = Ours
    BY <1>7, QueriesText, Zenon
  <2>7. ~behind' /\ ~(failed' /\ astray') => new = Ours
    BY <1>5, <2>3, <2>6
  <2>8. BufferFronted'
    BY <2>2, <2>7, OursAlone DEF BufferFronted
  <2>9. BufferKept'
    <3>1. SUFFICES ASSUME ~behind', ~astray'
                   PROVE  BufferKept'
      BY DEF BufferKept
    <3>2. text = <<>> /\ ~behind /\ ~astray
      BY <1>3, <2>6, <3>1, QueriesText
    <3>3. ASSUME NEW old \in added \ undone
          PROVE  FALSE
      <4>1. PICK k \in Occurrences(text, old) : TRUE
        BY <1>3, <3>2, <3>3 DEF KeptInv, ListedBehind
      <4>2. old \in Others
        BY <3>3 DEF ListTypes
      <4> QED
        BY <3>2, <4>1, <4>2, OthersProperties, NothingOccurs
    <3>4. added' \ undone' = {}
      BY <1>1, <3>3
    <3>5. new = Ours /\ Clean(Ours)
      BY <2>7, <3>1, OursAlone
    <3> QED
      BY <2>2, <3>4, <3>5 DEF BufferKept
  <2>10. BufferDone'
    BY <1>1, <2>2, <2>7, OursAlone DEF BufferDone, Edited
  <2> QED
    BY <1>2, <2>4, <2>5, <2>8, <2>9, <2>10 DEF BufferInv
<1>8. CASE ~KeyFails
  <2>1. PICK path \in ShortPaths, query \in Queries :
          /\ failed' = (failed \/ ~query.done)
          /\ IF Contains(query.text, path)
               THEN Return(query.done) /\ UNCHANGED <<behind, astray>>
               ELSE /\ ToWrite(query.text \o Appended(query.text, path), query.done)
                    /\ behind' = (behind \/ query.text # <<>>)
                    /\ astray' = (astray \/ ~query.done \/ path # Ours)
    BY <1>8, Zenon DEF Register
  <2> QED
    BY <1>6, <1>7, <2>1
<1> QED
  BY <1>4, <1>8

(* UnInstallAppInit reads the list.                                        *)
LEMMA Unregistered ==
  ASSUME ListTypes, StepInv, FilesInv, DoneInv, FrontInv, KeptInv, Unregister
  PROVE  DoneInv' /\ FrontInv' /\ KeptInv' /\ BufferInv' /\ ListTypes'
<1>1. /\ pc = "unregister" /\ pc' \in {"setList", "unlink", "say", "idle"} /\ said = "none"
      /\ command \in {"piggyback", "uninstall"} /\ UNCHANGED <<command, said>>
      /\ UNCHANGED <<appInit, enabled, added, undone>> /\ failed' \in BOOLEAN
      /\ (failed => failed') /\ (behind => behind') /\ (astray => astray')
      /\ behind' \in BOOLEAN /\ astray' \in BOOLEAN
  BY ListRead, AfterEach DEF Unregister, StepInv
<1>2. FrontInv' /\ KeptInv'
  BY <1>1, ListLeft
<1>3. PICK text : text = appInit /\ text \in Seq(Char)
  BY DEF ListTypes
<1>4. CASE KeyFails
  <2>1. failed' /\ buffer' = <<>> /\ pc' # "setList"
    BY <1>1, <1>4, AfterEach DEF KeyFails, Return, StepInv
  <2> QED
    BY <1>1, <1>2, <1>3, <2>1 DEF DoneInv, BufferInv, Writing, ListTypes
<1>5. ASSUME NEW path \in ShortPaths
      PROVE  path \in Seq(Char) /\ (~failed' /\ command = "piggyback" => path = Ours)
  BY <1>1, <1>5, OursAssumption, OthersAssumption DEF ShortPaths, FilesInv, FilesDone
<1>6. ASSUME NEW path \in ShortPaths, NEW query \in Queries,
             failed' = (failed \/ ~query.done), ~Contains(query.text, path), Return(query.done)
      PROVE  DoneInv' /\ FrontInv' /\ KeptInv' /\ BufferInv' /\ ListTypes'
  <2>1. buffer' = <<>> /\ pc' \in {"unlink", "say", "idle"}
    BY <1>1, <1>6, AfterEach DEF Return, StepInv
  <2>2. ListTypes' /\ BufferInv'
    BY <1>1, <1>3, <2>1 DEF ListTypes, BufferInv, Writing
  <2>3. ASSUME ~failed', command = "piggyback"
        PROVE  ~Contains(text, Ours)
    <3>1. query.done
      BY <1>6, <2>3, QueriesText, Zenon
    <3> QED
      BY <1>3, <1>5, <1>6, <2>3, <3>1, QueriesText
  <2>4. DoneInv'
    BY <1>1, <1>3, <2>1, <2>3 DEF DoneInv, ListDone
  <2> QED
    BY <1>2, <2>2, <2>4
<1>7. ASSUME NEW path \in ShortPaths, NEW query \in Queries,
             failed' = (failed \/ ~query.done), Contains(query.text, path),
             ToWrite(Removed(query.text, path), query.done),
             astray' = (astray \/ ~query.done \/ path \notin {Ours, <<>>}), UNCHANGED behind
      PROVE  DoneInv' /\ FrontInv' /\ KeptInv' /\ BufferInv' /\ ListTypes'
  <2> DEFINE rest == Removed(query.text, path)
  <2>1. query.text \in Seq(Char) /\ path \in Seq(Char)
    BY <1>5, QueriesText
  <2>2. PICK m \in Nat \ {0} : rest = From(query.text, m) /\ (path # <<>> => m > 1)
    BY <2>1, RemovedFrom
  <2>3. rest \in Seq(Char)
    BY <2>1, <2>2, FromProperties
  <2>4. buffer' = rest /\ pc' = "setList"
    BY <1>7 DEF ToWrite
  <2> HIDE DEF rest
  <2>5. ListTypes'
    BY <1>1, <1>3, <2>3, <2>4 DEF ListTypes
  <2>6. DoneInv'
    BY <1>1, <1>3, <2>4 DEF DoneInv
  <2>7. ~(failed' /\ astray') => query.done
    BY <1>7, QueriesText, Zenon
  <2>8. ~astray' => ~astray /\ query.done /\ path \in {Ours, <<>>}
    BY <1>7, QueriesText, Zenon
  <2>9. ~behind /\ ~(failed' /\ astray') =>
          query.text = text /\ Fronted(text) /\ Fronted(rest)
    <3>1. SUFFICES ASSUME ~behind, ~(failed' /\ astray')
                   PROVE  query.text = text /\ Fronted(text) /\ Fronted(rest)
      OBVIOUS
    <3>2. query.text = text
      BY <1>3, <2>7, <3>1, QueriesText
    <3>3. Fronted(text)
      BY <1>1, <1>3, <3>1 DEF FrontInv
    <3> QED
      BY <1>3, <2>2, <3>2, <3>3, FrontedFrom
  <2>10. BufferFronted'
    BY <1>7, <2>4, <2>9 DEF BufferFronted
  <2>11. BufferKept'
    <3>1. SUFFICES ASSUME ~behind, ~astray'
                   PROVE  Clean(rest) /\ \A old \in added \ undone : ListedBehind(rest, old)
      BY <1>1, <1>7, <2>4 DEF BufferKept
    <3>2. /\ query.text = text /\ Fronted(text) /\ Clean(text) /\ path \in {Ours, <<>>}
          /\ \A old \in added \ undone : ListedBehind(text, old)
      BY <1>3, <2>8, <2>9, <3>1 DEF KeptInv
    <3>3. CASE path = <<>>
      BY <1>3, <3>2, <3>3, RemovedEmpty DEF rest
    <3>4. CASE path = Ours
      <4>1. Contains(text, Ours)
        BY <1>7, <3>2, <3>4
      <4>2. Clean(rest)
        BY <1>3, <3>2, <3>4, <4>1, RemovedClean DEF rest
      <4>3. ASSUME NEW old \in added \ undone
            PROVE  ListedBehind(rest, old)
        <5>1. old \in Others /\ ListedBehind(text, old)
          BY <3>2, <4>3 DEF ListTypes
        <5> QED
          BY <1>3, <3>2, <3>4, <4>1, <5>1, RemovedListed DEF rest
      <4> QED
        BY <4>2, <4>3
    <3> QED
      BY <3>2, <3>3, <3>4
  <2>12. BufferDone'
    <3>1. SUFFICES ASSUME ~failed', ~behind, command = "piggyback"
                   PROVE  ~Contains(rest, Ours)
      BY <1>1, <1>7, <2>4 DEF BufferDone, Edited
    <3>2. m > 1 /\ Fronted(text) /\ query.text = text
      BY <1>5, <2>2, <2>9, <3>1, OursProperties
    <3> QED
      BY <1>3, <2>2, <3>2, FrontedFrom
  <2> QED
    BY <1>2, <2>5, <2>6, <2>10, <2>11, <2>12 DEF BufferInv
<1>8. CASE ~KeyFails
  <2>1. PICK path \in ShortPaths, query \in Queries :
          /\ failed' = (failed \/ ~query.done)
          /\ IF Contains(query.text, path)
               THEN /\ ToWrite(Removed(query.text, path), query.done)
                    /\ astray' = (astray \/ ~query.done \/ path \notin {Ours, <<>>})
               ELSE Return(query.done) /\ UNCHANGED astray
          /\ UNCHANGED behind
    BY <1>8, Zenon DEF Unregister
  <2> QED
    BY <1>6, <1>7, <2>1
<1> QED
  BY <1>4, <1>8

(* The list is written.                                                    *)
LEMMA ListIsSet ==
  ASSUME ListTypes, StepInv, FrontInv, KeptInv, BufferInv, SetList
  PROVE  DoneInv' /\ FrontInv' /\ KeptInv' /\ BufferInv' /\ ListTypes'
<1>1. /\ pc = "setList" /\ pc' = "setEnabled" /\ said = "none"
      /\ UNCHANGED <<command, said, buffer, enabled, late, behind, astray, added>>
      /\ failed' \in BOOLEAN /\ (failed => failed')
  BY ListWritten DEF SetList, StepInv
<1>2. BufferFronted /\ BufferKept /\ BufferDone
  BY <1>1 DEF BufferInv, Writing
<1>3. DoneInv'
  BY <1>1 DEF DoneInv
<1>4. CASE appInit' = buffer /\ undone' = undone \cup late /\ UNCHANGED failed
  <2>1. PICK text : text = buffer /\ text \in Seq(Char)
    BY DEF ListTypes
  <2>2. ListTypes'
    BY <1>1, <1>4, <2>1 DEF ListTypes
  <2>3. FrontInv' /\ BufferFronted'
    BY <1>1, <1>2, <1>4, <2>1 DEF FrontInv, BufferFronted
  <2>4. KeptInv' /\ BufferKept'
    <3>1. SUFFICES ASSUME ~behind, ~astray
                   PROVE  KeptInv' /\ BufferKept'
      BY <1>1 DEF KeptInv, BufferKept
    <3>2. Clean(text) /\ \A path \in added \ (undone \cup late) : ListedBehind(text, path)
      BY <1>2, <2>1, <3>1 DEF BufferKept
    <3>3. added \ (undone \cup late) # {} => enabled
      BY <3>1 DEF KeptInv
    <3>4. added \ ((undone \cup late) \cup late) = added \ (undone \cup late)
      OBVIOUS
    <3>5. KeptInv'
      BY <1>1, <1>4, <2>1, <3>2, <3>3 DEF KeptInv
    <3>6. BufferKept'
      BY <1>1, <1>4, <2>1, <3>2, <3>4 DEF BufferKept
    <3> QED
      BY <3>5, <3>6
  <2>5. BufferDone'
    BY <1>1, <1>2, <1>4, <2>1 DEF BufferDone, Edited
  <2> QED
    BY <1>3, <2>2, <2>3, <2>4, <2>5 DEF BufferInv
<1>5. CASE failed' /\ UNCHANGED <<appInit, undone>>
  <2>1. FrontInv' /\ KeptInv'
    BY <1>1, <1>5, ListLeft
  <2>2. ListTypes'
    BY <1>1, <1>5 DEF ListTypes
  <2>3. BufferFronted' /\ BufferKept' /\ BufferDone'
    <3>1. PICK text : text = buffer
      OBVIOUS
    <3>2. BufferFronted'
      BY <1>1, <1>2, <3>1 DEF BufferFronted
    <3>3. BufferKept'
      BY <1>1, <1>2, <1>5, <3>1 DEF BufferKept
    <3> QED
      BY <1>5, <3>2, <3>3 DEF BufferDone
  <2> QED
    BY <1>3, <2>1, <2>2, <2>3 DEF BufferInv
<1> QED
  BY <1>4, <1>5 DEF SetList

(* A list is disabled only when nothing is in it but what was added late.  *)
LEMMA EnabledIsSet ==
  ASSUME ListTypes, StepInv, FrontInv, KeptInv, BufferInv, SetEnabled
  PROVE  DoneInv' /\ FrontInv' /\ KeptInv' /\ BufferInv' /\ ListTypes'
<1> DEFINE enable == command = "appInit" \/ buffer # <<>>
<1>1. /\ pc = "setEnabled" /\ pc' \in {"unlink", "say", "idle"} /\ said = "none"
      /\ pc' = "unlink" => command = "piggyback"
      /\ UNCHANGED <<command, said, appInit, behind, astray, added>>
      /\ buffer' = <<>> /\ failed' \in BOOLEAN /\ (failed => failed')
  BY ListWritten, AfterEach DEF SetEnabled, Return, StepInv
<1>2. BufferFronted /\ BufferKept /\ BufferDone
  BY <1>1 DEF BufferInv, Writing
<1>3. BufferInv'
  BY <1>1 DEF BufferInv, Writing
<1>4. PICK text : text = appInit /\ text \in Seq(Char)
  BY DEF ListTypes
<1>5. FrontInv'
  BY <1>1, <1>4 DEF FrontInv
<1>6. CASE /\ enabled' = enable /\ UNCHANGED failed
           /\ undone' = IF enable THEN undone ELSE undone \cup late
  <2>1. enabled' \in BOOLEAN
    BY <1>6, Zenon
  <2>2. ListTypes'
    BY <1>1, <1>4, <2>1 DEF ListTypes
  <2>3. ~enabled' => buffer = <<>> /\ undone' = undone \cup late /\ command # "appInit"
    BY <1>6
  <2>4. undone \subseteq undone'
    BY <1>6
  <2>5. ~behind /\ ~astray /\ ~enabled' => added \ undone' = {}
    <3>1. SUFFICES ASSUME ~behind, ~astray, ~enabled', NEW old \in added \ undone'
                   PROVE  FALSE
      OBVIOUS
    <3>2. old \in Others /\ ListedBehind(<<>>, old)
      BY <1>2, <2>3, <3>1 DEF BufferKept, ListTypes
    <3>3. PICK k \in Occurrences(<<>>, old) : TRUE
      BY <3>2 DEF ListedBehind
    <3> QED
      BY <3>2, <3>3, OthersProperties, NothingOccurs
  <2>6. KeptInv'
    BY <1>1, <1>4, <2>4, <2>5 DEF KeptInv
  <2>7. DoneInv'
    <3>1. SUFFICES ASSUME ~failed, ~behind
                   PROVE  /\ Contains(text, Ours) => enabled'
                          /\ Edited(text) /\ (command = "appInit" => enabled')
      BY <1>1, <1>4, <1>6 DEF DoneInv, ListDone, Edited
    <3>2. Edited(text) /\ (Contains(text, Ours) => Contains(buffer, Ours))
      BY <1>1, <1>2, <1>4, <3>1 DEF BufferDone
    <3>3. ~Contains(<<>>, Ours)
      BY OursProperties, ContainsOurs, NothingOccurs
    <3> QED
      BY <2>3, <3>2, <3>3
  <2> QED
    BY <1>3, <1>5, <2>2, <2>6, <2>7
<1>7. CASE failed' /\ UNCHANGED <<enabled, undone>>
  <2>1. KeptInv'
    BY <1>1, <1>7, ListLeft
  <2>2. ListTypes'
    BY <1>1, <1>4, <1>7 DEF ListTypes
  <2>3. DoneInv'
    BY <1>7 DEF DoneInv
  <2> QED
    BY <1>3, <1>5, <2>1, <2>2, <2>3
<1> QED
  BY <1>6, <1>7 DEF SetEnabled

LEMMA ListInvStep ==
  ASSUME ListInv, [Next]_vars
  PROVE  ListInv'
<1> USE DEF ListInv
<1>1. StepInv' /\ FilesInv' /\ LinkInv'
  BY StepInvStep, FilesStep
<1>2. CASE \E path \in Others : AddOther(path)
  BY <1>1, <1>2, OtherAdded
<1>3. CASE Register \/ Unregister
  BY <1>1, <1>3, Registered, Unregistered
<1>4. CASE SetList \/ SetEnabled
  BY <1>1, <1>4, ListIsSet, EnabledIsSet
<1>5. CASE /\ UNCHANGED <<appInit, enabled, behind, astray, added, undone>>
           /\ failed' \in BOOLEAN /\ (failed => failed')
           /\ \/ UNCHANGED <<pc, failed, command, said, buffer, late>>
              \/ End
              \/ /\ pc \notin {"register", "unregister", "setList", "setEnabled"}
                 /\ UNCHANGED buffer /\ ~Writing'
  <2>1. FrontInv' /\ KeptInv'
    BY <1>5, ListLeft
  <2>2. CASE UNCHANGED <<pc, failed, command, said, buffer, late>>
    <3>1. ListTypes'
      BY <1>5, <2>2 DEF ListTypes
    <3>2. DoneInv'
      BY <1>5, <2>2 DEF DoneInv, ListDone
    <3>3. BufferInv'
      BY <1>5, <2>2 DEF BufferInv, Writing, BufferFronted, BufferKept, BufferDone, Edited
    <3> QED
      BY <1>1, <2>1, <3>1, <3>2, <3>3
  <2>3. CASE End
    <3>1. failed' /\ buffer' = <<>> /\ pc' = "closed"
      BY <2>3 DEF End
    <3> QED
      BY <1>1, <1>5, <2>1, <3>1 DEF ListTypes, DoneInv, BufferInv, Writing
  <2>4. CASE /\ pc \notin {"register", "unregister", "setList", "setEnabled"}
             /\ UNCHANGED buffer /\ ~Writing'
    <3>1. DoneInv'
      BY <1>5, <2>4, DoneLeft
    <3> QED
      BY <1>1, <1>5, <2>1, <2>4, <3>1 DEF ListTypes, BufferInv
  <2> QED
    BY <1>5, <2>2, <2>3, <2>4
<1>6. CASE LaunchDropbox \/ Start \/ Quit
  <2>1. UNCHANGED <<appInit, enabled, buffer, late, added, undone>>
    BY <1>6 DEF LaunchDropbox, Launch, RemoteLoadDll, RemoteThread, Wait, Refuse, Resume,
                EndLauncher, Start, Quit, launchUnchanged, list, locals, others, history
  <2>2. UNCHANGED <<command, pc, said, failed, behind, astray>>
    BY <1>6, AroundCommands
  <2> QED
    BY <1>5, <2>1, <2>2 DEF ListTypes
<1>7. CASE UNCHANGED vars
  BY <1>5, <1>7 DEF vars, ListTypes
<1>8. CASE End
  BY <1>5, <1>8 DEF End, list, others
<1>9. CASE (\E later \in BOOLEAN : Open(later)) \/ (\E c \in Commands : Press(c)) \/ Close
  BY <1>5, <1>9 DEF Open, Press, Close, list, history, locals, others, Writing, ListTypes
<1>10. CASE Elevate \/ Compare \/ Say
  <2>1. /\ pc \notin {"register", "unregister", "setList", "setEnabled"}
        /\ UNCHANGED <<appInit, enabled, behind, astray, added, undone, buffer, failed>>
    BY <1>10 DEF Elevate, Compare, Say, list, history, locals, others
  <2>2. pc' \notin {"setList", "setEnabled"}
    <3>1. CASE Elevate
      BY <3>1, FirstSteps DEF Elevate, Commands, StepInv
    <3>2. CASE Compare
      BY <3>2, AfterEach DEF Compare
    <3> QED
      BY <1>10, <3>1, <3>2 DEF Say
  <2> QED
    BY <1>5, <2>1, <2>2 DEF Writing, ListTypes
<1>11. CASE Kill \/ CopyExe \/ WriteDll \/ DeleteExe \/ DeleteDll \/ Unlink \/ Relink
  <2>1. /\ pc \in {"kill", "copyExe", "writeDll", "deleteExe", "deleteDll", "unlink", "relink"}
        /\ UNCHANGED <<appInit, enabled, behind, astray, added, undone, buffer>>
        /\ failed' \in BOOLEAN /\ (failed => failed') /\ pc' \in {After(pc), "idle"}
    BY <1>11 DEF Kill, CopyExe, WriteDll, DeleteExe, DeleteDll, Unlink, Relink, GoOn,
                 list, locals, others, ListTypes
  <2>2. pc' \notin {"setList", "setEnabled"}
    BY <2>1, AfterEach
  <2> QED
    BY <1>5, <2>1, <2>2 DEF Writing
<1> QED
  BY <1>2, <1>3, <1>4, <1>6, <1>7, <1>8, <1>9, <1>10, <1>11 DEF Next, Step

LEMMA ListInvInit == Init => ListInv
<1> SUFFICES ASSUME Init
             PROVE  ListInv
  OBVIOUS
<1>1. ListTypes
  <2>1. appInit \in Seq(Char) /\ buffer \in Seq(Char) /\ added \subseteq Others
    BY DEF Init
  <2>2. enabled \in BOOLEAN /\ failed \in BOOLEAN /\ behind \in BOOLEAN /\ astray \in BOOLEAN
    BY Zenon DEF Init
  <2> QED
    BY <2>1, <2>2 DEF ListTypes
<1>2. StepInv
  BY DEF Init, StepInv
<1>3. FilesInv /\ LinkInv
  BY DEF Init, FilesInv, LinkInv
<1>4. DoneInv /\ BufferInv
  BY OursProperties, ContainsOurs, NothingOccurs DEF Init, DoneInv, BufferInv, Writing
<1>5. Clean(<<>>) /\ Fronted(<<>>)
  BY OursProperties, NothingOccurs DEF Clean, Fronted
<1>6. FrontInv /\ KeptInv
  BY <1>5 DEF Init, FrontInv, KeptInv
<1> QED
  BY <1>1, <1>2, <1>3, <1>4, <1>6 DEF ListInv

LEMMA ListInvariant == Spec => []ListInv
  BY ListInvInit, ListInvStep, PTL DEF Spec

(* The DLLs of other programs stay in AppInit_DLLs, and it stays enabled,  *)
(* for any paths of theirs and of ours, but for those that were added      *)
(* between the query and the writes: what a removal takes off the front of *)
(* the list is our path and the comma behind it, since our path is at the  *)
(* front or not in the list; and the buffer, once it is edited, has every  *)
(* DLL but those added later (UnInstallAppInit, DropboxFilter.cpp:151-164).*)
THEOREM OthersStay == Spec => []OthersKept
<1>1. ListInv => OthersKept
  BY DEF ListInv, KeptInv, OthersKept, ListedBehind, Listed, Ended
<1> QED
  BY <1>1, ListInvariant, PTL

(* "Install done." and "UnInstall done." are true of the files, of the     *)
(* link and of the list, when nothing has failed, in whatever order the    *)
(* commands follow each other (Install and UnInstall, DropboxFilter.cpp).  *)
THEOREM DoneAsSaid == Spec => []OneWay
<1>1. ListInv => OneWay
  BY DEF ListInv, FilesInv, FilesDone, LinkInv, LinkDone, DoneInv, ListDone, OneWay
<1> QED
  BY <1>1, ListInvariant, PTL

=============================================================================
