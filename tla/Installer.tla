----------------------------- MODULE Installer -----------------------------
(***************************************************************************)
(* The installer of DropboxFilter.cpp: its dialog's commands and what they *)
(* change in Program Files, in the Startup folder and in the registry      *)
(* value AppInit_DLLs, one action per call that changes something; and     *)
(* LaunchDropbox, another process of it, which starts Dropbox with the     *)
(* DLL (RemoteLoadDll of Util.cpp).  Each call may fail, and each process  *)
(* may be ended between any two of them.                                   *)
(*                                                                         *)
(* The registry value is a sequence of characters, since the installer     *)
(* moves characters about in it.  Other programs add their DLLs to it, at  *)
(* any time: also after the installer has read it and before it writes it. *)
(***************************************************************************)
EXTENDS Integers, Sequences

CONSTANTS
  Char,      \* the characters of paths, and the comma
  Ours,      \* shortDllPath: the short path of the installed DLL
  Others,    \* the DLL paths that other programs add
  Stale      \* what the uninitialised shortDllPath or buffer may hold

Comma == ","

(* "nul" ends a string.                                                    *)
ASSUME CharAssumption == Comma \in Char /\ "nul" \notin Char
ASSUME OursAssumption == Ours \in Seq(Char) /\ Ours # <<>>
ASSUME OthersAssumption == Others \subseteq Seq(Char) /\ Stale \subseteq Seq(Char)

VARIABLES
  exe,       \* the installed executable: "none", "same" as the one that runs, "old"
  dll,       \* the installed DLL: "none", "whole" (of this version), "old", "partial"
  appInit,   \* AppInit_DLLs
  enabled,   \* LoadAppInit_DLLs
  link,      \* Dropbox.lnk in the Startup folder: "none", or what it starts
  dropbox,   \* the Dropbox process: "none", "plain", "filtered", or Held
  launcher,  \* the process in LaunchDropbox: "none", its next step, or "ended"
             \* from outside while it had a Dropbox held
  rights,    \* the installer's process: "none", "user", "admin"
  command,   \* the button that was pressed, or the command that was passed on
  pc,        \* "closed", "idle", "elevate", or the step to be done next
  said,      \* the command whose message of success is shown last
  buffer,    \* the text that is about to be written to AppInit_DLLs
  ok,        \* whether the calls about the registry have succeeded
  failed,    \* history: a call failed, or the process ended inside a command
  behind,    \* history: a path has been added to a list that was not empty
  astray,    \* history: what shortDllPath or buffer held uninitialised has been written
             \* to the list, or has been taken off it
  added,     \* history: the DLLs that other programs added
  late,      \* history: those of them added since the installer read the list
  undone     \* history: those of them whose addition the installer has written over

files   == <<exe, dll>>
list    == <<appInit, enabled>>
locals  == <<buffer, ok, late>>
others  == <<added, undone>>
history == <<failed, behind, astray, others>>
vars == <<exe, dll, appInit, enabled, link, dropbox, launcher, rights, command, pc, said,
          buffer, ok, failed, behind, astray, added, late, undone>>

Commands == {"appInit", "piggyback", "uninstall"}

(* A Dropbox that is started suspended: without the DLL, with the remote   *)
(* thread that loads it, with the DLL.                                     *)
Held == {"suspended", "loading", "loaded"}

(* LaunchDropbox runs, from the installed executable.                      *)
Launching == launcher \notin {"none", "ended"}

(* The steps of each command: Install with InstallAppInit, Install with    *)
(* InstallPiggyback, and UnInstall with both removals.                     *)
Steps ==
  [appInit   |-> <<"compare", "kill", "copyExe", "writeDll", "unlink", "relink",
                   "register", "setList", "setEnabled", "say">>,
   piggyback |-> <<"compare", "kill", "copyExe", "writeDll", "unregister", "setList",
                   "setEnabled", "unlink", "relink", "say">>,
   uninstall |-> <<"kill", "deleteExe", "deleteDll", "unlink", "relink", "unregister",
                   "setList", "setEnabled", "say">>]

After(step) ==
  LET steps == Steps[command] IN steps[1 + CHOOSE i \in 1 .. Len(steps) : steps[i] = step]

Places == {"closed", "idle", "elevate"} \cup
  UNION {{Steps[c][i] : i \in 1 .. Len(Steps[c])} : c \in Commands}

-----------------------------------------------------------------------------
(* AppInit_DLLs as characters.                                             *)

OccursAt(text, part, k) == SubSeq(text, k, k + Len(part) - 1) = part

Occurrences(text, part) == {k \in 1 .. Len(text) - Len(part) + 1 : OccursAt(text, part, k)}

Contains(text, part) == part = <<>> \/ Occurrences(text, part) # {}

(* strstr                                                                  *)
First(text, part) ==
  IF part = <<>> THEN 1
  ELSE CHOOSE k \in Occurrences(text, part) : \A n \in Occurrences(text, part) : k <= n

CharAt(text, k) == IF k \in 1 .. Len(text) THEN text[k] ELSE "nul"

From(text, k) == SubSeq(text, k, Len(text))

(* strcat: a comma unless the list was empty.                              *)
Appended(text, path) == (IF text = <<>> THEN <<>> ELSE <<Comma>>) \o path

(* The memmoves take the characters off the front of the list, whatever    *)
(* place the path is found at.                                             *)
Removed(text, path) ==
  LET at == First(text, path) IN
  IF CharAt(text, at - 1) = Comma \/ CharAt(text, at + Len(path)) = Comma
    THEN From(text, Len(path) + 2)
    ELSE From(text, Len(path) + 1)

(* An entry of the list: a part of it between two commas.                  *)
Listed(text, path) ==
  \E k \in Occurrences(text, path) :
    CharAt(text, k - 1) \in {Comma, "nul"} /\ CharAt(text, k + Len(path)) \in {Comma, "nul"}

(* AppInit_DLLs is divided by commas; a short path has none.  Ours is a    *)
(* full path to a DLL, which is not a part of another one's.               *)
ASSUME PathsAssumption ==
  /\ \A i \in 1 .. Len(Ours) : Ours[i] # Comma
  /\ \A path \in Others :
       /\ path # <<>> /\ ~Contains(path, Ours)
       /\ \A i \in 1 .. Len(path) : path[i] # Comma

(* GetShortPathNameA finds the path of a file that is there, and otherwise *)
(* leaves shortDllPath as it was.                                          *)
ShortPaths == IF dll # "none" THEN {Ours} ELSE Stale

Init ==
  /\ exe = "none" /\ dll = "none"
  /\ appInit = <<>> /\ enabled = FALSE
  /\ link = "dropbox" /\ dropbox = "none" /\ launcher = "none"
  /\ rights = "none" /\ command = "none" /\ pc = "closed" /\ said = "none"
  /\ buffer = <<>> /\ ok = TRUE
  /\ failed = FALSE /\ behind = FALSE /\ astray = FALSE
  /\ added = {} /\ late = {} /\ undone = {}

-----------------------------------------------------------------------------
(* The dialog.                                                             *)

(* The executable that is started is the one that is installed, or a later *)
(* version.                                                                *)
Open(later) ==
  /\ pc = "closed"
  /\ pc' = "idle" /\ said' = "none"
  /\ rights' \in {"user", "admin"}
  /\ exe' = IF later /\ exe = "same" THEN "old" ELSE exe
  /\ dll' = IF later /\ dll = "whole" THEN "old" ELSE dll
  /\ UNCHANGED <<list, link, dropbox, launcher, command, history, locals>>

Close ==
  /\ pc = "idle"
  /\ pc' = "closed" /\ rights' = "none"
  /\ UNCHANGED <<files, list, link, dropbox, launcher, command, said, history, locals>>

Press(c) ==
  /\ pc = "idle"
  /\ pc' = "elevate" /\ command' = c /\ said' = "none"
  /\ UNCHANGED <<files, list, link, dropbox, launcher, rights, history, locals>>

Elevate ==
  LET passedOn == IF command = "uninstall" THEN "piggyback" ELSE command IN
  /\ pc = "elevate"
  /\ \/ rights = "admin" /\ pc' = Steps[command][1] /\ UNCHANGED <<rights, command>>
     \/ rights = "user" /\ rights' = "admin" /\ command' = passedOn /\ pc' = Steps[passedOn][1]
     \/ rights = "user" /\ pc' = "idle" /\ UNCHANGED <<rights, command>>
     \/ rights = "user" /\ rights' = "none" /\ pc' = "closed" /\ UNCHANGED command
  /\ UNCHANGED <<files, list, link, dropbox, launcher, said, history, locals>>

(* The process is ended from outside while a command runs.                 *)
End ==
  /\ pc \notin {"closed", "idle"}
  /\ pc' = "closed" /\ rights' = "none" /\ failed' = TRUE
  /\ buffer' = <<>> /\ ok' = TRUE /\ late' = {}
  /\ UNCHANGED <<files, list, link, dropbox, launcher, command, said, behind, astray, others>>

-----------------------------------------------------------------------------
(* Install and UnInstall.                                                  *)

GoOn(step) == pc' = After(step) /\ UNCHANGED <<rights, command, said>>

(* An executable that is the same means that nothing needs to be copied,   *)
(* whatever the DLL is; else the user is asked.                            *)
Compare ==
  /\ pc = "compare"
  /\ \/ exe = "same" /\ pc' = After("writeDll")
     \/ exe # "same" /\ pc' = After("compare")
     \/ exe # "same" /\ pc' = "idle"
  /\ UNCHANGED <<files, list, link, dropbox, launcher, rights, command, said, history, locals>>

Kill ==
  /\ pc = "kill"
  /\ \/ dropbox' = "none" /\ UNCHANGED failed
     \/ dropbox # "none" /\ failed' = TRUE /\ UNCHANGED dropbox
  /\ GoOn("kill")
  /\ UNCHANGED <<files, list, link, launcher, behind, astray, others, locals>>

CopyExe ==
  /\ pc = "copyExe"
  /\ \/ ~Launching /\ exe' = "same" /\ GoOn("copyExe") /\ UNCHANGED failed
     \/ failed' = TRUE /\ pc' = "idle" /\ UNCHANGED <<exe, rights, command, said>>
  /\ UNCHANGED <<dll, list, link, dropbox, launcher, behind, astray, others, locals>>

(* An executable that runs cannot be written over or deleted (CopyExe,     *)
(* DeleteExe), nor a DLL that a process has loaded.  Install               *)
(* reports a failure and goes on.                                          *)
DllInUse == dropbox \in {"filtered", "loaded"}

WriteDll ==
  /\ pc = "writeDll"
  /\ \/ ~DllInUse /\ dll' = "whole" /\ UNCHANGED failed
     \/ ~DllInUse /\ dll' = "partial" /\ failed' = TRUE
     \/ failed' = TRUE /\ UNCHANGED dll
  /\ GoOn("writeDll")
  /\ UNCHANGED <<exe, list, link, dropbox, launcher, behind, astray, others, locals>>

DeleteExe ==
  /\ pc = "deleteExe"
  /\ \/ ~Launching /\ exe' = "none" /\ UNCHANGED failed
     \/ failed' = TRUE /\ UNCHANGED exe
  /\ GoOn("deleteExe")
  /\ UNCHANGED <<dll, list, link, dropbox, launcher, behind, astray, others, locals>>

DeleteDll ==
  /\ pc = "deleteDll"
  /\ \/ ~DllInUse /\ dll' = "none" /\ UNCHANGED failed
     \/ failed' = TRUE /\ UNCHANGED dll
  /\ GoOn("deleteDll")
  /\ UNCHANGED <<exe, list, link, dropbox, launcher, behind, astray, others, locals>>

-----------------------------------------------------------------------------
(* UnInstallPiggyback and the second half of InstallPiggyback.             *)

Unlink ==
  /\ pc = "unlink"
  /\ \/ link' = "none" /\ UNCHANGED failed
     \/ failed' = TRUE /\ UNCHANGED link
  /\ GoOn("unlink")
  /\ UNCHANGED <<files, list, dropbox, launcher, behind, astray, others, locals>>

(* Mutant: the link is not made anew.                                      *)
RelinkNothing ==
  /\ pc = "relink"
  /\ GoOn("relink")
  /\ UNCHANGED <<files, list, link, dropbox, launcher, history, locals>>

Relink ==
  /\ pc = "relink"
  /\ \/ /\ link' = IF command = "piggyback" THEN "filter" ELSE "dropbox"
        /\ UNCHANGED failed
     \/ failed' = TRUE /\ UNCHANGED link
  /\ GoOn("relink")
  /\ UNCHANGED <<files, list, dropbox, launcher, behind, astray, others, locals>>

-----------------------------------------------------------------------------
(* InstallAppInit and UnInstallAppInit: the list is read and changed in    *)
(* the buffer; then the list is written, and then whether it is enabled.   *)
(* Others may write it before each of the three.                           *)

(* RegQueryValueExA: what the buffer holds when it fails is not known.     *)
Queries == {[done |-> TRUE, text |-> appInit]} \cup [done : {FALSE}, text : Stale]

ToWrite(text, done) == pc' = "setList" /\ buffer' = text /\ ok' = done /\ UNCHANGED late

(* InstallAppInit gives up when anything has failed, UnInstallAppInit does *)
(* not.                                                                    *)
Return(done) ==
  /\ pc' = IF command = "appInit" /\ ~done THEN "idle" ELSE After("setEnabled")
  /\ buffer' = <<>> /\ ok' = TRUE /\ late' = {}

(* The key cannot be opened, and nothing is written.                       *)
KeyFails == failed' = TRUE /\ Return(FALSE) /\ UNCHANGED <<behind, astray>>

Register ==
  /\ pc = "register"
  /\ \/ KeyFails
     \/ \E path \in ShortPaths, query \in Queries :
          /\ failed' = (failed \/ ~query.done)
          /\ IF Contains(query.text, path)
               THEN Return(query.done) /\ UNCHANGED <<behind, astray>>
               ELSE /\ ToWrite(query.text \o Appended(query.text, path), query.done)
                    /\ behind' = (behind \/ query.text # <<>>)
                    /\ astray' = (astray \/ ~query.done \/ path # Ours)
  /\ UNCHANGED <<files, list, link, dropbox, launcher, rights, command, said, others>>

Unregister ==
  /\ pc = "unregister"
  /\ \/ KeyFails
     \/ \E path \in ShortPaths, query \in Queries :
          /\ failed' = (failed \/ ~query.done)
          /\ IF Contains(query.text, path)
               THEN /\ ToWrite(Removed(query.text, path), query.done)
                    /\ astray' = (astray \/ ~query.done \/ path \notin {Ours, <<>>})
               ELSE Return(query.done) /\ UNCHANGED astray
          /\ UNCHANGED behind
  /\ UNCHANGED <<files, list, link, dropbox, launcher, rights, command, said, others>>

(* RegSetValueExA of AppInit_DLLs: what has been added since the list was  *)
(* read is gone.                                                           *)
SetList ==
  /\ pc = "setList" /\ pc' = "setEnabled"
  /\ \/ appInit' = buffer /\ undone' = undone \cup late /\ UNCHANGED <<ok, failed>>
     \/ ok' = FALSE /\ failed' = TRUE /\ UNCHANGED <<appInit, undone>>
  /\ UNCHANGED <<files, enabled, link, dropbox, launcher, rights, command, said, buffer, late,
                 behind, astray, added>>

(* Mutant: the list is disabled whatever is left in it.                    *)
SetEnabled_Disables ==
  LET enable == command = "appInit" IN
  /\ pc = "setEnabled"
  /\ \/ /\ enabled' = enable /\ Return(ok) /\ UNCHANGED failed
        /\ undone' = IF buffer = <<>> THEN undone \cup late ELSE undone
     \/ Return(FALSE) /\ failed' = TRUE /\ UNCHANGED <<enabled, undone>>
  /\ UNCHANGED <<files, appInit, link, dropbox, launcher, rights, command, said, behind,
                 astray, added>>

(* RegSetValueExA of LoadAppInit_DLLs: a list that was left empty is       *)
(* disabled, whatever has been added to it since.                          *)
SetEnabled ==
  LET enable == command = "appInit" \/ buffer # <<>> IN
  /\ pc = "setEnabled"
  /\ \/ /\ enabled' = enable /\ Return(ok) /\ UNCHANGED failed
        /\ undone' = IF enable THEN undone ELSE undone \cup late
     \/ Return(FALSE) /\ failed' = TRUE /\ UNCHANGED <<enabled, undone>>
  /\ UNCHANGED <<files, appInit, link, dropbox, launcher, rights, command, said, behind,
                 astray, added>>

(* "Install done.", "UnInstall done."                                      *)
Say ==
  /\ pc = "say"
  /\ said' = command /\ pc' = "idle"
  /\ UNCHANGED <<files, list, link, dropbox, launcher, rights, command, history, locals>>

Step ==
  \/ Elevate \/ Compare \/ Kill \/ CopyExe \/ WriteDll \/ DeleteExe \/ DeleteDll
  \/ Unlink \/ Relink \/ Register \/ Unregister \/ SetList \/ SetEnabled \/ Say

-----------------------------------------------------------------------------
(* LaunchDropbox, by the link at log in.  One Dropbox is there at a time.  *)

launchUnchanged == <<files, list, link, rights, command, pc, said, history, locals>>

(* CreateProcessA with CREATE_SUSPENDED.                                   *)
Launch ==
  /\ ~Launching /\ link = "filter" /\ exe # "none" /\ dropbox = "none"
  /\ dropbox' = "suspended" /\ launcher' = "load"
  /\ UNCHANGED launchUnchanged

(* The memory, the path in it, the thread: each may fail, as for a process *)
(* that is gone.                                                           *)
RemoteLoadDll ==
  /\ launcher = "load"
  /\ \/ dropbox = "suspended" /\ dropbox' = "loading" /\ launcher' = "wait"
     \/ launcher' = "tell" /\ UNCHANGED dropbox
  /\ UNCHANGED launchUnchanged

(* LoadLibraryA, in Dropbox.                                               *)
RemoteThread ==
  /\ dropbox = "loading"
  /\ dropbox' \in {"suspended"} \cup (IF dll \in {"whole", "old"} THEN {"loaded"} ELSE {})
  /\ UNCHANGED <<launchUnchanged, launcher>>

(* The thread's exit code is what LoadLibraryA returned, or the code that  *)
(* its process was ended with.  It may not be had, which counts as 0.      *)
(* Mutant: the thread is waited for, but not asked.                        *)
Wait_NotAsked ==
  /\ launcher = "wait" /\ dropbox # "loading"
  /\ launcher' = "resume"
  /\ UNCHANGED <<launchUnchanged, dropbox>>
Wait ==
  /\ launcher = "wait" /\ dropbox # "loading"
  /\ launcher' \in {"tell"} \cup (IF dropbox = "suspended" THEN {} ELSE {"resume"})
  /\ UNCHANGED <<launchUnchanged, dropbox>>

(* Dropbox stays as it is while the message is shown, and is ended then.   *)
Refuse ==
  /\ launcher = "tell"
  /\ dropbox' = IF dropbox \in Held THEN "none" ELSE dropbox
  /\ launcher' = "none"
  /\ UNCHANGED launchUnchanged

Resume ==
  /\ launcher = "resume"
  /\ dropbox' = IF dropbox = "loaded" THEN "filtered"
                ELSE IF dropbox = "suspended" THEN "plain" ELSE dropbox
  /\ launcher' = "none"
  /\ UNCHANGED launchUnchanged

(* The launcher is ended from outside.                                     *)
EndLauncher ==
  /\ Launching
  /\ launcher' = IF dropbox \in Held THEN "ended" ELSE "none"
  /\ UNCHANGED <<launchUnchanged, dropbox>>

LaunchDropbox ==
  Launch \/ RemoteLoadDll \/ RemoteThread \/ Wait \/ Refuse \/ Resume \/ EndLauncher

-----------------------------------------------------------------------------
(* Dropbox and other programs.                                             *)

(* Dropbox is started from the start menu, or by a link that starts it.    *)
Start ==
  LET byAppInit == enabled /\ Listed(appInit, Ours) /\ dll \in {"whole", "old"} IN
  /\ dropbox = "none"
  /\ dropbox' = IF byAppInit THEN "filtered" ELSE "plain"
  /\ UNCHANGED <<launchUnchanged, launcher>>

(* It ends or is ended, suspended or not.                                  *)
Quit ==
  /\ dropbox # "none"
  /\ dropbox' = "none"
  /\ UNCHANGED <<launchUnchanged, launcher>>

(* Another program adds its DLL at the end of the list.                    *)
AddOther(path) ==
  /\ path \notin added
  /\ added' = added \cup {path}
  /\ appInit' = appInit \o Appended(appInit, path)
  /\ enabled' = TRUE
  /\ late' = IF pc \in {"setList", "setEnabled"} THEN late \cup {path} ELSE late
  /\ UNCHANGED <<files, link, dropbox, launcher, rights, command, pc, said, buffer, ok, failed,
                 behind, astray, undone>>

Next ==
  \/ \E later \in BOOLEAN : Open(later)
  \/ \E c \in Commands : Press(c)
  \/ Close \/ End \/ Step \/ LaunchDropbox \/ Start \/ Quit
  \/ \E path \in Others : AddOther(path)

Spec == Init /\ [][Next]_vars

-----------------------------------------------------------------------------
(* Properties.                                                             *)

(* The installer leaves the DLLs of other programs in the list and keeps   *)
(* the list enabled, whatever fails and whenever it is ended, as long as   *)
(* it has only ever added itself to an empty list, and has neither taken   *)
(* what the uninitialised shortDllPath held for its path nor what the      *)
(* uninitialised buffer held for the list.  Behind another path its        *)
(* removal takes that one's characters off the list, and so does the       *)
(* removal of anything that is found in another one's path.                *)
(*                                                                         *)
(* What is lost is what was added while the installer had the list in its  *)
(* buffer (undone), and nothing else: added after the query and before the *)
(* list was written (DropboxFilter.cpp:151-161, 201-207), or disabled with *)
(* the list that the removal left empty (:164).                            *)
OthersKept ==
  ~behind /\ ~astray => \A path \in added \ undone : Listed(appInit, path) /\ enabled

(* When nothing fails, "Install done." means that Dropbox is filtered in   *)
(* one way and not in the other, also when the ways follow each other or a *)
(* later version is installed over an older one, and "UnInstall done."     *)
(* that the files are gone and the link starts Dropbox.                    *)
OneWay ==
  ~failed /\ ~behind /\ pc = "idle" =>
    /\ said \in {"appInit", "piggyback"} => exe = "same" /\ dll = "whole"
    /\ said = "appInit" => Listed(appInit, Ours) /\ enabled /\ link = "dropbox"
    /\ said = "piggyback" => ~Contains(appInit, Ours) /\ link = "filter"
    /\ said = "uninstall" => exe = "none" /\ dll = "none" /\ link = "dropbox"

(* "UnInstall done.": when nothing has failed, the list does not load the  *)
(* DLL any more.                                                           *)
UninstalledWhenSaid ==
  ~failed /\ ~behind /\ pc = "idle" /\ said = "uninstall" => ~Listed(appInit, Ours)

(* A Dropbox that the launcher started never runs without the DLL, and     *)
(* none stays suspended when the launcher is done: whatever fails, and     *)
(* also when the DLL is replaced or deleted meanwhile, Dropbox is ended    *)
(* and started again by someone else, or the installer ends it.            *)
LaunchedFiltered ==
  [][/\ dropbox \in Held => dropbox' # "plain"
     /\ dropbox' \in Held => launcher' # "none"]_vars

=============================================================================
