--------------------------- MODULE MCChangeFilter ---------------------------
(* Instances of ChangeFilter for TLC.                                      *)
EXTENDS ChangeFilter

CONSTANT reader

Characters == {"a", "b", "@", "C", "D", ":", "\\", "?", "cfg", "dev", "volume", "net", "subst", "Dropbox"}
UpperDef == [ch \in Characters |-> IF ch = "a" THEN "A" ELSE ch]

Volume == <<"\\", "dev", "\\", "volume">>
Net == <<"\\", "dev", "\\", "net">>

(* A drive, and one that stands for a directory of it.                     *)
LogicalDrivesDef ==
  <<[drive |-> "C", device |-> Volume],
    [drive |-> "D", device |-> <<"\\", "?", "?", "\\", "C", ":", "\\", "Dropbox">>]>>

DropboxPathDef == <<"C", ":", "\\", "Dropbox">>

(* The Dropbox directory, and a directory on a server, which has no drive. *)
Local == Volume \o <<"\\", "Dropbox">>
Remote == Net \o <<"\\", "Dropbox">>
BothDirectories == {Local, Remote}

(* a is filtered by its name, b while it has the attribute hidden.         *)
FilesDef == {<<Local, <<"a">>>>, <<Local, <<"b">>>>, <<Remote, <<"a">>>>}

EarlierDef == <<<<Local, <<"b">>>>, <<Local, <<"a">>>>>>

Rule(expr, mask, eor) == [expr |-> expr, mask |-> mask, eor |-> eor]
NoRules == <<>>
FilterExprDef ==
  <<Rule(<<"\\", "a">>, {}, {}), Rule(<<"*">>, {"hidden"}, {"hidden"})>>

=============================================================================
