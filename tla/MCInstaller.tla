---------------------------- MODULE MCInstaller ----------------------------
(* Instances of Installer for TLC.                                         *)
EXTENDS Installer

CharDef == {"o", "u", "r", "a", "b", "c", "d", "e", Comma}

(* Two characters stand for our path; one path of another program is       *)
(* shorter than ours and one is longer.                                    *)
OursDef == <<"o", "u">>
OthersDef == {<<"a">>, <<"b", "c", "d">>}
(* Nothing, and a part of another program's path.                          *)
StaleDef == {<<>>, <<"d">>}

(* What no step and no property looks at any more is left out of a state:  *)
(* what was pressed or said last, and the histories of a list that         *)
(* OthersKept does not speak of.                                           *)
View ==
  <<exe, dll, list, link, dropbox, launcher, rights, pc, buffer, ok, failed, behind, added,
    IF pc \in {"closed", "idle"} THEN "none" ELSE command,
    IF pc = "closed" THEN "none" ELSE said,
    behind \/ astray,
    IF behind \/ astray THEN <<>> ELSE <<late, undone>>>>

=============================================================================
