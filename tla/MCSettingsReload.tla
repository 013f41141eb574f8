-------------------------- MODULE MCSettingsReload --------------------------
(* Instances of SettingsReload for TLC.                                    *)
EXTENDS SettingsReload

CONSTANTS t1, t2,      \* threads
          draft, backup, note   \* files

Rule(fs) == [exception |-> FALSE, files |-> fs]
Exception(fs) == [exception |-> TRUE, files |-> fs]

(* Both versions filter draft and except backup, which a rule applies to   *)
(* in both; note is only ever named by an exception.                       *)
TwoVersions ==
  << << Rule({draft, backup}), Exception({backup}) >>,
     << Rule({draft}), Rule({backup}), Exception({backup, note}) >> >>

(* Short versions for the race of two readers; note is only ever excepted, *)
(* and draft by the second version alone.                                  *)
RaceVersions ==
  << << Exception({note}), Rule({draft}) >>, << Exception({draft}) >> >>

=============================================================================
