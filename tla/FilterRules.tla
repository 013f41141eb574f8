----------------------------- MODULE FilterRules -----------------------------
(***************************************************************************)
(* How a file is matched against the rules: WildcardMatch of               *)
(* Inject/glob.cpp, and Filter and FilterExceptions of Inject/Inject.cpp.  *)
(*                                                                         *)
(* A string is a sequence of characters; a character is a TLA+ string.  A  *)
(* set of file attributes stands for the DWORD with those bits.            *)
(***************************************************************************)
EXTENDS Integers, Sequences

CONSTANTS
  Upper,        \* per character: CharUpper of it
  DropboxPath   \* dropboxPath, the Dropbox directory without a separator at its end

(* What precedes a path that is not parsed further by Windows, "\\?\", and *)
(* the configuration file's name, "\DropboxFilter.cfg".                    *)
LongPathPrefix == <<"\\", "\\", "?", "\\">>
ConfigName == <<"\\", "cfg">>

-----------------------------------------------------------------------------
(* Mutant: * stands for one character or more.                             *)
WildcardMatchOneOrMore(str, mask) ==
  LET match[at \in (1 .. Len(str) + 1) \X (1 .. Len(mask) + 1)] ==
        LET i == at[1]
            j == at[2]
        IN IF j > Len(mask) THEN i > Len(str)
           ELSE IF mask[j] = "?" THEN i <= Len(str) /\ match[<<i + 1, j + 1>>]
           ELSE IF mask[j] = "*"
             THEN i <= Len(str) /\ (match[<<i + 1, j + 1>>] \/ match[<<i + 1, j>>])
           ELSE i <= Len(str) /\ Upper[str[i]] = Upper[mask[j]] /\ match[<<i + 1, j + 1>>]
  IN match[<<1, 1>>]

(* The rest of the string from i against the rest of the mask from j: *    *)
(* stands for nothing, or takes a character and stays.  A character of the *)
(* mask is never equal to the terminator of the string.                    *)
WildcardMatch(str, mask) ==
  LET match[at \in (1 .. Len(str) + 1) \X (1 .. Len(mask) + 1)] ==
        LET i == at[1]
            j == at[2]
        IN IF j > Len(mask) THEN i > Len(str)
           ELSE IF mask[j] = "?" THEN i <= Len(str) /\ match[<<i + 1, j + 1>>]
           ELSE IF mask[j] = "*"
             THEN match[<<i, j + 1>>] \/ (i <= Len(str) /\ match[<<i + 1, j>>])
           ELSE i <= Len(str) /\ Upper[str[i]] = Upper[mask[j]] /\ match[<<i + 1, j + 1>>]
  IN match[<<1, 1>>]

(* What is documented: a mask matches when the string can be cut into one  *)
(* piece per character of the mask.                                        *)
DocumentedMatch(str, mask) ==
  \E inner \in [1 .. Len(mask) - 1 -> 0 .. Len(str)] :
    LET cut(j) == IF j = 0 THEN 0 ELSE IF j = Len(mask) THEN Len(str) ELSE inner[j] IN
    \A j \in 1 .. Len(mask) :
      \/ mask[j] = "*" /\ cut(j - 1) <= cut(j)
      \/ /\ mask[j] # "*" /\ cut(j) = cut(j - 1) + 1
         /\ mask[j] = "?" \/ Upper[mask[j]] = Upper[str[cut(j)]]

-----------------------------------------------------------------------------
(* wcsicmp and wcsnicmp.                                                   *)
SameText(a, b) == Len(a) = Len(b) /\ \A i \in 1 .. Len(a) : Upper[a[i]] = Upper[b[i]]

BeginsWith(str, comp) ==
  Len(comp) <= Len(str) /\ SameText(SubSeq(str, 1, Len(comp)), comp)

(* For a string that is not shorter than comp: the code reads the bytes    *)
(* in front of a shorter one.                                              *)
EndsWith(str, comp) ==
  Len(comp) <= Len(str) /\ SameText(SubSeq(str, Len(str) - Len(comp) + 1, Len(str)), comp)

(* (attrib ^ attrib_eor) & attrib_mask                                     *)
AttribsDiffer(rule, attrib) ==
  ((attrib \ rule.eor) \cup (rule.eor \ attrib)) \cap rule.mask # {}

Applies(rule, name, attrib) ==
  ~AttribsDiffer(rule, attrib) /\ WildcardMatch(name, rule.expr)

FilterExceptions(excps, name, attrib) ==
  \E i \in 1 .. Len(excps) : Applies(excps[i], name, attrib)

(* The first rule that applies decides, and the exceptions after it.       *)
FilterBelow(rules, excps, name, attrib) ==
  \E i \in 1 .. Len(rules) :
    /\ Applies(rules[i], name, attrib)
    /\ \A j \in 1 .. i - 1 : ~Applies(rules[j], name, attrib)
    /\ ~FilterExceptions(excps, name, attrib)

(* What is matched is the path behind the Dropbox directory.               *)
Filter(rules, excps, fileName, attrib) ==
  LET path == IF BeginsWith(fileName, LongPathPrefix)
                THEN SubSeq(fileName, Len(LongPathPrefix) + 1, Len(fileName)) ELSE fileName
  IN /\ ~EndsWith(fileName, ConfigName)
     /\ BeginsWith(path, DropboxPath)
     /\ FilterBelow(rules, excps, SubSeq(path, Len(DropboxPath) + 1, Len(path)), attrib)

=============================================================================
