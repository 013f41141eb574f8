---------------------------- MODULE ConfigParser ----------------------------
(***************************************************************************)
(* The parser of DropboxFilter.cfg in ReadSettings (Inject/Inject.cpp),    *)
(* one action per round of its loop at the label next, and what the rules  *)
(* it has read make Filter decide.                                         *)
(*                                                                         *)
(* The user has a list of statements in mind for each line and writes it   *)
(* down (Written); the parser reads the characters.                        *)
(***************************************************************************)
EXTENDS FilterRules, SequencesExt

CONSTANTS
  Configurations,   \* what users write: sequences of lines, each of
                    \*   exception: the line begins with "-"
                    \*   statements: a sequence of [name, attribs]; attribs is a
                    \*     sequence of [sign, letter], the sign "+", "-" or "none"
                    \*   separator: "," or ";" after a statement without attributes
                    \*   comment: "none", "tight", or "spaced" behind a blank
  BufferSize,       \* bound on the characters of a statement
  Garbage           \* what the uninitialised array statement may hold everywhere

VARIABLES
  config,          \* what the user has in mind
  lineNo,          \* the line that was read last
  line,            \* the characters of the array line
  in,              \* position in the line
  exception,
  statement,       \* the characters of the array statement
  c,               \* the character the scan stopped behind
  pc,              \* "gets": at fgetws; "next": at the label next; "scanned"; "done"
  filterExpr,
  filterExcpExpr

vars == <<config, lineNo, line, in, exception, statement, c, pc, filterExpr, filterExcpExpr>>

NUL == "nul"
Blanks == {" ", "tab"}
NewLines == {"nl", "cr"}

-----------------------------------------------------------------------------
(* The characters of a line.                                               *)

(* For each place, the parts from there on and the end behind the last.    *)
Joined(parts, end) ==
  LET from[i \in 1 .. Len(parts) + 1] ==
        IF i > Len(parts) THEN end ELSE parts[i] \o from[i + 1]
  IN from

AttribsText(attribs) ==
  Joined([i \in 1 .. Len(attribs) |->
           IF attribs[i].sign = "none" THEN <<attribs[i].letter>>
                                       ELSE <<attribs[i].sign, attribs[i].letter>>], <<">">>)

WrittenAttribs(attribs) ==
  IF attribs = <<>> THEN <<>> ELSE <<"<">> \o AttribsText(attribs)[1]

(* Statements with attributes need no separator, and may not have one.     *)
WrittenStatement(ln, i) ==
  LET st == ln.statements[i] IN
  (IF i > 1 THEN <<" ">> ELSE <<>>) \o st.name \o WrittenAttribs(st.attribs)
    \o (IF i < Len(ln.statements) /\ st.attribs = <<>> THEN <<ln.separator>> ELSE <<>>)

(* Behind the statements.                                                  *)
WrittenComment(ln) ==
  CASE ln.comment = "none"   -> <<"nl">>
    [] ln.comment = "tight"  -> <<"#", "a", "nl">>
    [] ln.comment = "spaced" -> <<" ", "#", "a", "nl">>

StatementsText(ln) ==
  Joined([i \in 1 .. Len(ln.statements) |-> WrittenStatement(ln, i)], WrittenComment(ln))

Written(ln) ==
  (IF ln.exception THEN <<"-", ln.separator>> ELSE <<>>) \o StatementsText(ln)[1]

(* What users write.  A name is no sign of the language and does not begin *)
(* or end with a blank; the letters are those that DropboxFilter.cfg and   *)
(* the parser agree on, no letter with two signs in one statement.         *)
Names ==
  {name \in Seq(STRING) \ {<<>>, <<"-">>} :
     /\ \A i \in 1 .. Len(name) :
          name[i] \notin {"#", "<", ",", ";", NUL} \cup NewLines
     /\ name[1] \notin Blanks /\ Last(name) \notin Blanks
     /\ Len(name) + 3 <= BufferSize}

AttribLists ==
  {attribs \in Seq([sign : {"+", "-", "none"}, letter : {"h", "r", "a", "s", "c", "d"}]) :
     \A i, j \in 1 .. Len(attribs) : attribs[i].letter = attribs[j].letter
                                     => (attribs[i].sign = "-" <=> attribs[j].sign = "-")}

Statements == [name : Names, attribs : AttribLists]

Lines == [exception : BOOLEAN, statements : Seq(Statements), separator : {",", ";"},
          comment : {"none", "tight", "spaced"}]

ASSUME ConfigurationsAssumption == Configurations \subseteq Seq(Lines)

(* With blanks in it the code would write behind the array.                *)
ASSUME BufferAssumption == BufferSize \in Nat /\ BufferSize >= 2 /\ Garbage \subseteq STRING \ Blanks

-----------------------------------------------------------------------------
(* The parser.                                                             *)

Char(ln, i) == IF i <= Len(ln) THEN ln[i] ELSE NUL

(* The first position from i on that holds one of the characters (or, with *)
(* Skip, none of them).                                                    *)
FirstOf(ln, i, chars) ==
  CHOOSE k \in i .. Len(ln) + 1 :
    Char(ln, k) \in chars /\ \A n \in i .. k - 1 : Char(ln, n) \notin chars

Skip(ln, i, chars) ==
  CHOOSE k \in i .. Len(ln) + 1 :
    Char(ln, k) \notin chars /\ \A n \in i .. k - 1 : Char(ln, n) \in chars

(* The flag a letter stands for, in either case.                           *)
FlagOf(letter) ==
  CASE letter = "h" -> {"hidden"}     [] letter = "s" -> {"system"}
    [] letter = "a" -> {"archive"}    [] letter = "c" -> {"compressed"}
    [] letter = "d" -> {"directory"}  [] letter = "r" -> {"readonly"}
    [] letter = "j" -> {"reparsePoint"}
    [] OTHER -> {}

(* Mutant: the sign holds until the next sign.                             *)
AttribsStickySign(ln, i) ==
  LET attribs[n \in 1 .. Len(ln) + 1, set \in BOOLEAN] ==
        IF Char(ln, n) \in {NUL, ">"} THEN [mask |-> {}, eor |-> {}, in |-> n]
        ELSE LET sign == Char(ln, n) \in {"+", "-"}
                 now  == IF sign THEN Char(ln, n) # "-" ELSE set
                 at   == IF sign THEN n + 1 ELSE n
                 rest == attribs[at + 1, now]
                 flag == FlagOf(Char(ln, at))
             IN [rest EXCEPT !.mask = @ \cup flag, !.eor = IF now THEN @ \cup flag ELSE @]
  IN attribs[i, TRUE]

(* The attributes up to ">" or the end of the line: a sign is for the one  *)
(* letter behind it.  (A sign in the last place of a line makes the code   *)
(* read behind the terminator; no configuration here does.)                *)
Attribs(ln, i) ==
  LET attribs[n \in 1 .. Len(ln) + 1] ==
        IF Char(ln, n) \in {NUL, ">"} THEN [mask |-> {}, eor |-> {}, in |-> n]
        ELSE LET sign == Char(ln, n) \in {"+", "-"}
                 at   == IF sign THEN n + 1 ELSE n
                 rest == attribs[at + 1]
                 flag == FlagOf(Char(ln, at))
             IN [rest EXCEPT !.mask = @ \cup flag,
                             !.eor = IF Char(ln, n) # "-" THEN @ \cup flag ELSE @]
  IN attribs[i]

(* The array statement once name is stored in it: what is behind the name  *)
(* is what was there before.  Where the name ends in a blank, out goes     *)
(* forward instead of back, over stale blanks to a character that is not.  *)
Stored(name) ==
  LET held == [k \in 1 .. BufferSize |-> IF k <= Len(name) THEN name[k] ELSE statement[k]]
      out == IF name = <<>> THEN 0
             ELSE CHOOSE k \in Len(name) .. BufferSize - 1 :
                    held[k] \notin Blanks /\ \A n \in Len(name) .. k - 1 : held[n] \in Blanks
  IN [held EXCEPT ![out + 1] = NUL]

Text == SubSeq(statement, 1, FirstOf(statement, 1, {NUL}) - 1)

Init ==
  /\ config \in Configurations
  /\ lineNo = 0 /\ line = <<>> /\ in = 1 /\ c = NUL
  /\ exception = FALSE
  /\ \E g \in Garbage : statement = [k \in 1 .. BufferSize |-> g]
  /\ pc = "gets"
  /\ filterExpr = <<>> /\ filterExcpExpr = <<>>

Gets ==
  /\ pc = "gets"
  /\ IF lineNo < Len(config)
       THEN /\ lineNo' = lineNo + 1
            /\ line' = Written(config[lineNo + 1])
            /\ in' = 1
            /\ exception' = FALSE
            /\ pc' = "next"
       ELSE /\ pc' = "done"
            /\ UNCHANGED <<lineNo, line, in, exception>>
  /\ UNCHANGED <<config, statement, c, filterExpr, filterExcpExpr>>

(* A comment ends the line, behind any blanks.                             *)
Comment ==
  /\ pc = "next"
  /\ Char(line, Skip(line, in, Blanks)) = "#"
  /\ pc' = "gets"
  /\ UNCHANGED <<config, lineNo, line, in, exception, statement, c, filterExpr, filterExcpExpr>>

WithoutNewLines(word) ==
  Joined([i \in 1 .. Len(word) |-> IF word[i] \in NewLines THEN <<>> ELSE <<word[i]>>], <<>>)[1]

(* A name goes up to a character that ends it, which is read except for #. *)
Scan ==
  LET start == Skip(line, in, Blanks)
      stop == FirstOf(line, start, {"#", "<", ",", ";", NUL})
      name == WithoutNewLines(SubSeq(line, start, stop - 1))
  IN
  /\ pc = "next"
  /\ Char(line, start) # "#"
  /\ statement' = Stored(name)
  /\ c' = Char(line, stop)
  /\ in' = IF c' \in {"#", NUL} THEN stop ELSE stop + 1
  /\ pc' = "scanned"
  /\ UNCHANGED <<config, lineNo, line, exception, filterExpr, filterExcpExpr>>

(* The rest of a line with an empty name in it is not read.                *)
EmptyName ==
  /\ pc = "scanned"
  /\ Text = <<>>
  /\ pc' = "gets"
  /\ UNCHANGED <<config, lineNo, line, in, exception, statement, c, filterExpr, filterExcpExpr>>

(* What is read between < and >, and where the next statement begins.      *)
Attributes == IF c = "<" THEN Attribs(line, in) ELSE [mask |-> {}, eor |-> {}, in |-> in]
Resume == IF c = "<" /\ Char(line, Attributes.in) = ">" THEN Attributes.in + 1
                                                       ELSE Attributes.in

(* Mutant: the scan goes back to where the name began.                     *)
ExceptionMarkStays ==
  /\ pc = "scanned"
  /\ Text = <<"-">>
  /\ in' = 1
  /\ exception' = TRUE
  /\ pc' = "next"
  /\ UNCHANGED <<config, lineNo, line, statement, c, filterExpr, filterExcpExpr>>

(* "-": the other statements of the line are exceptions.                   *)
ExceptionMark ==
  /\ pc = "scanned"
  /\ Text = <<"-">>
  /\ in' = Resume
  /\ exception' = TRUE
  /\ pc' = "next"
  /\ UNCHANGED <<config, lineNo, line, statement, c, filterExpr, filterExcpExpr>>

(* Mutant: the flag exception holds for one statement.                     *)
PushStatementOnce ==
  LET expr == [expr |-> Text, eor |-> Attributes.eor, mask |-> Attributes.mask] IN
  /\ pc = "scanned"
  /\ Text \notin {<<>>, <<"-">>}
  /\ in' = Resume
  /\ exception' = FALSE
  /\ filterExpr' = IF exception THEN filterExpr ELSE Append(filterExpr, expr)
  /\ filterExcpExpr' = IF exception THEN Append(filterExcpExpr, expr) ELSE filterExcpExpr
  /\ pc' = "next"
  /\ UNCHANGED <<config, lineNo, line, statement, c>>

PushStatement ==
  LET expr == [expr |-> Text, eor |-> Attributes.eor, mask |-> Attributes.mask] IN
  /\ pc = "scanned"
  /\ Text \notin {<<>>, <<"-">>}
  /\ in' = Resume
  /\ filterExpr' = IF exception THEN filterExpr ELSE Append(filterExpr, expr)
  /\ filterExcpExpr' = IF exception THEN Append(filterExcpExpr, expr) ELSE filterExcpExpr
  /\ pc' = "next"
  /\ UNCHANGED <<config, lineNo, line, exception, statement, c>>

Next == Gets \/ Comment \/ Scan \/ EmptyName \/ ExceptionMark \/ PushStatement

Spec == Init /\ [][Next]_vars /\ WF_vars(Next)

-----------------------------------------------------------------------------
(* Properties.                                                             *)

CONSTANTS Probes    \* files to ask about: [path, attribs]

ASSUME ProbesAssumption ==
  DropboxPath \in Seq(STRING) /\ \A file \in Probes : file.path \in Seq(STRING)

(* "+ or none: Flag have to be set", "-: Flag have to be unset", for the   *)
(* letters that DropboxFilter.cfg lists.                                   *)
DocumentedFlag == [h |-> "hidden", r |-> "readonly", a |-> "archive", s |-> "system",
                   c |-> "compressed", d |-> "directory", l |-> "reparsePoint"]

DocumentedAttribs(attribs, has) ==
  \A i \in 1 .. Len(attribs) :
    (attribs[i].sign = "-") <=> DocumentedFlag[attribs[i].letter] \notin has

(* A statement applies to a file below the Dropbox directory.              *)
Means(st, rest, has) == DocumentedMatch(rest, st.name) /\ DocumentedAttribs(st.attribs, has)

SomeStatement(exc, rest, has) ==
  \E n \in 1 .. Len(config) : config[n].exception = exc /\
    \E i \in 1 .. Len(config[n].statements) : Means(config[n].statements[i], rest, has)

(* A file called as the configuration is never filtered, wherever it is.   *)
Meant(file) ==
  LET path == IF BeginsWith(file.path, LongPathPrefix)
                THEN SubSeq(file.path, Len(LongPathPrefix) + 1, Len(file.path)) ELSE file.path
      rest == SubSeq(path, Len(DropboxPath) + 1, Len(path))
  IN  /\ BeginsWith(path, DropboxPath) /\ ~EndsWith(file.path, ConfigName)
      /\ SomeStatement(FALSE, rest, file.attribs) /\ ~SomeStatement(TRUE, rest, file.attribs)

(* A blank in front of a comment belongs to a name without attributes, and *)
(* the code then makes the name longer instead of shorter.                 *)
Spoiled(ln) ==
  ln.comment = "spaced" /\ ln.statements # <<>> /\ Last(ln.statements).attribs = <<>>

(* The files that are filtered are those the user meant: wildcards,        *)
(* attributes, exceptions and comments mean what the documentation says.   *)
FilteredAsMeant ==
  pc = "done" /\ (\A n \in 1 .. Len(config) : ~Spoiled(config[n])) =>
    \A file \in Probes :
      Filter(filterExpr, filterExcpExpr, file.path, file.attribs) <=> Meant(file)

(* A name with a blank behind it spoils itself and no other statement: the *)
(* lists have one entry per statement, in order, with the names written.   *)
StatementsOf(exc) ==
  Joined([n \in 1 .. Len(config) |->
    IF config[n].exception # exc THEN <<>>
    ELSE [i \in 1 .. Len(config[n].statements) |->
           [statement |-> config[n].statements[i],
            spoiled |-> Spoiled(config[n]) /\ i = Len(config[n].statements)]]], <<>>)[1]

DamageContained ==
  pc = "done" =>
    \A exc \in BOOLEAN :
      LET stmts == StatementsOf(exc)
          list == IF exc THEN filterExcpExpr ELSE filterExpr
      IN /\ Len(list) = Len(stmts)
         /\ \A i \in 1 .. Len(list) :
              IF stmts[i].spoiled THEN IsPrefix(stmts[i].statement.name, list[i].expr)
                                  ELSE list[i].expr = stmts[i].statement.name

(* The parser gets to the end of every file.                               *)
Finishes == <>(pc = "done")

=============================================================================
