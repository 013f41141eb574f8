--------------------------- MODULE MCConfigParser ---------------------------
(* Instances of ConfigParser for TLC: configurations of two lines.         *)
EXTENDS ConfigParser, TLC

CharSet == {"a", "A", "b", "\\", "?", "*", "cfg", "root", " ", "-"}
UpperDef == [ch \in CharSet |-> IF ch = "a" THEN "A" ELSE ch]
RootDef == <<"root">>

NoAttribs == <<>>
Attrib(sign, letter) == [sign |-> sign, letter |-> letter]

LinesOf(names, attribs, lengths) ==
  LET StatementsDef == [name : names, attribs : attribs] IN
  [exception : BOOLEAN, statements : UNION {[1 .. n -> StatementsDef] : n \in lengths},
   separator : {","}, comment : {"none", "spaced"}]

(* A long line and a short one; the doc's example of signs and letters.    *)
ConfigurationsDef ==
  {<<one, two>> :
     one \in LinesOf({<<"*", "a">>, <<"*", "?">>}, {NoAttribs, <<Attrib("-", "h"), Attrib("none", "s")>>}, {1, 2}),
     two \in [exception : BOOLEAN, separator : {";"}, comment : {"tight", "spaced"},
              statements : {<<>>, <<[name |-> <<"\\", "b", "*">>, attribs |-> NoAttribs]>>,
                            <<[name |-> <<"*">>, attribs |-> <<Attrib("+", "d")>>]>>}]}

Flags == {{}, {"hidden"}, {"system"}, {"system", "directory"}}

ProbesDef ==
  [path : {<<"root", "\\", "a">>, <<"root", "\\", "b", "A">>, <<"root", "\\", "b">>,
           LongPathPrefix \o <<"root", "\\", "a">>, <<"a", "\\", "a">>,
           <<"root", "\\", "cfg">>, <<"root", "\\", "b", "\\", "cfg">>}, attribs : Flags]

GarbageDef == {NUL, "a"}

=============================================================================
