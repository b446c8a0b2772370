---------------------------- MODULE MCTracedList ----------------------------
(***************************************************************************)
(* Three elements of the object type T, selected through its interface I,  *)
(* with a nested object a of type U and a deferred field b.  T implements  *)
(* another interface J and is the member of a union N.                     *)
(***************************************************************************)
EXTENDS TracedList

Field(def, key, sels) ==
  [kind |-> "field", key |-> key, def |-> def, args |-> IF key = "a" THEN "first: 3" ELSE "",
   sels |-> sels, defer |-> "", on |-> TRUE]
Inline(cond, defer, sels) ==
  [kind |-> "inline", cond |-> cond, sels |-> sels, defer |-> defer, on |-> TRUE]
Spread(name, defer) == [kind |-> "spread", name |-> name, defer |-> defer, on |-> TRUE]

X == Field("U", "x", <<>>)
Y == Field("U", "y", <<>>)

MCInterfaces   == [T |-> {"I", "J"}, Other |-> {"I"}, I |-> {}, J |-> {}, N |-> {}, U |-> {}]
MCSatisfies    == [T |-> {"T", "I", "J", "N"}, Other |-> {"Other", "I"}, U |-> {"U"}]
MCImplementors == [I |-> {"T", "Other"}, J |-> {"T"}]
MCFragments ==
  [F |-> [cond |-> "I", sels |-> <<Field("I", "a", <<Y>>), Field("I", "b", <<>>)>>],
   G |-> [cond |-> "T", sels |-> <<Spread("F", ""), Field("T", "a", <<X>>)>>]]

MCElement == {"0", "1", "2"}
MCList    == <<"items">>
MCObject  == {MCList \o <<e>> : e \in MCElement} \cup {MCList \o <<e, "a">> : e \in MCElement}
MCType    == [o \in MCObject |-> IF Len(o) = 2 THEN "T" ELSE "U"]
MCPath    == {MCList} \cup {MCList \o <<e>> \o s : e \in MCElement, s \in {<<"a">>, <<"b">>, <<"a", "x">>, <<"a", "y">>}}
MCSelection ==
  <<Field("I", "a", <<X>>), Inline("T", "L", <<Field("T", "b", <<>>)>>),
    Inline("I", "", <<Field("I", "a", <<Y>>)>>), Inline("Other", "", <<Field("Other", "c", <<>>)>>)>>

\* Selections on I: up to three fields and spreads, or two with inline fragments among them.
Typename(def) == Field(def, "__typename", <<>>)
Simple(def) ==
  {Field(def, "a", <<X>>), Field(def, "a", <<Y>>), Field(def, "b", <<>>),
   [Field(def, "b", <<>>) EXCEPT !.on = FALSE]}
    \cup {Spread(name, defer) : name \in {"F", "G"}, defer \in {"", "L"}}
Nested ==
  UNION {{Inline(cond, defer, <<sel>>) : sel \in Simple(IF cond = "" THEN "I" ELSE cond)} :
           cond \in {"", "I", "T", "Other"}, defer \in {"", "M"}}
    \cup {Inline(def, "", <<Typename(def)>>) : def \in {"J", "N", "T"}}
    \cup {Inline("J", defer, <<Field("J", "b", <<>>)>>) : defer \in {"", "M"}}
    \cup {Inline("J", "", <<Field("J", "a", <<Y>>)>>)}
Selections == SeqOf(Simple("I"), 3) \cup SeqOf(Simple("I") \cup Nested, 2)

\* With those below them.
MCSelectionSets ==
  Selections \cup {MCSelection} \cup {MCFragments[name].sels : name \in DOMAIN MCFragments}
    \cup {<<>>, <<X>>, <<Y>>} \cup {<<Field("T", "b", <<>>)>>, <<Field("Other", "c", <<>>)>>}
    \cup UNION {SeqOf(Simple(def), 1) : def \in {"I", "T", "Other"}}
    \cup {<<Typename(def)>> : def \in {"J", "N", "T"}}
    \cup {<<Field("J", "b", <<>>)>>, <<Field("J", "a", <<Y>>)>>}

RECURSIVE DepthOf(_)
DepthOf(sels) ==
  LET below(sel) == IF sel.kind = "spread" THEN MCFragments[sel.name].sels ELSE sel.sels
  IN IF sels = <<>> THEN 0 ELSE 1 + Max({DepthOf(below(sel)) : sel \in ToSet(sels)})

MCDepth == [sels \in MCSelectionSets |-> DepthOf(sels)]

\* Ints from -8 to 7.  The documented cost of a list is a product, which may overflow.
Times(count) == [child \in 0 .. 7 |-> ((count * child + 8) % 16) - 8]
Fixed(cost)  == [child \in 0 .. 7 |-> cost]
MCOptions ==
  [custom  : {[f \in {<<"T", "a", "first: 3">>} |-> Times(3)],
              [f \in {<<"T", "a", "first: 3">>, <<"Other", "b", "">>} |-> Fixed(7)],
              [f \in {<<"I", "a", "first: 3">>, <<"U", "x", "">>} |-> Fixed(0)]},
   scalar  : {-1, 6},
   ignored : {{}, {<<"T", "b">>}}]
=============================================================================
