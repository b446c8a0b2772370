--------------------------- MODULE MCDeferredExec ---------------------------
(***************************************************************************)
(* One query for TLC.  The query type has a synchronous field and two      *)
(* concurrent ones; "user" returns object A, "list" the objects B and C.   *)
(*   A defers gA, whose non-null field returns object D, which defers gD.  *)
(*   B defers gB; C is a list element with a non-null leaf.                *)
(***************************************************************************)
EXTENDS DeferredExec

MCObject == {"Query", "A", "B", "C", "D"}
MCGroup  == {"gA", "gB", "gD"}

MCfieldSetOf == [version |-> "Query", user |-> "Query", list |-> "Query",
                 name |-> "A", posts |-> "gA", title |-> "gD",
                 rating |-> "gB", score |-> "C"]
MCTask == DOMAIN MCfieldSetOf

MCchildren == [t \in MCTask |->
  CASE t = "user" -> {"A"} [] t = "list" -> {"B", "C"} [] t = "posts" -> {"D"}
    [] OTHER -> {}]

MCowner == [gA |-> "A", gB |-> "B", gD |-> "D"]

MCpayloadOf == [x \in MCObject \cup MCGroup |->
  IF x \in MCGroup THEN x ELSE IF x = "D" THEN "gA" ELSE "Query"]

MCUnder == {<<x, x>> : x \in MCObject \cup MCGroup}
           \cup {<<x, "Query">> : x \in {"A", "B", "C"}} \cup {<<"D", "gA">>}

MCSyncTask == {"version"}
MCNonNull  == {"version", "list", "name", "posts", "title", "score"}
MCStrict   == {"user", "list", "posts"}
=============================================================================
