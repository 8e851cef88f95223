----------------------------- MODULE MCSegments -----------------------------
(* Every short item in front of, behind and without another condition, and *)
(* every short command line.                                               *)
EXTENDS Segments

MCBackends == {"exec", "http", "process"}
MCExecFlags == {"--output-contains"}
MCValueFlags == {"--contains", "--output-contains", "--name"}

(* "--send" takes a value and is missing from conditionValueFlags. *)
HTTPBodies ==
  {<<"word">>} \cup {<<"word", flag, value>> :
      flag \in {"--contains", "--send"}, value \in {"--", "http", "--contains", "--name"}}
ExecBodies == {<<>>} \cup {<<"--output-contains", value>> : value \in {"word", "--", "--name", "--contains", "exec"}}
Commands ==
  (SeqOf({"word", "--", "http", "guard", "--name", "--contains"}, 2) \ {<<>>})
    \cup {<<"word", a, b>> : a \in {"--", "--contains"}, b \in {"--", "http", "word"}}
    \cup {<<"--", "guard", b>> : b \in {"guard", "http", "word"}}

Names == {"", "n", "--", "--name", "--contains"}

HTTPItems ==
  {[guard |-> g, backend |-> "http", name |-> n, body |-> b, command |-> <<>>] :
      g \in BOOLEAN, n \in Names, b \in HTTPBodies}
ProcessItems ==
  {[guard |-> g, backend |-> "process", name |-> "", body |-> <<"--name", "word">>, command |-> <<>>] :
      g \in BOOLEAN}
ExecItems ==
  {[guard |-> g, backend |-> "exec", name |-> n, body |-> b, command |-> c] :
      g \in BOOLEAN, n \in Names, b \in ExecBodies, c \in Commands}
Items == HTTPItems \cup ProcessItems \cup ExecItems

Neighbours ==
  {[guard |-> g, backend |-> "http", name |-> "", body |-> <<"word">>, command |-> <<>>] : g \in BOOLEAN}
    \cup {[guard |-> g, backend |-> "exec", name |-> "n", body |-> <<>>, command |-> <<"word">>] :
            g \in BOOLEAN}

MCRecipes ==
  {<<item>> : item \in Items}
    \cup {<<item, other>> : item \in Items, other \in Neighbours}
    \cup {<<other, item>> : item \in Items, other \in Neighbours}

MCCommandLines == SeqOf({"exec", "http", "guard", "--", "--contains", "word"}, 4)
=============================================================================
