------------------------------ MODULE MCShell -------------------------------
(* TLC instance of Shell: paths deeper than MAX_SEGMENTS, names with a      *)
(* slash and names too long, paths too long for their array, texts that    *)
(* end inside a block, lines with too few and too many words.              *)
EXTENDS Shell

MCPaths == {<<"/">>, <<"/", "a">>, <<"/", "a", "/", "a">>, <<"a">>, <<"b">>, <<"a", "/", "b">>}

MCLines ==
  {<<verb, " ">> \o path : verb \in {"cd", "mkdir", "touch", "rm"}, path \in MCPaths}
  \cup {<<"write", " ">> \o path \o text :
          path \in {<<"/">>, <<"/", "a">>, <<"b">>, <<"a", "/", "b">>}, text \in {<<" ", "x">>, <<" ", "y", " ", " ", "x", " ", "y">>}}
  \cup {<<"ls", " ", "b">>, <<"cat", " ", "a", "/", "b">>}
  \cup {<<>>, <<" ">>, <<"shutdown">>, <<"pwd">>, <<"cd">>, <<"touch">>, <<"rm">>,
        <<"write", " ", "a">>, <<"mkdir", " ", "a", "/", "b", "/">>}

MCNames    == {name \in EntryNames : Len(name) <= MAX_NAME}
MCBadNames == {name \in EntryNames : Len(name) > MAX_NAME}

MCBytes == {"x", "y", " ", "?"}
=============================================================================
