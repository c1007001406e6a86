-------------------------------- MODULE MCClef --------------------------------
EXTENDS Clef

One(S) == {<<k>> : k \in S}

MCTyping ==
    [edit |-> One({"a", "sp", "control", "left", "right", "home", "backword", "foreword", "erase", "delete",
                   "insert", "killend", "enter"}),
     wide |-> {<<"uml", "uml">>}
             \cup One({"uml", "a", "left", "end", "erase", "delete", "insert", "backword", "foreword", "home", "killend", "kill"}),
     recall |-> {<<"a", "enter", "b", "enter">>, <<"a", "a", "enter">>, <<"b", "enter">>, <<"up">>, <<"down">>,
                 <<"enter">>},
     complete |-> One({"a", "b", "sp", "tab", "left", "erase", "enter"}),
     paste |-> {<<"a", "b">>, <<"left">>, <<"b">>, <<"a", "enter", "b">>, <<"del", "a", "b", "a">>, <<"delayed", "a">>,
                <<"immediate", "a", "b">>, <<"unknown">>, <<"escM", "a", "b", "a">>, <<"eof", "a", "b">>,
                <<"intr", "a">>, <<"insert">>, <<"^">>, <<"enter">>},
     page |-> {<<"a">>, <<"b", "enter">>, <<"erase">>, <<"left">>, <<"insert">>, <<"enter">>}]
MCMaxReads == [edit |-> 4, wide |-> 4, recall |-> 4, complete |-> 4, paste |-> 3, page |-> 4]
MCEmbedded == {"page"}
MCFiles == <<<< <<"a", "b">> >>, << <<"b", "b">>, <<"a", "a", "b">> >>>>
MCNewWords == {<< <<"a">>, <<"b", "a">> >>}
MCPasted == One({"a", "b", "sp", "uml", "^", "[", "CTRL", "ESC"})
            \cup {<<"a", "a">>, <<"a", "b">>, <<"uml", "uml">>, <<"ESC", "[", "a">>}
MCFunctionKey == [delayed |-> <<"a", "b">>, immediate |-> <<"b">>]
=============================================================================
