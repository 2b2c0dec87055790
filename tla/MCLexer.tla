------------------------------ MODULE MCLexer ------------------------------
(***************************************************************************)
(* Two kinds of texts: tokens written one after the other, with or without *)
(* white space and comments between them, whose scan is known; and any     *)
(* sequence of a few characters, as an editor has them between keystrokes. *)
(***************************************************************************)
EXTENDS Written, SequencesExt

CONSTANTS MaxTokens,  \* tokens written in one text
          MaxChars,   \* characters of one text of any characters
          Alphabet    \* the characters of such a text

Spelled(kind, text) == [kind |-> kind, text |-> text]
Vocabulary == {
  Spelled("ident", <<"x">>), Spelled("ident", <<"e", "1">>), Spelled("ident", <<"T", "o">>),
  Spelled("keyword", <<"I", "f">>), Spelled("keyword", <<"d", "o">>),
  Spelled("int", <<"1", "0">>), Spelled("real", <<"1", ".", "5">>), Spelled("real", <<"2", "E", "-", "1">>),
  Spelled("hex", <<"$", "1", "f">>),
  Spelled("str", <<"'", "'">>), Spelled("str", <<"'", "x", "'", "'", "'">>), Spelled("int", <<"#", "6", "5">>),
  Spelled("symbol", <<".">>), Spelled("symbol", <<".", ".">>), Spelled("symbol", <<":">>), Spelled("symbol", <<"=">>),
  Spelled("symbol", <<"(">>), Spelled("symbol", <<"*">>), Spelled("symbol", <<"-">>), Spelled("symbol", <<"<">>),
  Spelled("symbol", <<":", "=">>)}
Gaps == {<<>>, <<" ">>, <<"\n">>, <<"{", "'", "}">>, <<"(", "*", "{", "*", ")">>, <<"{", "$", "i", "}">>}

Joined(ts, gap) == FlattenSeq([k \in DOMAIN ts |-> ts[k].text \o gap])
Row(ts, gap) == [k \in DOMAIN ts |->
  [kind |-> ts[k].kind, text |-> ts[k].text, at |-> Len(Joined(SubSeq(ts, 1, k - 1), gap)) + 1]]

Init ==
  /\ LexInit
  /\ \/ \E ts \in SeqOf(Vocabulary, MaxTokens), gap \in Gaps :
          /\ written = Row(ts, gap) /\ src = Joined(ts, gap)
          /\ LaidOut
     \/ /\ written = <<>>
        /\ src \in {<<"{", "$">> \o w \o <<" ">> \o <<"B", "p", "G", "O">> \o rest :
                      w \in {<<"M", "O", "D", "E">>, <<" ", "m", "o", "d", "e">>, <<"m", "o", "d">>},
                      rest \in {<<"}">>, <<" ", "x", "}", "x">>, <<"x", "}">>, <<>>}}
     \/ written = <<>> /\ src \in SeqOf(Alphabet, MaxChars)

Spec == Init /\ [][Next]_vars
\* The loop of run has no condition but the end of the text.
FairSpec == Spec /\ WF_vars(Next)

---------------------------------------------------------------------------
\* The loop of run ends, whatever the text is and wherever it breaks off: no
\* scan stays where it is, and none goes past the end.
EveryTextEnds == <>Lexed
=============================================================================
