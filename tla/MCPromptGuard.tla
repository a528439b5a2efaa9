---------------------------- MODULE MCPromptGuard ----------------------------
(* Every text over the words of one check beside a blank request, and a    *)
(* few texts with several windows for both threads.                        *)
EXTENDS PromptGuard, SequencesExt

CONSTANTS h1, h2

IgnoreWords    == {"ignore", "previous", "instructions", "all", "other"}
AuthorityWords == {"you", "now", "are", "change", "developer", "mode", "the"}
RevealWords    == {"reveal", "system", "prompt", "instructions", ""}

MaxWords == 5

AllTexts == UNION {BoundedSeq(s, MaxWords) : s \in {IgnoreWords, AuthorityWords, RevealWords}}

Request(p, t, w) == [path |-> p, text |-> t, windows |-> w]

FewRequests ==
  {Request(p, t, w) : p \in Paths,
     t \in {<<"other">>, <<"other", "other", "reveal", "system", "prompt">>},
     w \in {<<{}>>, <<{}, {"H"}>>, <<{"H"}, {"S"}, {}>>}}
  \cup {Request(p, << >>, w) : p \in Paths, w \in {<< >>, <<{"S"}>>}}

MCArrivals ==
  {(h1 :> Request("classify", t, <<{}>>)) @@ (h2 :> Request("moderate", << >>, << >>)) : t \in AllTexts}
  \cup {(h1 :> a) @@ (h2 :> b) : a, b \in FewRequests}
=============================================================================
