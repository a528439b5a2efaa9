---------------------------- MODULE PhraseChecks ----------------------------
(***************************************************************************)
(* The prompt guard's three heuristic checks on a window of normalized     *)
(* words (_direct_prompt_injections.py).  A word stands for its class: one *)
(* of the candidates a check maps to the same standard word, or one of     *)
(* their scrambled spellings.  "all" and "the" are words some check drops, *)
(* "" is a word without letters, "other" is every other word.              *)
(***************************************************************************)
EXTENDS Naturals, Sequences, FiniteSets

Words == {"ignore", "previous", "instructions", "all",
          "you", "now", "are", "change", "developer", "mode", "the",
          "reveal", "system", "prompt", "other", ""}

-----------------------------------------------------------------------------
(* _standardize_for_...: what a check takes a word for.                    *)

ForIgnore(w)    == IF w = "all" THEN "" ELSE w
ForAuthority(w) == IF w = "the" THEN "" ELSE w
ForReveal(w)    == IF w = "instructions" THEN "prompt" ELSE w

(* The words at the positions S, in their order.                           *)
Position(S, k) == CHOOSE i \in S : Cardinality(S \cap 1..i) = k
Compacted(words, S) == [k \in 1..Cardinality(S) |-> words[Position(S, k)]]

Standardized(words, Standardize(_)) ==
  Compacted([i \in DOMAIN words |-> Standardize(words[i])],
            {i \in DOMAIN words : Standardize(words[i]) # ""})

OccursAt(phrase, words, i) ==
  /\ i + Len(phrase) - 1 <= Len(words)
  /\ \A k \in 1..Len(phrase) : words[i + k - 1] = phrase[k]

PhraseIsInWords(phrase, words) == \E i \in DOMAIN words : OccursAt(phrase, words, i)

(* _replace_phrase_in_words: target becomes one word wherever it occurs.   *)
(* A target's first word is not another one of it, so that occurrences do  *)
(* not overlap and the loop, which goes on behind a replacement, takes all.*)
ReplacePhrase(words, target, word) ==
  LET Occurrences == {i \in DOMAIN words : OccursAt(target, words, i)}
      Replaced == {i \in DOMAIN words : \E o \in Occurrences : o < i /\ i < o + Len(target)}
  IN Compacted([i \in DOMAIN words |-> IF i \in Occurrences THEN word ELSE words[i]],
               DOMAIN words \ Replaced)

-----------------------------------------------------------------------------
(* (The quantifiers over one value make TLC compute it once.)              *)
AttemptToIgnore(words) ==
  \E standard \in {Standardized(words, ForIgnore)} :
     PhraseIsInWords(<<"ignore", "previous", "instructions">>, standard)

AttemptToChangeAuthority(words) ==
  \E once \in {ReplacePhrase(words, <<"you", "are">>, "change")} :
  \E twice \in {ReplacePhrase(once, <<"you", "now", "are">>, "change")} :
  \E standard \in {Standardized(twice, ForAuthority)} :
     /\ \E i \in DOMAIN standard : standard[i] = "change"
     /\ PhraseIsInWords(<<"developer", "mode">>, standard)

(* Mutation: the phrase alone is an attempt.                               *)
AttemptByPhrase(words) ==
  PhraseIsInWords(<<"system", "prompt">>, Standardized(words, ForReveal))

AttemptToReveal(words) ==
  \E standard \in {Standardized(words, ForReveal)} :
     /\ \E i \in DOMAIN standard : standard[i] = "reveal"
     /\ PhraseIsInWords(<<"system", "prompt">>, standard)

Indicators == {"ignore_instructions", "change_authority", "reveal_system_prompt"}

(* _run_checks_on_chunk: a window without words has none.                  *)
Attempts(words) ==
  {c \in Indicators :
     \/ c = "ignore_instructions" /\ AttemptToIgnore(words)
     \/ c = "change_authority" /\ AttemptToChangeAuthority(words)
     \/ c = "reveal_system_prompt" /\ AttemptToReveal(words)}

-----------------------------------------------------------------------------
(* The reference: what the checks look for, said of positions of the text  *)
(* itself.  Nothing is replaced, dropped or moved.                         *)

(* Between positions i and j stand only words the check skips.             *)
Adjoin(words, i, j, Skipped) ==
  i < j /\ \A k \in (i + 1)..(j - 1) : words[k] \in Skipped

SaysIgnore(words, from, to) ==
  \E i, j, k \in from..to :
     /\ words[i] = "ignore" /\ words[j] = "previous" /\ words[k] = "instructions"
     /\ Adjoin(words, i, j, {"all", ""}) /\ Adjoin(words, j, k, {"all", ""})

SaysChange(words, from, to) ==
  \E i \in from..to :
     \/ words[i] = "change"
     \/ i + 1 <= to /\ words[i] = "you" /\ words[i + 1] = "are"
     \/ i + 2 <= to /\ words[i] = "you" /\ words[i + 1] = "now" /\ words[i + 2] = "are"

SaysAuthority(words, from, to) ==
  /\ SaysChange(words, from, to)
  /\ \E i, j \in from..to :
        words[i] = "developer" /\ words[j] = "mode" /\ Adjoin(words, i, j, {"the", ""})

SaysReveal(words, from, to) ==
  /\ \E i \in from..to : words[i] = "reveal"
  /\ \E i, j \in from..to :
        /\ words[i] = "system" /\ words[j] \in {"prompt", "instructions"}
        /\ Adjoin(words, i, j, {""})

(* The words from position from to position to are an attempt.             *)
Says(c, words, from, to) ==
  \/ c = "ignore_instructions" /\ SaysIgnore(words, from, to)
  \/ c = "change_authority" /\ SaysAuthority(words, from, to)
  \/ c = "reveal_system_prompt" /\ SaysReveal(words, from, to)
=============================================================================
