-------------------------- MODULE VariableResolver --------------------------
(***************************************************************************)
(* Variables of a mortar file, fabricks-common/src/mortar/variables.rs.    *)
(* resolve finds the references in its input and replaces them one after   *)
(* the other, each wherever its text occurs in what the earlier ones left. *)
(* A text is a sequence of tokens: a name stands for "${variable.name",    *)
(* then come ":-", "}" and everything else.                                *)
(***************************************************************************)
EXTENDS Naturals, Sequences, SequencesExt, FiniteSetsExt

CONSTANTS
  VariableNames,   \* names of variables
  Other,           \* text that is no part of a reference
  Environments,    \* a name's value, for some of the names
  Texts            \* the inputs

Tokens == VariableNames \cup {Other, ":-", "}"}

ASSUME VariableAssumption ==
  /\ VariableNames \cap {Other, ":-", "}"} = {} /\ Texts \subseteq Seq(Tokens)
  /\ \A env \in Environments : /\ DOMAIN env \subseteq VariableNames
                              /\ \A name \in DOMAIN env : env[name] \in Seq(Tokens)

VARIABLES
  text,        \* the input
  variables,   \* the environment
  matches,     \* the references yet to be replaced
  result,      \* the text so far
  undefined    \* names that have no value

resolverVars == <<text, variables, matches, result, undefined>>

\* Where a reference that starts at i ends, or 0: the name is followed by "}",
\* or by ":-" and a default up to the next "}".
MatchEnd(s, i) ==
  LET ends == {j \in (i + 1)..Len(s) : s[j] = "}"} IN
  IF s[i] \in VariableNames /\ ends # {} /\ (s[i + 1] = ":-" \/ s[i + 1] = "}")
  THEN Min(ends) ELSE 0

\* captures_iter: the references of s, from left to right.
References(s) ==
  LET from[i \in 1..(Len(s) + 1)] ==
        IF i > Len(s) THEN <<>>
        ELSE LET end == MatchEnd(s, i) IN
             IF end = 0 THEN from[i + 1] ELSE <<SubSeq(s, i, end)>> \o from[end + 1]
  IN from[1]

HasDefault(ref) == ref[2] = ":-"
DefaultOf(ref) == SubSeq(ref, 3, Len(ref) - 1)

\* str::replace: every occurrence of old, from left to right.
Replaced(s, old, new) ==
  LET from[i \in 1..(Len(s) + 1)] ==
        IF i > Len(s) THEN <<>>
        ELSE IF IsPrefix(old, SubSeq(s, i, Len(s))) THEN new \o from[i + Len(old)]
        ELSE <<s[i]>> \o from[i + 1]
  IN from[1]

ResolverInit ==
  /\ text \in Texts /\ variables \in Environments
  /\ matches = References(text) /\ result = text /\ undefined = {}

\* mutant: a default goes before the variable
DefaultFirst(ref) == IF HasDefault(ref) THEN DefaultOf(ref) ELSE variables[ref[1]]

\* What a reference stands for, if its variable is defined or it has a default.
ValueOf(ref) == IF ref[1] \in DOMAIN variables THEN variables[ref[1]] ELSE DefaultOf(ref)

Substitute ==
  /\ matches # <<>> /\ matches' = Tail(matches)
  /\ LET ref == Head(matches) IN
     \/ /\ ref[1] \in DOMAIN variables \/ HasDefault(ref)
        /\ result' = Replaced(result, ref, ValueOf(ref)) /\ UNCHANGED undefined
     \/ /\ ref[1] \notin DOMAIN variables /\ ~HasDefault(ref)
        /\ undefined' = undefined \cup {ref[1]} /\ UNCHANGED result
  /\ UNCHANGED <<text, variables>>

ResolverNext == Substitute

ResolverSpec == ResolverInit /\ [][ResolverNext]_resolverVars

-----------------------------------------------------------------------------
(* Properties.                                                              *)

\* The text with each reference replaced where it stands, at once.
Meaning ==
  LET from[i \in 1..(Len(text) + 1)] ==
        IF i > Len(text) THEN <<>>
        ELSE LET end == MatchEnd(text, i)
                 name == text[i] IN
             IF end = 0 THEN <<name>> \o from[i + 1]
             ELSE (IF name \in DOMAIN variables THEN variables[name]
                   ELSE SubSeq(text, i + 2, end - 1)) \o from[end + 1]
  IN from[1]

NoReference(s) == \A i \in DOMAIN s : s[i] \notin VariableNames

\* A reference begins right after the name in another one, as in
\* "${variable.a${variable.b}}", which is no reference to a.
Nested(s) ==
  \E i \in DOMAIN s : i < Len(s) /\ s[i] \in VariableNames /\ s[i + 1] \in VariableNames

\* Replacing one reference after the other in the whole text gives what
\* replacing each where it stands would, however often a variable is used and
\* with which defaults, and fails exactly if one has neither value nor
\* default, as long as no value and no default contains a reference itself
\* and none can be made by replacing another: of "${variable.a${variable.b}}"
\* an empty b leaves a reference to a, which is replaced as well if the text
\* has the same one elsewhere.
ResolvesOnce ==
  (/\ matches = <<>> /\ ~Nested(text)
   /\ \A name \in DOMAIN variables : NoReference(variables[name])
   /\ \A i \in DOMAIN References(text) : NoReference(Tail(References(text)[i]))) =>
    /\ undefined = {name \in VariableNames \ DOMAIN variables :
                      \E i \in DOMAIN References(text) :
                        References(text)[i][1] = name /\ ~HasDefault(References(text)[i])}
    /\ undefined = {} => result = Meaning

=============================================================================
