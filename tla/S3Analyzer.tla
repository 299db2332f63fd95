----------------------------- MODULE S3Analyzer -----------------------------
(***************************************************************************)
(* S3Analyzer: what is certain of a name, found along its aliases and kept *)
(* in a memo, and which split of a dotted name into generic and class      *)
(* makes it an S3 method.  Whoever owns an analyzer asks it one question   *)
(* at a time; the memo and the provider of what other packages export live *)
(* as long as the analyzer.                                                *)
(***************************************************************************)
EXTENDS BindingFacts

VARIABLES
  code,     \* the facts, constant
  provider, \* the generics its provider knows
  memo,     \* what is known already
  chain,    \* calls of resolve under way, innermost last: also `visiting`
  answer,   \* what the last call returned
  object,   \* the name under analysis
  split,    \* 0: the name itself is being resolved; t: its try t is
  verdict   \* of the analysis

analyzer == <<code, provider, memo, chain, answer, object, split, verdict>>
inquiry == <<object, split, verdict>>

NoAnswer == "none"
NoName == <<>>

Top == chain[Len(chain)]
Callers == SubSeq(chain, 1, Len(chain) - 1)
Visited == {chain[k] : k \in 1 .. Len(chain) - 1}
Remember(n, r) == memo' = [m \in (DOMAIN memo) \cup {n} |-> IF m = n THEN r ELSE memo[m]]

\* With EmptyS3GenericProvider.
NewAnalyzer ==
  /\ provider = {} /\ memo = <<>> /\ chain = <<>> /\ answer = NoAnswer
  /\ object = NoName /\ split = 0 /\ verdict = "none"

\* S3Analyzer::new, for the next owner of one.
Renew(generics) ==
  /\ provider' = generics /\ memo' = <<>> /\ chain' = <<>> /\ answer' = NoAnswer
  /\ object' = NoName /\ split' = 0 /\ verdict' = "none"
  /\ UNCHANGED code

Idle == chain = <<>> /\ answer = NoAnswer /\ object = NoName

-----------------------------------------------------------------------------
(* resolve *)

Resolve(n) == chain' = <<n>> /\ answer' = NoAnswer /\ UNCHANGED memo

Resolving == chain # <<>> /\ answer = NoAnswer

\* Known already; or asked by a call under way, the guard against cycles.
Recall ==
  /\ Resolving /\ Top \in DOMAIN memo \cup Visited
  /\ answer' = IF Top \in DOMAIN memo THEN memo[Top] ELSE "unknown"
  /\ chain' = Callers
  /\ UNCHANGED <<code, provider, memo, inquiry>>

\* Mutant: an alias is followed to what is assigned after it.
CanFollow_Later(n, m) ==
  \E a, t \in DOMAIN code.facts :
    /\ FactsOf(code, n) = {a} /\ code.facts[a].value = "alias"
    /\ FactsOf(code, code.facts[a].target) = {t} /\ code.facts[t].name = m

\* The sole assignment of n is an alias of m, whose own runs before it.
CanFollow(n, m) ==
  \E a, t \in DOMAIN code.facts :
    FactsOf(code, n) = {a} /\ StandsFor(code, a, t) /\ code.facts[t].name = m

Enter == Resolving /\ Top \notin DOMAIN memo \cup Visited

Follow ==
  /\ Enter
  /\ \E i \in DOMAIN code.facts :
       /\ CanFollow(Top, code.facts[i].target)
       /\ chain' = Append(chain, code.facts[i].target)
  /\ UNCHANGED <<code, provider, memo, answer, inquiry>>

OwnResolution(n) ==
  IF \E i \in DOMAIN code.facts : FactsOf(code, n) = {i}
  THEN OwnMeaning(code, CHOOSE i \in DOMAIN code.facts : FactsOf(code, n) = {i})
  ELSE "unknown"

Conclude ==
  /\ Enter
  /\ ~\E i \in DOMAIN code.facts : CanFollow(Top, code.facts[i].target)
  /\ answer' = OwnResolution(Top) /\ Remember(Top, OwnResolution(Top))
  /\ chain' = Callers
  /\ UNCHANGED <<code, provider, inquiry>>

\* The caller has the answer of its alias, and remembers it as its own.
Settle ==
  /\ chain # <<>> /\ answer # NoAnswer
  /\ Remember(Top, answer) /\ chain' = Callers
  /\ UNCHANGED <<code, provider, answer, inquiry>>

Answered == chain = <<>> /\ answer # NoAnswer

-----------------------------------------------------------------------------
(* analyze and select_split *)

Part(n, from, to) == SubSeq(n, from, to)
Empty == <<"">>
AllEqual == <<"all", "equal">>

\* The splits of a name are tried in this order: first that of all.equal, then
\* those at its dots, that at dot k as try k + 1.
SplitAt(n, t) ==
  LET k == IF t = 1 THEN 2 ELSE t - 1
  IN [generic |-> Part(n, 1, k), class |-> Part(n, k + 1, Len(n))]
Tries(n) ==
  {t \in 1 .. Len(n) :
     /\ t = 1 => Len(n) > 2 /\ Part(n, 1, 2) = AllEqual
     /\ SplitAt(n, t).generic # Empty /\ SplitAt(n, t).class # Empty}
NextTry(n, t) ==
  LET rest == {u \in Tries(n) : u > t}
  IN IF rest = {} THEN Len(n) + 1 ELSE CHOOSE u \in rest : \A v \in rest : u <= v

Analyze(n) ==
  /\ object' = n /\ split' = 0
  /\ IF Len(n) > 1
     THEN Resolve(n) /\ verdict' = "none"
     ELSE verdict' = "export" /\ UNCHANGED <<memo, chain, answer>>
  /\ UNCHANGED <<code, provider>>

Analyzing == object # NoName /\ verdict = "none"

\* What the object itself is.
WeighObject ==
  /\ Analyzing /\ split = 0 /\ Answered
  /\ verdict' = CASE answer = "nonfunction" -> "export"
                  [] answer = "unknown" -> "unresolved"
                  [] OTHER -> "none"
  /\ split' = IF answer \in {"function", "generic"} THEN NextTry(object, 0) ELSE 0
  /\ answer' = NoAnswer
  /\ UNCHANGED <<code, provider, memo, chain, object>>

InLoop == Analyzing /\ split > 0
Candidate == SplitAt(object, split)

\* A binding of the package hides what is installed.
AskLocal ==
  /\ InLoop /\ split <= Len(object) /\ chain = <<>> /\ answer = NoAnswer
  /\ FactsOf(code, Candidate.generic) # {}
  /\ Resolve(Candidate.generic)
  /\ UNCHANGED <<code, provider, inquiry>>

\* Mutant: what is installed counts although the package hides it.
AskInstalled_Hidden ==
  /\ InLoop /\ split <= Len(object) /\ chain = <<>> /\ answer = NoAnswer
  /\ FactsOf(code, Candidate.generic) = {} \/ Candidate.generic \in provider
  /\ IF Candidate.generic \in provider
     THEN verdict' = "method" /\ UNCHANGED split
     ELSE split' = NextTry(object, split) /\ UNCHANGED verdict
  /\ UNCHANGED <<code, provider, memo, chain, answer, object>>

AskInstalled ==
  /\ InLoop /\ split <= Len(object) /\ chain = <<>> /\ answer = NoAnswer
  /\ FactsOf(code, Candidate.generic) = {}
  /\ IF Candidate.generic \in provider
     THEN verdict' = "method" /\ UNCHANGED split
     ELSE split' = NextTry(object, split) /\ UNCHANGED verdict
  /\ UNCHANGED <<code, provider, memo, chain, answer, object>>

WeighGeneric ==
  /\ InLoop /\ Answered
  /\ IF answer = "generic"
     THEN verdict' = "method" /\ UNCHANGED split
     ELSE split' = NextTry(object, split) /\ UNCHANGED verdict
  /\ answer' = NoAnswer
  /\ UNCHANGED <<code, provider, memo, chain, object>>

GiveUp ==
  /\ InLoop /\ split > Len(object) /\ answer = NoAnswer
  /\ verdict' = "unresolved"
  /\ UNCHANGED <<code, provider, memo, chain, answer, object, split>>

AnalyzerStep ==
  \/ Recall \/ Follow \/ Conclude \/ Settle
  \/ WeighObject \/ AskLocal \/ AskInstalled \/ WeighGeneric \/ GiveUp

\* The owner takes the verdict, or the answer to a question of its own.
Dismiss ==
  /\ object' = NoName /\ split' = 0 /\ verdict' = "none" /\ answer' = NoAnswer
  /\ UNCHANGED <<code, provider, memo, chain>>

-----------------------------------------------------------------------------
\* Whatever has been asked before and in whatever order, what the analyzer
\* remembers of a name is what is certain of it (S3Analyzer::resolve).
MemoIsMeaning == \A n \in DOMAIN memo : Means(code, n, memo[n])
=============================================================================
