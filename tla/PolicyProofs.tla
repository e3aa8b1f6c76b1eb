---------------------------- MODULE PolicyProofs ----------------------------
(***************************************************************************)
(* Theorems about the policy engine, for documents of any length and any   *)
(* callers, names, models and caps.                                        *)
(***************************************************************************)
EXTENDS Policy, NatFacts, TLAPS

(* The rules among a document's first n that end up in one compiled list,  *)
(* and what it means for `list` to hold them: each entry stands for one    *)
(* rule, in the document's order, and none is left out.                    *)
Selected(document, action, n) ==
  {i \in 1 .. n : document[i].enabled /\ document[i].action = action}

Follows(list, document, action, n) ==
  \E f \in [1 .. Len(list) -> Selected(document, action, n)] :
    /\ \A j \in 1 .. Len(list) : list[j] = CompileRule(document[f[j]])
    /\ \A j, k \in 1 .. Len(list) : j < k => f[j] < f[k]
    /\ \A i \in Selected(document, action, n) : \E j \in 1 .. Len(list) : f[j] = i

-----------------------------------------------------------------------------
(* Compiling a pattern list changes its form and not what it matches.      *)
LEMMA MatcherMeaning ==
  ASSUME NEW patterns, NEW model
  PROVE  MatcherMatches(CompileMatcher(patterns), model)
           <=> \E p \in patterns : PatternFits(p, model)
BY DEF MatcherMatches, CompileMatcher, PatternFits

(* A compiled rule asks of a request what the rule as written does.        *)
LEMMA RuleMeaning ==
  ASSUME NEW rule \in Rule, NEW r \in Requests, rule.enabled
  PROVE  LET compiled == CompileRule(rule) IN
         /\ AppliesToCaller(compiled, r.caller_key) <=> Concerns(rule, r)
         /\ ModelOk(compiled, r.model) <=> NamesModel(rule, r)
         /\ Fits(compiled, r) <=> NamesModel(rule, r) /\ WithinCaps(rule, r)
<1> DEFINE compiled == CompileRule(rule)
<1>1. r \in Request
  BY PolicyAssumption
<1>2. AppliesToCaller(compiled, r.caller_key) <=> Concerns(rule, r)
  BY DEF AppliesToCaller, CompileRule, Concerns
<1>3. ModelOk(compiled, r.model) <=> NamesModel(rule, r)
  <2>1. CASE rule.allowed_models = None
    BY <2>1 DEF ModelOk, CompileRule, NamesModel
  <2>2. CASE rule.allowed_models # None
    <3>1. rule.allowed_models \in SUBSET Pattern
      BY <2>2 DEF Rule
    <3>2. compiled.model_matcher = CompileMatcher(rule.allowed_models)
      BY <2>2 DEF CompileRule
    <3>3. CompileMatcher(rule.allowed_models) # None
      BY <3>1, MatcherAssumption DEF CompileMatcher, Matcher, Pattern
    <3> QED BY <2>2, <3>2, <3>3, MatcherMeaning DEF ModelOk, NamesModel
  <2> QED BY <2>1, <2>2
<1>4. TokensOk(compiled, r) /\ BytesOk(compiled, r) <=> WithinCaps(rule, r)
  <2>1. /\ compiled.max_tokens = rule.max_tokens
        /\ compiled.max_request_bytes = rule.max_request_bytes
    BY DEF CompileRule
  <2>2. /\ rule.max_tokens \in Nat \cup {None}
        /\ rule.max_request_bytes \in Nat \cup {None}
    BY DEF Rule
  <2>3. r.max_tokens \in Nat \cup {None} /\ r.request_bytes \in Nat
    BY <1>1 DEF Request
  <2> HIDE DEF compiled
  <2> QED BY <2>1, <2>2, <2>3, PolicyAssumption DEF TokensOk, BytesOk, WithinCaps
<1> QED BY <1>2, <1>3, <1>4 DEF Fits

(* Compiling a rule with a name gives a compiled rule.                     *)
LEMMA CompiledType ==
  ASSUME NEW rule \in Rule, rule.name # Blank
  PROVE  CompileRule(rule) \in CompiledRule
BY DEF CompileRule, CompiledRule, CompileMatcher, Matcher, Pattern, Rule

-----------------------------------------------------------------------------
(* Before the first round of compile, an empty list is right.              *)
LEMMA FollowsNothing ==
  ASSUME NEW document, NEW action
  PROVE  Follows(<<>>, document, action, 0)
<1>1. 1 .. Len(<<>>) = {}
  OBVIOUS
<1>2. Selected(document, action, 0) = {}
  BY DEF Selected
<1> DEFINE f == [j \in {} |-> 0]
<1>3. f \in [{} -> {}]
  OBVIOUS
<1> HIDE DEF f
<1> QED BY <1>1, <1>2, <1>3 DEF Follows

(* A rule for the other list, or a disabled one, leaves this list be.      *)
LEMMA FollowsSkipped ==
  ASSUME NEW list, NEW document, NEW action, NEW n \in Nat,
         Follows(list, document, action, n),
         ~(document[n + 1].enabled /\ document[n + 1].action = action)
  PROVE  Follows(list, document, action, n + 1)
<1>1. Selected(document, action, n + 1) = Selected(document, action, n)
  BY DEF Selected
<1> QED BY <1>1 DEF Follows

(* A rule for this list is its new last entry.                             *)
LEMMA FollowsKept ==
  ASSUME NEW list \in Seq(CompiledRule), NEW document, NEW action, NEW n \in Nat,
         CompileRule(document[n + 1]) \in CompiledRule,
         Follows(list, document, action, n),
         document[n + 1].enabled, document[n + 1].action = action
  PROVE  Follows(Append(list, CompileRule(document[n + 1])), document, action, n + 1)
<1> DEFINE new == Append(list, CompileRule(document[n + 1]))
           m == Len(list)
<1>1. PICK f \in [1 .. m -> Selected(document, action, n)] :
        /\ \A j \in 1 .. m : list[j] = CompileRule(document[f[j]])
        /\ \A j, k \in 1 .. m : j < k => f[j] < f[k]
        /\ \A i \in Selected(document, action, n) : \E j \in 1 .. m : f[j] = i
  BY DEF Follows
<1>2. /\ m \in Nat /\ Len(new) = m + 1
      /\ \A j \in 1 .. m : new[j] = list[j]
      /\ new[m + 1] = CompileRule(document[n + 1])
  OBVIOUS
<1>3. Selected(document, action, n + 1) = Selected(document, action, n) \cup {n + 1}
  BY DEF Selected
<1> DEFINE g == [j \in 1 .. m + 1 |-> IF j = m + 1 THEN n + 1 ELSE f[j]]
<1> HIDE DEF new, m
<1>4. \A j \in 1 .. m : f[j] \in Selected(document, action, n) /\ f[j] \in 1 .. n
  BY DEF Selected
<1>5. /\ g[m + 1] = n + 1
      /\ \A j \in 1 .. m : g[j] = f[j]
  BY <1>2
<1>6. g \in [1 .. m + 1 -> Selected(document, action, n + 1)]
  BY <1>2, <1>3, <1>4
<1> HIDE DEF g
<1>7. \A j \in 1 .. m + 1 : j = m + 1 \/ j \in 1 .. m
  BY <1>2
<1>8. \A j \in 1 .. m + 1 : new[j] = CompileRule(document[g[j]])
  BY <1>1, <1>2, <1>5, <1>7
<1>9. \A j, k \in 1 .. m + 1 : j < k => g[j] < g[k]
  <2> SUFFICES ASSUME NEW j \in 1 .. m + 1, NEW k \in 1 .. m + 1, j < k
               PROVE  g[j] < g[k]
    OBVIOUS
  <2>1. j \in 1 .. m
    BY <1>2
  <2>2. CASE k = m + 1
    BY <1>4, <1>5, <2>1, <2>2
  <2>3. CASE k \in 1 .. m
    BY <1>1, <1>5, <2>1, <2>3
  <2> QED BY <1>7, <2>2, <2>3
<1>10. \A i \in Selected(document, action, n + 1) : \E j \in 1 .. m + 1 : g[j] = i
  <2> SUFFICES ASSUME NEW i \in Selected(document, action, n + 1)
               PROVE  \E j \in 1 .. m + 1 : g[j] = i
    OBVIOUS
  <2>1. CASE i = n + 1
    BY <1>2, <1>5, <2>1
  <2>2. CASE i \in Selected(document, action, n)
    <3>1. PICK j \in 1 .. m : f[j] = i
      BY <1>1, <2>2
    <3> QED BY <1>2, <1>5, <3>1
  <2> QED BY <1>3, <2>1, <2>2
<1>11. new = Append(list, CompileRule(document[n + 1]))
  BY DEF new
<1> QED
  <2>1. Len(new) = m + 1
    BY <1>2
  <2>2. Follows(new, document, action, n + 1)
    BY <1>6, <1>8, <1>9, <1>10, <2>1 DEF Follows
  <2> QED BY <1>11, <2>2

(* The entries in T and the rules in S correspond.                         *)
Correspond(list, document, action, T, S) ==
  /\ Follows(list, document, action, Len(document))
  /\ S \subseteq Selected(document, action, Len(document))
  /\ \A k \in 1 .. Len(list), i \in Selected(document, action, Len(document)) :
       list[k] = CompileRule(document[i]) => (k \in T <=> i \in S)

(* The first entry of a list that does something to a request stands for   *)
(* the first rule of the document that does.                               *)
LEMMA FirstMatch ==
  ASSUME NEW list, NEW document, NEW action, NEW T, NEW S,
         Correspond(list, document, action, T, S),
         Len(list) \in Nat, Len(document) \in Nat,
         NEW j \in 1 .. Len(list), j \in T,
         \A k \in 1 .. Len(list) : k < j => k \notin T
  PROVE  NamesFirst(list[j].name, document, S)
<1> DEFINE n == Len(document)
<1>1. PICK f \in [1 .. Len(list) -> Selected(document, action, n)] :
        /\ \A k \in 1 .. Len(list) : list[k] = CompileRule(document[f[k]])
        /\ \A k, l \in 1 .. Len(list) : k < l => f[k] < f[l]
        /\ \A i \in Selected(document, action, n) : \E k \in 1 .. Len(list) : f[k] = i
  BY DEF Follows, Correspond
<1>2. S \subseteq Selected(document, action, n)
  BY DEF Correspond
<1>3. \A k \in 1 .. Len(list) : k \in T <=> f[k] \in S
  BY <1>1 DEF Correspond
<1>4. f[j] \in S /\ list[j].name = document[f[j]].name
  <2>1. list[j] = CompileRule(document[f[j]])
    BY <1>1
  <2>2. CompileRule(document[f[j]]).name = document[f[j]].name
    BY DEF CompileRule
  <2> QED BY <1>3, <2>1, <2>2
<1>5. ASSUME NEW h \in S PROVE f[j] <= h
  <2>1. PICK k \in 1 .. Len(list) : f[k] = h
    BY <1>1, <1>2
  <2>2. k \in T
    BY <1>3, <2>1
  <2>3. ~(k < j)
    BY <2>2
  <2>4. f[j] \in Nat /\ f[k] \in Nat
    BY DEF Selected
  <2>5. j = k \/ j < k
    BY <2>3
  <2> QED BY <1>1, <2>1, <2>4, <2>5
<1> QED BY <1>4, <1>5 DEF NamesFirst

(* If no entry does, no rule does.                                         *)
LEMMA NoMatch ==
  ASSUME NEW list, NEW document, NEW action, NEW T, NEW S,
         Correspond(list, document, action, T, S),
         \A k \in 1 .. Len(list) : k \notin T
  PROVE  S = {}
BY DEF Follows, Correspond

-----------------------------------------------------------------------------
(* The inductive invariant.  What is loaded follows the document, as far   *)
(* as the compiling loop has come.                                         *)
Done == IF stage = "compiling" THEN at - 1 ELSE Len(raw.policy)

LoadInv ==
  /\ stage = "off" => deny = <<>> /\ allow = <<>> /\ at = 1 /\ verdict = None
  /\ stage \in {"compiling"} \cup Loaded =>
       /\ Done \in 0 .. Len(raw.policy)
       /\ Follows(deny, raw.policy, "deny", Done)
       /\ Follows(allow, raw.policy, "allow", Done)
       /\ raw.caller_keys # {}
       /\ \A i \in 1 .. Done : raw.policy[i].enabled => raw.policy[i].name # Blank

(* The entries a loop has passed did not decide the request, and the       *)
(* diagnostics name the allow rules among them that concern it.            *)
DenyMatch(rule, r) == AppliesToCaller(rule, r.caller_key) /\ ModelOk(rule, r.model)
AllowMatch(rule, r) == AppliesToCaller(rule, r.caller_key) /\ Fits(rule, r)

EvalInv ==
  /\ stage = "denying" =>
       /\ errors = <<>>
       /\ \A j \in 1 .. Len(deny) : j < at => ~DenyMatch(deny[j], request)
  /\ stage = "allowing" =>
       /\ \A j \in 1 .. Len(deny) : ~DenyMatch(deny[j], request)
       /\ \A j \in 1 .. Len(allow) : j < at => ~AllowMatch(allow[j], request)
       /\ \A j \in 1 .. Len(allow) :
            j < at /\ AppliesToCaller(allow[j], request.caller_key) =>
              \E k \in DOMAIN errors : errors[k] = allow[j].name
       /\ \A k \in DOMAIN errors : \E j \in 1 .. Len(allow) :
            /\ j < at /\ AppliesToCaller(allow[j], request.caller_key)
            /\ errors[k] = allow[j].name

PolicyInv == TypeOK /\ LoadInv /\ EvalInv /\ VerdictFollowsPolicy /\ DiagnosticsComplete

-----------------------------------------------------------------------------
(* Nothing is loaded at first.                                             *)
LEMMA InitInv == Init => PolicyInv
BY DEF Init, PolicyInv, TypeOK, Stages, Loaded, LoadInv, EvalInv,
       VerdictFollowsPolicy, DiagnosticsComplete

(* The two properties of verdicts speak of nothing else.                   *)
LEMMA SameVerdict ==
  ASSUME verdict' = verdict, VerdictFollowsPolicy, DiagnosticsComplete
  PROVE  VerdictFollowsPolicy' /\ DiagnosticsComplete'
<1>1. VerdictFollowsPolicy'
  BY DEF VerdictFollowsPolicy
<1>2. DiagnosticsComplete'
  BY DEF DiagnosticsComplete
<1> QED BY <1>1, <1>2

(* Before anything is loaded there is nothing to show but types.           *)
LEMMA BootInv ==
  ASSUME PolicyInv, NEW c \in Configs, Boot(c)
  PROVE  PolicyInv'
<1>1. raw' = c /\ c.policy \in Seq(Rule)
  BY PolicyAssumption DEF Boot, Config
<1>2. deny' = <<>> /\ allow' = <<>> /\ at' = 1 /\ verdict' = None
  BY DEF PolicyInv, LoadInv, Boot
<1>3. TypeOK'
  BY <1>1 DEF PolicyInv, TypeOK, Boot, Stages
<1>4. LoadInv'
  <2>1. CASE stage' = "failed"
    BY <2>1 DEF LoadInv, Loaded
  <2>2. CASE stage' = "compiling"
    <3>1. Done' = 0
      BY <1>2, <2>2 DEF Done
    <3>2. c.caller_keys # {}
      BY <2>2 DEF Boot
    <3>3. Len(c.policy) \in Nat
      BY <1>1
    <3> QED BY <1>1, <1>2, <2>2, <3>1, <3>2, <3>3, FollowsNothing DEF LoadInv
  <2> QED BY <2>1, <2>2 DEF Boot
<1>5. EvalInv' /\ VerdictFollowsPolicy' /\ DiagnosticsComplete'
  BY <1>2 DEF Boot, EvalInv, VerdictFollowsPolicy, DiagnosticsComplete
<1> QED BY <1>3, <1>4, <1>5 DEF PolicyInv

(* One round of compile: skip, refuse, or keep.                            *)
LEMMA CompileNextInv ==
  ASSUME PolicyInv, CompileNext
  PROVE  PolicyInv'
<1> DEFINE rule == raw.policy[at]
<1>1. /\ raw \in Configs /\ raw.policy \in Seq(Rule)
      /\ at \in Nat \ {0} /\ at <= Len(raw.policy)
      /\ rule \in Rule
      /\ raw' = raw /\ at' = at + 1
  BY PolicyAssumption DEF PolicyInv, TypeOK, CompileNext, Config
<1>2. /\ Done = at - 1 /\ at - 1 \in Nat /\ (at - 1) + 1 = at
      /\ Follows(deny, raw.policy, "deny", at - 1)
      /\ Follows(allow, raw.policy, "allow", at - 1)
      /\ raw.caller_keys # {}
      /\ \A i \in 1 .. at - 1 : raw.policy[i].enabled => raw.policy[i].name # Blank
  BY <1>1 DEF PolicyInv, LoadInv, CompileNext, Done
<1>3. /\ deny \in Seq(CompiledRule) /\ allow \in Seq(CompiledRule)
      /\ stage \in Stages /\ stage = "compiling"
  BY DEF PolicyInv, TypeOK, CompileNext
<1>4. \/ /\ rule.enabled /\ rule.name = Blank /\ stage' = "failed"
         /\ deny' = deny /\ allow' = allow
      \/ /\ stage' = "compiling"
         /\ rule.enabled => rule.name # Blank
         /\ deny' \in Seq(CompiledRule) /\ allow' \in Seq(CompiledRule)
         /\ Follows(deny', raw.policy, "deny", at)
         /\ Follows(allow', raw.policy, "allow", at)
  <2>1. CASE ~rule.enabled
    <3>1. stage' = stage /\ deny' = deny /\ allow' = allow
      BY <2>1 DEF CompileNext
    <3> QED BY <1>2, <1>3, <2>1, <3>1, FollowsSkipped
  <2>2. CASE rule.enabled /\ rule.name = Blank
    BY <2>2 DEF CompileNext
  <2>3. CASE rule.enabled /\ rule.name # Blank
    <3>1. stage' = stage /\ Keep(rule)
      BY <2>3 DEF CompileNext
    <3>2. CompileRule(rule) \in CompiledRule
      BY <1>1, <2>3, CompiledType
    <3>3. CASE rule.action = "deny"
      <4>1. deny' = Append(deny, CompileRule(rule)) /\ allow' = allow
        BY <3>1, <3>3 DEF Keep
      <4>2. Follows(deny', raw.policy, "deny", at)
        BY <1>2, <1>3, <2>3, <3>2, <3>3, <4>1, FollowsKept
      <4>3. Follows(allow', raw.policy, "allow", at)
        BY <1>2, <3>3, <4>1, FollowsSkipped
      <4> QED BY <1>3, <2>3, <3>1, <3>2, <4>1, <4>2, <4>3
    <3>4. CASE rule.action # "deny"
      <4>1. allow' = Append(allow, CompileRule(rule)) /\ deny' = deny
        BY <3>1, <3>4 DEF Keep
      <4>2. rule.action = "allow"
        BY <1>1, <3>4 DEF Rule
      <4>3. Follows(allow', raw.policy, "allow", at)
        BY <1>2, <1>3, <2>3, <3>2, <4>1, <4>2, FollowsKept
      <4>4. Follows(deny', raw.policy, "deny", at)
        BY <1>2, <3>4, <4>1, FollowsSkipped
      <4> QED BY <1>3, <2>3, <3>1, <3>2, <4>1, <4>3, <4>4
    <3> QED BY <3>3, <3>4
  <2> QED BY <2>1, <2>2, <2>3
<1>5. TypeOK'
  BY <1>1, <1>3, <1>4 DEF PolicyInv, TypeOK, CompileNext, Stages
<1>6. LoadInv'
  <2>1. CASE stage' = "failed"
    BY <2>1 DEF LoadInv, Loaded
  <2>2. CASE stage' = "compiling"
    <3>1. Done' = at
      BY <1>1, <2>2 DEF Done
    <3>2. \A i \in 1 .. at : raw.policy[i].enabled => raw.policy[i].name # Blank
      <4>1. \A i \in 1 .. at : i = at \/ i \in 1 .. at - 1
        BY <1>1
      <4> QED BY <1>2, <1>4, <2>2, <4>1
    <3>3. at \in 0 .. Len(raw.policy)
      BY <1>1
    <3> QED BY <1>1, <1>2, <1>4, <2>2, <3>1, <3>2, <3>3 DEF LoadInv
  <2> QED BY <1>4, <2>1, <2>2
<1>7. EvalInv'
  <2>1. stage' # "denying" /\ stage' # "allowing"
    BY <1>4
  <2> QED BY <2>1 DEF EvalInv
<1>8. VerdictFollowsPolicy' /\ DiagnosticsComplete'
  BY SameVerdict DEF PolicyInv, CompileNext
<1> QED BY <1>5, <1>6, <1>7, <1>8 DEF PolicyInv

(* When compile is through, it has come to the document's end.             *)
LEMMA CompiledInv ==
  ASSUME PolicyInv, Compiled
  PROVE  PolicyInv'
<1>1. /\ raw \in Configs /\ raw.policy \in Seq(Rule) /\ at \in Nat \ {0}
      /\ raw' = raw /\ deny' = deny /\ allow' = allow /\ at' = at
      /\ stage = "compiling" /\ stage' = "serving" /\ ~(at <= Len(raw.policy))
  BY PolicyAssumption DEF PolicyInv, TypeOK, Compiled, Config
<1>2. Done = at - 1 /\ Done' = Len(raw.policy) /\ Len(raw.policy) \in Nat
  BY <1>1 DEF Done
<1>3. at - 1 = Len(raw.policy)
  BY <1>1, <1>2 DEF PolicyInv, LoadInv
<1>4. TypeOK'
  BY <1>1 DEF PolicyInv, TypeOK, Compiled, Stages
<1>5. LoadInv'
  BY <1>1, <1>2, <1>3 DEF PolicyInv, LoadInv, Loaded
<1>6. EvalInv'
  BY <1>1 DEF EvalInv
<1>7. VerdictFollowsPolicy' /\ DiagnosticsComplete'
  BY SameVerdict DEF PolicyInv, Compiled
<1> QED BY <1>4, <1>5, <1>6, <1>7 DEF PolicyInv

(* A new process starts from nothing.                                      *)
LEMMA RestartInv ==
  ASSUME PolicyInv, Restart
  PROVE  PolicyInv'
BY DEF Restart, PolicyInv, TypeOK, Stages, Loaded, LoadInv, EvalInv,
       VerdictFollowsPolicy, DiagnosticsComplete

-----------------------------------------------------------------------------
(* While requests are evaluated, what was loaded stays.                    *)
LEMMA LoadedStays ==
  ASSUME PolicyInv, stage \in Loaded, stage' \in Loaded, UNCHANGED <<raw, deny, allow>>
  PROVE  LoadInv' /\ Done = Len(raw.policy)
<1>1. Done = Len(raw.policy) /\ Done' = Done
  BY DEF Done, Loaded
<1>2. LoadInv'
  BY <1>1 DEF PolicyInv, LoadInv, Loaded
<1> QED BY <1>1, <1>2

(* An evaluation starts before the first deny rule.                        *)
LEMMA EvaluateInv ==
  ASSUME PolicyInv, NEW r \in Requests, Evaluate(r)
  PROVE  PolicyInv'
<1>1. /\ stage = "serving" /\ stage' = "denying" /\ request' = r
      /\ at' = 1 /\ errors' = <<>> /\ verdict' = None
      /\ UNCHANGED <<raw, deny, allow>>
  BY DEF Evaluate
<1>2. TypeOK'
  BY <1>1 DEF PolicyInv, TypeOK, Stages
<1>3. LoadInv'
  BY <1>1, LoadedStays DEF Loaded
<1>4. EvalInv'
  BY <1>1 DEF EvalInv
<1>5. VerdictFollowsPolicy' /\ DiagnosticsComplete'
  BY <1>1 DEF VerdictFollowsPolicy, DiagnosticsComplete
<1> QED BY <1>2, <1>3, <1>4, <1>5 DEF PolicyInv

(* When the deny rules run out, none has matched.                          *)
LEMMA NotDeniedInv ==
  ASSUME PolicyInv, NotDenied
  PROVE  PolicyInv'
<1>1. /\ stage = "denying" /\ stage' = "allowing" /\ at' = 1 /\ ~(at <= Len(deny))
      /\ UNCHANGED <<raw, deny, allow, request, errors, verdict>>
      /\ at \in Nat /\ deny \in Seq(CompiledRule)
  BY DEF NotDenied, PolicyInv, TypeOK
<1>2. TypeOK'
  BY <1>1 DEF PolicyInv, TypeOK, Stages
<1>3. LoadInv'
  BY <1>1, LoadedStays DEF Loaded
<1>4. EvalInv'
  <2>1. Len(deny) \in Nat
    BY <1>1
  <2>2. \A j \in 1 .. Len(deny) : ~DenyMatch(deny[j], request)
    BY <1>1, <2>1 DEF PolicyInv, EvalInv
  <2>3. errors = <<>>
    BY <1>1 DEF PolicyInv, EvalInv
  <2>4. /\ DOMAIN errors = {}
        /\ \A j \in 1 .. Len(allow) : ~(j < 1)
    BY <2>3
  <2>5. \A j \in 1 .. Len(deny) : ~DenyMatch(deny[j], request)'
    BY <1>1, <2>2 DEF DenyMatch
  <2> QED BY <1>1, <2>4, <2>5 DEF EvalInv
<1>5. VerdictFollowsPolicy' /\ DiagnosticsComplete'
  BY <1>1, SameVerdict DEF PolicyInv
<1> QED BY <1>2, <1>3, <1>4, <1>5 DEF PolicyInv

-----------------------------------------------------------------------------
(* What holds in both loops of evaluate.                                   *)
LEMMA LoopFacts ==
  ASSUME PolicyInv, stage \in {"denying", "allowing"}
  PROVE  /\ raw \in Configs /\ raw.policy \in Seq(Rule) /\ Len(raw.policy) \in Nat
         /\ request \in Requests /\ errors \in Seq(Names) /\ at \in Nat \ {0}
         /\ deny \in Seq(CompiledRule) /\ Len(deny) \in Nat
         /\ allow \in Seq(CompiledRule) /\ Len(allow) \in Nat
         /\ Follows(deny, raw.policy, "deny", Len(raw.policy))
         /\ Follows(allow, raw.policy, "allow", Len(raw.policy))
<1>1. /\ raw \in Configs /\ raw.policy \in Seq(Rule)
      /\ request \in Requests /\ errors \in Seq(Names) /\ at \in Nat \ {0}
      /\ deny \in Seq(CompiledRule) /\ allow \in Seq(CompiledRule)
  BY PolicyAssumption DEF PolicyInv, TypeOK, Config
<1>2. Done = Len(raw.policy)
  BY DEF Done
<1>3. /\ Follows(deny, raw.policy, "deny", Len(raw.policy))
      /\ Follows(allow, raw.policy, "allow", Len(raw.policy))
  BY <1>2 DEF PolicyInv, LoadInv, Loaded
<1> QED BY <1>1, <1>3

(* An entry decides a request just when the rule it stands for does.       *)
LEMMA EntryMeaning ==
  ASSUME NEW document \in Seq(Rule), NEW r \in Requests,
         NEW i \in 1 .. Len(document), document[i].enabled
  PROVE  LET entry == CompileRule(document[i]) IN
         /\ entry.name = document[i].name
         /\ AppliesToCaller(entry, r.caller_key) <=> Concerns(document[i], r)
         /\ document[i].action = "deny" =>
              (DenyMatch(entry, r) <=> i \in Forbidding(document, r))
         /\ document[i].action = "allow" =>
              (AllowMatch(entry, r) <=> i \in Permitting(document, r))
<1>1. document[i] \in Rule /\ DOMAIN document = 1 .. Len(document)
  OBVIOUS
<1>2. CompileRule(document[i]).name = document[i].name
  BY DEF CompileRule
<1>3. LET entry == CompileRule(document[i]) IN
        /\ AppliesToCaller(entry, r.caller_key) <=> Concerns(document[i], r)
        /\ ModelOk(entry, r.model) <=> NamesModel(document[i], r)
        /\ Fits(entry, r) <=> NamesModel(document[i], r) /\ WithinCaps(document[i], r)
  BY <1>1, RuleMeaning
<1> DEFINE entry == CompileRule(document[i])
<1> HIDE DEF entry
<1>4. /\ AppliesToCaller(entry, r.caller_key) <=> Concerns(document[i], r)
      /\ ModelOk(entry, r.model) <=> NamesModel(document[i], r)
      /\ Fits(entry, r) <=> NamesModel(document[i], r) /\ WithinCaps(document[i], r)
  BY <1>3 DEF entry
<1>5. document[i].action = "deny" => (DenyMatch(entry, r) <=> i \in Forbidding(document, r))
  BY <1>1, <1>4 DEF DenyMatch, Forbidding, Forbids
<1>6. document[i].action = "allow" => (AllowMatch(entry, r) <=> i \in Permitting(document, r))
  BY <1>1, <1>4 DEF AllowMatch, Permitting, Permits
<1> QED BY <1>2, <1>3, <1>5, <1>6 DEF entry

(* What the two loops know when they decide.                               *)
Denying == {k \in 1 .. Len(deny) : DenyMatch(deny[k], request)}
Allowing == {k \in 1 .. Len(allow) : AllowMatch(allow[k], request)}

(* Entries that match correspond to the rules that forbid, or permit.      *)
LEMMA EntriesCorrespond ==
  ASSUME PolicyInv, stage \in {"denying", "allowing"}
  PROVE  /\ Correspond(deny, raw.policy, "deny", Denying, Forbidding(raw.policy, request))
         /\ Correspond(allow, raw.policy, "allow", Allowing, Permitting(raw.policy, request))
<1> DEFINE document == raw.policy
           n == Len(document)
<1>1. /\ document \in Seq(Rule) /\ DOMAIN document = 1 .. n /\ request \in Requests
      /\ Follows(deny, document, "deny", n) /\ Follows(allow, document, "allow", n)
  BY LoopFacts
<1>2. /\ Forbidding(document, request) \subseteq Selected(document, "deny", n)
      /\ Permitting(document, request) \subseteq Selected(document, "allow", n)
  BY <1>1 DEF Forbidding, Forbids, Permitting, Permits, Concerns, Selected
<1>3. \A k \in 1 .. Len(deny), i \in Selected(document, "deny", n) :
        deny[k] = CompileRule(document[i]) =>
          (k \in Denying <=> i \in Forbidding(document, request))
  BY <1>1, EntryMeaning DEF Selected, Denying
<1>4. \A k \in 1 .. Len(allow), i \in Selected(document, "allow", n) :
        allow[k] = CompileRule(document[i]) =>
          (k \in Allowing <=> i \in Permitting(document, request))
  BY <1>1, EntryMeaning DEF Selected, Allowing
<1> QED BY <1>1, <1>2, <1>3, <1>4 DEF Correspond

(* The deny rule reported is the first that forbids.                       *)
LEMMA DenyFirst ==
  ASSUME PolicyInv, stage = "denying", at <= Len(deny), DenyMatch(deny[at], request)
  PROVE  NamesFirst(deny[at].name, raw.policy, Forbidding(raw.policy, request))
<1>1. /\ Len(raw.policy) \in Nat /\ Len(deny) \in Nat /\ at \in Nat \ {0}
      /\ Correspond(deny, raw.policy, "deny", Denying, Forbidding(raw.policy, request))
  BY LoopFacts, EntriesCorrespond
<1>2. at \in 1 .. Len(deny) /\ at \in Denying
  BY <1>1 DEF Denying
<1>3. \A k \in 1 .. Len(deny) : k < at => k \notin Denying
  BY DEF PolicyInv, EvalInv, Denying
<1> QED BY <1>1, <1>2, <1>3, FirstMatch

(* The allow rule reported is the first that permits.                      *)
LEMMA AllowFirst ==
  ASSUME PolicyInv, stage = "allowing", at <= Len(allow), AllowMatch(allow[at], request)
  PROVE  NamesFirst(allow[at].name, raw.policy, Permitting(raw.policy, request))
<1>1. /\ Len(raw.policy) \in Nat /\ Len(allow) \in Nat /\ at \in Nat \ {0}
      /\ Correspond(allow, raw.policy, "allow", Allowing, Permitting(raw.policy, request))
  BY LoopFacts, EntriesCorrespond
<1>2. at \in 1 .. Len(allow) /\ at \in Allowing
  BY <1>1 DEF Allowing
<1>3. \A k \in 1 .. Len(allow) : k < at => k \notin Allowing
  BY DEF PolicyInv, EvalInv, Allowing
<1> QED BY <1>1, <1>2, <1>3, FirstMatch

(* Past the deny rules, no rule forbids.                                   *)
LEMMA NothingForbids ==
  ASSUME PolicyInv, stage = "allowing"
  PROVE  Forbidding(raw.policy, request) = {}
<1>1. \A k \in 1 .. Len(deny) : k \notin Denying
  BY DEF PolicyInv, EvalInv, Denying
<1> QED BY <1>1, EntriesCorrespond, NoMatch

(* Past the allow rules, no rule permits.                                  *)
LEMMA NothingPermits ==
  ASSUME PolicyInv, stage = "allowing", ~(at <= Len(allow))
  PROVE  Permitting(raw.policy, request) = {}
<1>1. \A k \in 1 .. Len(allow) : k < at
  BY LoopFacts
<1>2. \A k \in 1 .. Len(allow) : k \notin Allowing
  BY <1>1 DEF PolicyInv, EvalInv, Allowing
<1> QED BY <1>2, EntriesCorrespond, NoMatch

-----------------------------------------------------------------------------
(* A decision that is of a document's making keeps the invariant.          *)
LEMMA DecideInv ==
  ASSUME PolicyInv, stage \in {"denying", "allowing"},
         NEW result, NEW by, Decide(result, by),
         result \in {"allowed", "denied", "unmatched"}, by \in Names \cup {None},
         errors' \in Seq(Names),
         result = "denied" =>
           NamesFirst(by, raw.policy, Forbidding(raw.policy, request)),
         result # "denied" => Forbidding(raw.policy, request) = {},
         result = "allowed" =>
           NamesFirst(by, raw.policy, Permitting(raw.policy, request)),
         result = "unmatched" => Permitting(raw.policy, request) = {},
         result = "unmatched" => DiagnosticsComplete'
  PROVE  PolicyInv'
<1>1. /\ stage' = "serving" /\ request' = None /\ UNCHANGED <<raw, deny, allow, at>>
      /\ verdict' = [request |-> request, config_hash |-> raw.policy,
                     result |-> result, by |-> by, skipped |-> errors']
  BY DEF Decide
<1>2. verdict' \in Verdict
  BY <1>1, LoopFacts DEF Verdict
<1>3. TypeOK'
  BY <1>1, <1>2 DEF PolicyInv, TypeOK, Stages
<1>4. LoadInv'
  BY <1>1, LoadedStays DEF Loaded
<1>5. EvalInv'
  BY <1>1 DEF EvalInv
<1>6. /\ verdict'.request = request /\ verdict'.config_hash = raw.policy
      /\ verdict'.result = result /\ verdict'.by = by
  BY <1>1
<1>7. VerdictFollowsPolicy'
  BY <1>6 DEF VerdictFollowsPolicy
<1>8. DiagnosticsComplete'
  BY <1>6 DEF DiagnosticsComplete
<1> QED BY <1>3, <1>4, <1>5, <1>7, <1>8 DEF PolicyInv

(* One round over the deny rules: decide, or go on.                        *)
LEMMA DenyNextInv ==
  ASSUME PolicyInv, DenyNext
  PROVE  PolicyInv'
<1>1. /\ stage = "denying" /\ at <= Len(deny) /\ errors' = errors
      /\ at \in Nat \ {0} /\ deny \in Seq(CompiledRule) /\ Len(deny) \in Nat
      /\ errors \in Seq(Names)
  BY LoopFacts DEF DenyNext
<1>2. CASE DenyMatch(deny[at], request)
  <2>1. Decide("denied", deny[at].name)
    BY <1>2 DEF DenyNext, DenyMatch
  <2>2. deny[at] \in CompiledRule
    BY <1>1
  <2>3. deny[at].name \in Names
    BY <2>2 DEF CompiledRule
  <2> QED BY <1>1, <1>2, <2>1, <2>3, DenyFirst, DecideInv
<1>3. CASE ~DenyMatch(deny[at], request)
  <2>1. /\ at' = at + 1 /\ stage' = "denying"
        /\ UNCHANGED <<raw, deny, allow, request, verdict>>
    BY <1>1, <1>3 DEF DenyNext, DenyMatch
  <2>2. TypeOK'
    BY <1>1, <2>1 DEF PolicyInv, TypeOK
  <2>3. LoadInv'
    BY <1>1, <2>1, LoadedStays DEF Loaded
  <2>4. EvalInv'
    <3>1. \A j \in 1 .. Len(deny) : j < at + 1 => ~DenyMatch(deny[j], request)
      <4>1. \A j \in 1 .. Len(deny) : j < at + 1 => j < at \/ j = at
        BY <1>1
      <4> QED BY <1>1, <1>3, <4>1 DEF PolicyInv, EvalInv
    <3>2. errors = <<>>
      BY <1>1 DEF PolicyInv, EvalInv
    <3>3. \A j \in 1 .. Len(deny) : j < at + 1 => ~DenyMatch(deny[j], request)'
      BY <2>1, <3>1 DEF DenyMatch
    <3> QED BY <1>1, <2>1, <3>2, <3>3 DEF EvalInv
  <2>5. VerdictFollowsPolicy' /\ DiagnosticsComplete'
    BY <2>1, SameVerdict DEF PolicyInv
  <2> QED BY <2>2, <2>3, <2>4, <2>5 DEF PolicyInv
<1> QED BY <1>2, <1>3

(* One round over the allow rules: pass over, skip softly, or decide.      *)
LEMMA AllowNextInv ==
  ASSUME PolicyInv, AllowNext
  PROVE  PolicyInv'
<1>1. /\ stage = "allowing" /\ at <= Len(allow)
      /\ at \in Nat \ {0} /\ allow \in Seq(CompiledRule) /\ Len(allow) \in Nat
      /\ errors \in Seq(Names)
  BY LoopFacts DEF AllowNext
<1>2. allow[at] \in CompiledRule
  BY <1>1
<1>3. allow[at].name \in Names
  BY <1>2 DEF CompiledRule
<1>4. CASE AllowMatch(allow[at], request)
  <2>1. Decide("allowed", allow[at].name) /\ errors' = errors
    BY <1>4 DEF AllowNext, AllowMatch
  <2> QED BY <1>1, <1>3, <1>4, <2>1, AllowFirst, NothingForbids, DecideInv
<1>5. CASE ~AllowMatch(allow[at], request)
  <2> DEFINE new == IF AppliesToCaller(allow[at], request.caller_key)
                    THEN Append(errors, allow[at].name) ELSE errors
  <2>1. /\ at' = at + 1 /\ stage' = stage /\ errors' = new
        /\ UNCHANGED <<raw, deny, allow, request, verdict>>
    BY <1>5 DEF AllowNext, AllowMatch
  <2>2. /\ new \in Seq(Names)
        /\ \A k \in DOMAIN errors : k \in DOMAIN new /\ new[k] = errors[k]
        /\ \A k \in DOMAIN new :
             \/ k \in DOMAIN errors /\ new[k] = errors[k]
             \/ /\ AppliesToCaller(allow[at], request.caller_key)
                /\ new[k] = allow[at].name
        /\ AppliesToCaller(allow[at], request.caller_key) =>
             \E k \in DOMAIN new : new[k] = allow[at].name
    <3>1. CASE AppliesToCaller(allow[at], request.caller_key)
      <4>1. new = Append(errors, allow[at].name)
        BY <3>1
      <4>2. /\ new \in Seq(Names) /\ Len(errors) \in Nat
            /\ DOMAIN errors = 1 .. Len(errors)
            /\ DOMAIN new = 1 .. Len(errors) + 1
            /\ \A k \in 1 .. Len(errors) : new[k] = errors[k]
            /\ new[Len(errors) + 1] = allow[at].name
        BY <1>1, <1>3, <4>1
      <4>3. /\ \A k \in 1 .. Len(errors) : k \in 1 .. Len(errors) + 1
            /\ Len(errors) + 1 \in 1 .. Len(errors) + 1
            /\ \A k \in 1 .. Len(errors) + 1 :
                 k \in 1 .. Len(errors) \/ k = Len(errors) + 1
        BY <4>2
      <4> HIDE DEF new
      <4> QED BY <3>1, <4>2, <4>3
    <3>2. CASE ~AppliesToCaller(allow[at], request.caller_key)
      <4>1. new = errors
        BY <3>2
      <4> HIDE DEF new
      <4> QED BY <1>1, <3>2, <4>1
    <3> QED BY <3>1, <3>2
  <2> HIDE DEF new
  <2>3. TypeOK'
    BY <1>1, <2>1, <2>2 DEF PolicyInv, TypeOK
  <2>4. LoadInv'
    BY <1>1, <2>1, LoadedStays DEF Loaded
  <2>5. EvalInv'
    <3>1. \A j \in 1 .. Len(allow) : j < at + 1 <=> j < at \/ j = at
      BY <1>1
    <3>2. at \in 1 .. Len(allow)
      BY <1>1
    <3>3. \A j \in 1 .. Len(deny) : ~DenyMatch(deny[j], request)
      BY <1>1 DEF PolicyInv, EvalInv
    <3>4. \A j \in 1 .. Len(allow) : j < at + 1 => ~AllowMatch(allow[j], request)
      BY <1>1, <1>5, <3>1 DEF PolicyInv, EvalInv
    <3>5. \A j \in 1 .. Len(allow) :
            j < at + 1 /\ AppliesToCaller(allow[j], request.caller_key) =>
              \E k \in DOMAIN new : new[k] = allow[j].name
      <4> SUFFICES ASSUME NEW j \in 1 .. Len(allow), j < at + 1,
                          AppliesToCaller(allow[j], request.caller_key)
                   PROVE  \E k \in DOMAIN new : new[k] = allow[j].name
        OBVIOUS
      <4>1. CASE j = at
        BY <2>2, <4>1
      <4>2. CASE j < at
        <5>1. PICK k \in DOMAIN errors : errors[k] = allow[j].name
          BY <1>1, <4>2 DEF PolicyInv, EvalInv
        <5> QED BY <2>2, <5>1
      <4> QED BY <3>1, <4>1, <4>2
    <3>6. \A k \in DOMAIN new : \E j \in 1 .. Len(allow) :
            /\ j < at + 1 /\ AppliesToCaller(allow[j], request.caller_key)
            /\ new[k] = allow[j].name
      <4> SUFFICES ASSUME NEW k \in DOMAIN new
                   PROVE  \E j \in 1 .. Len(allow) :
                            /\ j < at + 1 /\ AppliesToCaller(allow[j], request.caller_key)
                            /\ new[k] = allow[j].name
        OBVIOUS
      <4>1. CASE k \in DOMAIN errors /\ new[k] = errors[k]
        <5>1. PICK j \in 1 .. Len(allow) :
                /\ j < at /\ AppliesToCaller(allow[j], request.caller_key)
                /\ errors[k] = allow[j].name
          BY <1>1, <4>1 DEF PolicyInv, EvalInv
        <5> QED BY <3>1, <4>1, <5>1
      <4>2. CASE /\ AppliesToCaller(allow[at], request.caller_key)
                 /\ new[k] = allow[at].name
        BY <3>1, <3>2, <4>2
      <4> QED BY <2>2, <4>1, <4>2
    <3>7. /\ \A j \in 1 .. Len(deny) : ~DenyMatch(deny[j], request)'
          /\ \A j \in 1 .. Len(allow) : j < at + 1 => ~AllowMatch(allow[j], request)'
      BY <2>1, <3>3, <3>4 DEF DenyMatch, AllowMatch
    <3> QED BY <1>1, <2>1, <3>5, <3>6, <3>7 DEF EvalInv
  <2>6. VerdictFollowsPolicy' /\ DiagnosticsComplete'
    BY <2>1, SameVerdict DEF PolicyInv
  <2> QED BY <2>3, <2>4, <2>5, <2>6 DEF PolicyInv
<1> QED BY <1>4, <1>5

(* When the allow rules run out, the diagnostics name those that concern   *)
(* the request.                                                            *)
LEMMA ExhaustedInv ==
  ASSUME PolicyInv, Exhausted
  PROVE  PolicyInv'
<1> DEFINE document == raw.policy
           n == Len(document)
           open == {i \in DOMAIN document :
                      document[i].action = "allow" /\ Concerns(document[i], request)}
<1>1. /\ stage = "allowing" /\ ~(at <= Len(allow)) /\ errors' = errors
      /\ Decide("unmatched", None)
      /\ at \in Nat /\ Len(allow) \in Nat /\ errors \in Seq(Names)
      /\ document \in Seq(Rule) /\ request \in Requests
      /\ Follows(allow, document, "allow", n)
  BY LoopFacts DEF Exhausted
<1>2. open \subseteq Selected(document, "allow", n)
  <2>1. DOMAIN document = 1 .. n
    BY <1>1
  <2> QED BY <2>1 DEF Concerns, Selected
<1>3. PICK f \in [1 .. Len(allow) -> Selected(document, "allow", n)] :
        /\ \A j \in 1 .. Len(allow) : allow[j] = CompileRule(document[f[j]])
        /\ \A i \in Selected(document, "allow", n) : \E j \in 1 .. Len(allow) : f[j] = i
  BY <1>1 DEF Follows
<1>4. \A j \in 1 .. Len(allow) :
        /\ allow[j].name = document[f[j]].name
        /\ AppliesToCaller(allow[j], request.caller_key) <=> f[j] \in open
  <2> SUFFICES ASSUME NEW j \in 1 .. Len(allow)
               PROVE  /\ allow[j].name = document[f[j]].name
                      /\ AppliesToCaller(allow[j], request.caller_key) <=> f[j] \in open
    OBVIOUS
  <2>1. /\ f[j] \in 1 .. n /\ document[f[j]].enabled /\ document[f[j]].action = "allow"
        /\ f[j] \in DOMAIN document
    BY <1>1 DEF Selected
  <2>2. /\ CompileRule(document[f[j]]).name = document[f[j]].name
        /\ AppliesToCaller(CompileRule(document[f[j]]), request.caller_key)
             <=> Concerns(document[f[j]], request)
    BY <1>1, <2>1, EntryMeaning
  <2> QED BY <1>3, <2>1, <2>2
<1>5. \A j \in 1 .. Len(allow) : j < at
  BY <1>1
<1>6. \A i \in open : \E k \in DOMAIN errors : errors[k] = document[i].name
  <2> SUFFICES ASSUME NEW i \in open
               PROVE  \E k \in DOMAIN errors : errors[k] = document[i].name
    OBVIOUS
  <2>1. PICK j \in 1 .. Len(allow) : f[j] = i
    BY <1>2, <1>3
  <2>2. AppliesToCaller(allow[j], request.caller_key) /\ allow[j].name = document[i].name
    BY <1>4, <2>1
  <2>3. \E k \in DOMAIN errors : errors[k] = allow[j].name
    BY <1>1, <1>5, <2>2 DEF PolicyInv, EvalInv
  <2> QED BY <2>2, <2>3
<1>7. \A k \in DOMAIN errors : \E i \in open : errors[k] = document[i].name
  <2> SUFFICES ASSUME NEW k \in DOMAIN errors
               PROVE  \E i \in open : errors[k] = document[i].name
    OBVIOUS
  <2>1. PICK j \in 1 .. Len(allow) :
          AppliesToCaller(allow[j], request.caller_key) /\ errors[k] = allow[j].name
    BY <1>1 DEF PolicyInv, EvalInv
  <2> QED BY <1>4, <2>1
<1>8. /\ verdict'.request = request /\ verdict'.config_hash = document
      /\ verdict'.skipped = errors
  BY <1>1 DEF Decide
<1>9. DiagnosticsComplete'
  <2> HIDE DEF document, n
  <2>1. {errors[i] : i \in DOMAIN errors} = {rule.name : rule \in {document[i] : i \in open}}
    BY <1>6, <1>7
  <2> QED BY <1>8, <2>1 DEF DiagnosticsComplete
<1>10. Forbidding(document, request) = {} /\ Permitting(document, request) = {}
  BY <1>1, NothingForbids, NothingPermits
<1> QED BY <1>1, <1>9, <1>10, DecideInv

-----------------------------------------------------------------------------
(* Every step keeps the invariant.                                         *)
LEMMA NextInv ==
  ASSUME PolicyInv, [Next]_vars
  PROVE  PolicyInv'
<1>1. CASE UNCHANGED vars
  <2>1. TypeOK' /\ LoadInv'
    BY <1>1 DEF vars, PolicyInv, TypeOK, LoadInv, Done
  <2>2. EvalInv'
    BY <1>1 DEF vars, PolicyInv, EvalInv, DenyMatch, AllowMatch
  <2>3. VerdictFollowsPolicy' /\ DiagnosticsComplete'
    BY <1>1, SameVerdict DEF vars, PolicyInv
  <2> QED BY <2>1, <2>2, <2>3 DEF PolicyInv
<1>2. CASE Next
  BY <1>2, BootInv, CompileNextInv, CompiledInv, EvaluateInv, DenyNextInv,
     NotDeniedInv, AllowNextInv, ExhaustedInv, RestartInv DEF Next
<1> QED BY <1>1, <1>2

(* The invariant of the loops of compile and evaluate.                     *)
THEOREM PolicyInvariant == Spec => []PolicyInv
<1>1. PolicyInv /\ [Next]_vars => PolicyInv'
  BY NextInv
<1> QED BY InitInv, <1>1, PTL DEF Spec

(* policy.rs keeps its types; the names it reports are names of rules.     *)
THEOREM TypeCorrect == Spec => []TypeOK
BY PolicyInvariant, PTL DEF PolicyInv

(* For every document, of any length, and every request: evaluate decides  *)
(* what the document means.                                                *)
THEOREM VerdictCorrect == Spec => []VerdictFollowsPolicy
BY PolicyInvariant, PTL DEF PolicyInv

(* A refused caller is told of exactly the allow rules that concern it.    *)
THEOREM DiagnosticsCorrect == Spec => []DiagnosticsComplete
BY PolicyInvariant, PTL DEF PolicyInv

(* A verdict that follows the document respects its caps.                  *)
LEMMA CapsFromVerdict ==
  ASSUME TypeOK, VerdictFollowsPolicy
  PROVE  CapsBind
<1> SUFFICES ASSUME verdict # None, verdict.result = "allowed"
             PROVE  LET r == verdict.request
                        open == {i \in DOMAIN verdict.config_hash :
                                   /\ verdict.config_hash[i].action = "allow"
                                   /\ Concerns(verdict.config_hash[i], r)}
                    IN  (\A i \in open : verdict.config_hash[i].max_tokens # None) =>
                          /\ r.max_tokens # None
                          /\ \E i \in open :
                               r.max_tokens <= verdict.config_hash[i].max_tokens
  BY DEF CapsBind
<1> DEFINE document == verdict.config_hash
           r == verdict.request
           open == {i \in DOMAIN document :
                      document[i].action = "allow" /\ Concerns(document[i], r)}
<1>1. document \in Seq(Rule)
  BY DEF TypeOK, Verdict
<1>2. PICK i \in Permitting(document, r) : TRUE
  BY DEF VerdictFollowsPolicy, NamesFirst
<1>3. i \in open /\ WithinCaps(document[i], r) /\ document[i] \in Rule
  BY <1>1, <1>2 DEF Permitting, Permits
<1>4. ASSUME document[i].max_tokens # None
      PROVE  r.max_tokens # None /\ r.max_tokens <= document[i].max_tokens
  <2>1. document[i].max_tokens \in Nat
    BY <1>3, <1>4 DEF Rule
  <2>2. r.max_tokens \in 0 .. document[i].max_tokens
    BY <1>3, <1>4 DEF WithinCaps
  <2> QED BY <2>1, <2>2, PolicyAssumption
<1> QED BY <1>3, <1>4

(* No request gets past caps by leaving max_tokens out.                    *)
THEOREM CapsCorrect == Spec => []CapsBind
<1>1. PolicyInv => CapsBind
  BY CapsFromVerdict DEF PolicyInv
<1> QED BY <1>1, PolicyInvariant, PTL

(* A gateway that serves has loaded all of its document.                   *)
LEMMA LoadedIsValid ==
  ASSUME PolicyInv
  PROVE  ServesOnlyValid
<1> SUFFICES ASSUME stage \in Loaded PROVE ServesOnlyValid
  BY DEF ServesOnlyValid
<1> DEFINE n == Len(raw.policy)
<1>1. Done = n
  BY DEF Done, Loaded
<1>2. raw.policy \in Seq(Rule) /\ DOMAIN raw.policy = 1 .. n
  BY PolicyAssumption DEF PolicyInv, TypeOK, Config, Loaded
<1>3. /\ raw.caller_keys # {}
      /\ \A i \in 1 .. n : raw.policy[i].enabled => raw.policy[i].name # Blank
      /\ Follows(deny, raw.policy, "deny", n) /\ Follows(allow, raw.policy, "allow", n)
  BY <1>1 DEF PolicyInv, LoadInv
<1>4. ASSUME NEW i \in 1 .. n, raw.policy[i].enabled
      PROVE  LET compiled == IF raw.policy[i].action = "deny" THEN deny ELSE allow
             IN  \E j \in 1 .. Len(compiled) : compiled[j] = CompileRule(raw.policy[i])
  <2>1. CASE raw.policy[i].action = "deny"
    <3>1. i \in Selected(raw.policy, "deny", n)
      BY <1>4, <2>1 DEF Selected
    <3> QED BY <1>3, <2>1, <3>1 DEF Follows
  <2>2. CASE raw.policy[i].action # "deny"
    <3>1. raw.policy[i].action = "allow"
      <4>1. raw.policy[i] \in Rule
        BY <1>2
      <4> QED BY <2>2, <4>1 DEF Rule
    <3>2. i \in Selected(raw.policy, "allow", n)
      BY <1>4, <3>1 DEF Selected
    <3> QED BY <1>3, <2>2, <3>2 DEF Follows
  <2> QED BY <2>1, <2>2
<1>5. DOMAIN deny = 1 .. Len(deny) /\ DOMAIN allow = 1 .. Len(allow)
  BY DEF PolicyInv, TypeOK
<1> QED BY <1>2, <1>3, <1>4, <1>5 DEF ServesOnlyValid

(* No gateway serves a part of its document, or one with a bad rule.       *)
THEOREM LoadingCorrect == Spec => []ServesOnlyValid
<1>1. PolicyInv => ServesOnlyValid
  BY LoadedIsValid
<1> QED BY <1>1, PolicyInvariant, PTL
=============================================================================
