---------------------------- MODULE PolicyRules ----------------------------
(***************************************************************************)
(* The rules of a crawl policy (src/starbelly/policy.py), as a document of *)
(* the database has them: what makes them invalid, and what they decide    *)
(* for a response or a link.  (Their conversion from a protocol buffer is  *)
(* not here: convert_pb_to_doc raises for every policy.)                   *)
(*                                                                         *)
(* A rule is a record in which a missing key is Missing.  A pattern is the *)
(* set of subjects (URLs or MIME types) that it is found in, or Bad when   *)
(* it is blank or no regular expression.                                   *)
(***************************************************************************)
EXTENDS Integers, Sequences

CONSTANTS
  Subjects,  \* URLs or MIME types
  Amounts,   \* amounts in rules for costs, and costs
  Proxies,   \* URLs of proxies, with a known scheme
  MaxRules,  \* bound: rules in a list
  Bad,       \* a value that is not valid
  Missing    \* no value

ASSUME PolicyAssumption ==
  /\ Amounts \subseteq Int /\ MaxRules \in Nat /\ Bad # Missing
  /\ Missing \notin Amounts /\ Missing \notin Proxies /\ Missing \notin STRING

-----------------------------------------------------------------------------
(* Validation: __init__ raises PolicyValidationError otherwise.            *)

(* What the rules before the last have to say, and the last may not.       *)
Selects(rule) == rule.pattern \notin {Missing, Bad} /\ rule.match # Missing
IsDefault(rule) == rule.pattern = Missing /\ rule.match = Missing

(* Mutant of MimeTypeRulesOK: the last rule may be like the others.        *)
MimeTypeRulesAnyLast(given) ==
  /\ given # <<>>
  /\ \A i \in DOMAIN given :
       /\ given[i].save # Missing
       /\ Selects(given[i]) \/ (i = Len(given) /\ IsDefault(given[i]))

MimeTypeRulesOK(given) ==
  /\ given # <<>>
  /\ \A i \in DOMAIN given :
       /\ given[i].save # Missing
       /\ IF i = Len(given) THEN IsDefault(given[i]) ELSE Selects(given[i])

UrlRulesOK(given) ==
  /\ given # <<>>
  /\ \A i \in DOMAIN given :
       /\ given[i].action # Missing /\ given[i].amount # Missing
       /\ IF i = Len(given) THEN IsDefault(given[i]) ELSE Selects(given[i])

(* There may be no rule; the last one need not have a proxy.               *)
ProxyRulesOK(given) ==
  \A i \in DOMAIN given :
    /\ given[i].proxy_url # Bad
    /\ IF i = Len(given) THEN IsDefault(given[i])
       ELSE Selects(given[i]) /\ given[i].proxy_url # Missing

-----------------------------------------------------------------------------
(* Decisions *)

(* A rule without a pattern applies to everything.                         *)
Applies(rule, subject) ==
  \/ rule.pattern = Missing
  \/ (subject \in rule.pattern) = (rule.match # "DOES_NOT_MATCH")

First(hits) == CHOOSE i \in hits : \A j \in hits : i <= j

(* The loops over the rules end at the first that applies.                 *)
ShouldSave(rules, mimeType) ==
  LET hits == {i \in DOMAIN rules : Applies(rules[i], mimeType)}
  IN hits # {} /\ rules[First(hits)].save

(* The default of the proxies counts only if it has one.  (The url is a    *)
(* string here; the downloader passes an object in which no pattern can be *)
(* searched, so that a request fails as soon as a rule has a pattern.)     *)
GetProxyUrl(rules, url) ==
  LET hits == {i \in DOMAIN rules :
                 IF rules[i].pattern = Missing THEN rules[i].proxy_url # Missing
                 ELSE (url \in rules[i].pattern) = (rules[i].match = "MATCHES")}
  IN IF hits = {} THEN Missing ELSE rules[First(hits)].proxy_url

(* A rule adds to the cost of the page that has the link, or multiplies it. *)
Cost(rule, parentCost) ==
  IF rule.action = "ADD" THEN parentCost + rule.amount ELSE parentCost * rule.amount

(* Without any rule that applies it is the last one of the loop.           *)
GetCost(rules, parentCost, url) ==
  LET hits == {i \in DOMAIN rules : Applies(rules[i], url)} \cup {Len(rules)}
  IN Cost(rules[First(hits)], parentCost)

ExceedsMaxCost(maxCost, cost) == maxCost # Missing /\ cost > maxCost

(* _extract drops links that cost nothing or too much.                     *)
IsFollowed(maxCost, cost) == cost > 0 /\ ~ExceedsMaxCost(maxCost, cost)

-----------------------------------------------------------------------------
(* Properties, of all lists of up to MaxRules rules *)

Patterns == {Missing, Bad} \cup SUBSET Subjects
Matches == {Missing, "MATCHES", "DOES_NOT_MATCH"}
ListsOf(Rules) == UNION {[1..n -> Rules] : n \in 0..MaxRules}
MimeTypeLists == ListsOf([pattern : Patterns, match : Matches, save : BOOLEAN \cup {Missing}])
ProxyLists == ListsOf([pattern : Patterns, match : Matches, proxy_url : Proxies \cup {Missing, Bad}])
UrlLists ==
  ListsOf([pattern : Patterns, match : Matches, action : {Missing, "ADD", "MULTIPLY"},
           amount : Amounts \cup {Missing}])

(* What rules say when they are read from the last to the first, each an   *)
(* exception to those behind it.                                           *)
Exception(rule, subject) == (rule.match = "MATCHES") = (subject \in rule.pattern)
Meaning(rules, subject, Says(_)) ==
  LET from[i \in DOMAIN rules] ==
        IF i = Len(rules) \/ Exception(rules[i], subject) THEN i ELSE from[i + 1]
  IN Says(rules[from[1]])

(* The loop over valid rules ends with what they mean.                     *)
RulesDecide(Lists, OK(_), Decision(_, _), Says(_)) ==
  \A given \in {rules \in Lists : OK(rules)} : \A s \in Subjects :
    Decision(given, s) = (IF given = <<>> THEN Missing ELSE Meaning(given, s, Says))

(* Whether a response is saved (PolicyMimeTypeRules.should_save).          *)
SavesAsRuled ==
  RulesDecide(MimeTypeLists, MimeTypeRulesOK,
              ShouldSave, LAMBDA rule : rule.save)

(* The proxy of a request (PolicyProxyRules.get_proxy_url).                *)
ProxiesAsRuled ==
  RulesDecide(ProxyLists, ProxyRulesOK,
              GetProxyUrl, LAMBDA rule : rule.proxy_url)

(* The cost of a link (PolicyUrlRules.get_cost).                           *)
CostsAsRuled ==
  \A c \in Amounts :
    RulesDecide(UrlLists, UrlRulesOK,
                LAMBDA rules, s : GetCost(rules, c, s),
                LAMBDA rule : IF rule.action = "ADD" THEN c + rule.amount ELSE c * rule.amount)

Grows(rule) ==
  \/ rule.action = "ADD" /\ rule.amount >= 1
  \/ rule.action = "MULTIPLY" /\ rule.amount >= 2

(* A maximum cost bounds the depth of a crawl if every rule makes the cost *)
(* grow: of a path of links from a seed, whose cost is 1, fewer are        *)
(* followed than the maximum (exceeds_max_cost, CrawlExtractor._extract).  *)
CostBoundsDepth ==
  \A rules \in {given \in UrlLists : UrlRulesOK(given) /\ \A i \in DOMAIN given : Grows(given[i])} :
    \A maxCost \in {a \in Amounts : a > 0} : \A path \in [1..maxCost -> Subjects] :
      LET cost[n \in 0..maxCost] == IF n = 0 THEN 1 ELSE GetCost(rules, cost[n - 1], path[n])
      IN \E n \in 1..maxCost : ~IsFollowed(maxCost, cost[n])

(* Valid rules decide what they mean, and a maximum cost ends a crawl.     *)
DecidesAsRuled == SavesAsRuled /\ ProxiesAsRuled /\ CostsAsRuled /\ CostBoundsDepth
=============================================================================
