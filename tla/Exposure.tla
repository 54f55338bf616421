------------------------------ MODULE Exposure ------------------------------
(***************************************************************************)
(* The exposure analysis of ppx-core (exposure.rs): from a profile to      *)
(* lanes (process, rule, port, exit) and findings.  build_flows is a       *)
(* double loop, over the process buckets and, for each, over the rules;    *)
(* one step here is one turn of the inner loop.                            *)
(*                                                                         *)
(* A bucket is a name, a port group its label, which is the text of a      *)
(* token of a port list, and an exit an action, where the code has indices *)
(* into vectors of these; a rule is the position of its RuleRef, as in the *)
(* code.  Each lane names the place of its token in the rule's list, so    *)
(* that the lanes are a set here and a token given twice has two.  Names   *)
(* for display and the wording of findings are left out, and so is the     *)
(* order of the columns, which only display uses.                          *)
(***************************************************************************)
EXTENDS Matcher

CONSTANTS
  PortList,  \* the port list of each rule as its texts, trimmed, in order
  Span,      \* the pair of numbers that each text reads as
  Profiles,  \* the profiles to analyse, [rules, proxies, chains]
  Hints      \* SYSTEM_PROCESS_HINTS: processes that are always shown

ASSUME ExposureAssumption ==
  /\ \A p \in Profiles : p.rules \in Seq([rule : Rules, enabled : BOOLEAN])
  /\ \A r \in Rules :
       /\ IsFiniteSet(Body[r].applications)
       /\ PortList[r] \in Seq(DOMAIN Span \ {NoText})
       /\ Body[r].ports = {Span[l] : l \in ToSet(PortList[r])}
  /\ IsFiniteSet(Hints) /\ NoText \notin Hints
  /\ \A a \in Programs : Basename(a) # NoText

VARIABLES
  profile,   \* the one being analysed
  processes, \* its process buckets, in the order of the outer loop
  bucket,    \* the turn of that loop,
  next,      \* the rule the inner loop visits next,
  seen,      \* first_match_seen_for_port, and
  flows      \* the lanes so far

flowsVars == <<profile, processes, bucket, next, seen, flows>>

Unlisted == NoText                     \* the bucket of all other processes
AnyPort  == NoText                     \* the label of "no port constraint"

Direct == [kind |-> "direct", id |-> 0]
Block_ == [kind |-> "block", id |-> 0]

BodyAt(rules, i) == Body[rules[i].rule]
EnabledIn(rules) == {i \in DOMAIN rules : rules[i].enabled}

-----------------------------------------------------------------------------
(* The columns of the graph. *)

(* normalize_app_basename: the program an entry names, if it names one. *)
NamedBy(e) == IF IsGlob(e) THEN {} ELSE {Basename(e)} \ {NoText}

(* build_process_buckets *)
NamesIn(rules) ==
  Hints \cup UNION {NamedBy(e) : e \in UNION {BodyAt(rules, i).applications : i \in DOMAIN rules}}
Buckets(rules) == SetToSeq(NamesIn(rules)) \o <<Unlisted>>

(* build_rule_refs: the enabled rules, and where each of them stands. *)
Position(rules, i) == Rank(EnabledIn(rules), i)
RuleRefs(rules) ==
  [k \in 1 .. Cardinality(EnabledIn(rules)) |->
     CHOOSE i \in EnabledIn(rules) : Position(rules, i) = k]

Labels(r) == IF PortList[r] = <<>> THEN <<AnyPort>> ELSE PortList[r]

(* build_port_groups and build_channels *)
PortGroups(rules) == UNION {ToSet(Labels(rules[i].rule)) : i \in EnabledIn(rules)}
Channels(rules)   == {Direct, Block_} \cup {BodyAt(rules, i).action : i \in EnabledIn(rules)}

(* Mutated form: a glob of programs is for the unlisted ones only. *)
MatchesBucketByName(rule, name) ==
  \/ rule.applications = {}
  \/ \E e \in rule.applications : IF name = Unlisted THEN IsGlob(e) ELSE name \in NamedBy(e)

(* rule_matches_bucket and app_entry_matches_basename *)
MatchesBucket(rule, name) ==
  \/ rule.applications = {}
  \/ \E e \in rule.applications :
       IF name = Unlisted THEN IsGlob(e)
       ELSE name \in NamedBy(e) \/ (IsGlob(e) /\ GlobMatches(e, name))

(* build_proxy_hops, build_chain_descriptors: the proxies a chain wants and *)
(* the profile does not have.                                               *)
Defined(p)         == {p.proxies[i].id : i \in DOMAIN p.proxies}
MissingHops(p, c)  == ToSet(c.members) \ Defined(p)
Encrypted(proxy)   == proxy.type \in {"socks5", "https"}

-----------------------------------------------------------------------------
(* breadth_score, in bits out of 64.  A range of ports counts with the     *)
(* logarithm of its size, rounded down.                                    *)

Log2(n) == Max({k \in 0 .. 16 : 2 ^ k <= n})

(* What the text after the first "/" says, if it is the length of a prefix. *)
PrefixOf(e) ==
  {n \in Numbers \cap 0 .. 32 :
     LET at == SelectInSeq(e, LAMBDA c : c = "/")
     IN at # 0 /\ SubSeq(e, at + 1, Len(e)) = Spelled[n]}

(* Of an entry that ends in `*` the octets before count, once that one star *)
(* and the dots at the end of what is left are gone.                        *)
TargetBits(e) ==
  LET dots == {k \in 1 .. Len(e) - 1 : e[k] = "." /\ \E m \in (k + 1) .. Len(e) - 1 : e[m] # "."}
  IN IF e = <<Star>> THEN 32
     ELSE IF PrefixOf(e) # {} THEN 32 - (CHOOSE n \in PrefixOf(e) : TRUE)
     ELSE IF ~ IsGlob(e) THEN 0
     ELSE IF e[Len(e)] = Star /\ Cardinality(dots) <= 2 THEN 32 - 8 * (Cardinality(dots) + 1)
     ELSE 24

AppBits(e)  == IF e = <<Star>> THEN 16 ELSE IF IsGlob(e) THEN 8 ELSE 0
PortBits(e) == Log2(High(e) - Low(e) + 1)

(* The widest entry of a list counts; an empty list is as wide as can be. *)
Widest(bits, all) == IF bits = {} THEN all ELSE Max(bits)

Breadth(rule) ==
  Widest({TargetBits(e) : e \in rule.targets}, 32)
    + Widest({PortBits(e) : e \in rule.ports}, 16)
    + Widest({AppBits(e) : e \in rule.applications}, 16)

(* The rules that score 0.7 or more, as a set that TLC evaluates once. *)
WideRules == {r : r \in {n \in Rules : Breadth(Body[n]) >= 45}}

-----------------------------------------------------------------------------
(* build_flows *)

FlowsInit ==
  /\ profile \in Profiles
  /\ processes = Buckets(profile.rules)
  /\ bucket = 1 /\ next = 1 /\ seen = {} /\ flows = {}

(* The lanes one rule adds for one bucket, one per token: of those with the *)
(* same label only the first can be bright.                                 *)
LanesOf(rules, i, name) ==
  LET labels == Labels(rules[i].rule)
  IN {[process |-> name, rule |-> Position(rules, i), at |-> k, port |-> labels[k],
       exit |-> BodyAt(rules, i).action,
       first |-> labels[k] \notin seen \cup {labels[m] : m \in 1 .. k - 1}] : k \in DOMAIN labels}

Current == processes[bucket]

Visited(i) ==
  /\ profile.rules[i].enabled
  /\ MatchesBucket(BodyAt(profile.rules, i), Current)
  /\ BodyAt(profile.rules, i).action \in Channels(profile.rules)

VisitRule ==
  /\ next \in DOMAIN profile.rules
  /\ LET new == IF Visited(next) THEN LanesOf(profile.rules, next, Current) ELSE {}
     IN /\ flows' = flows \cup new
        /\ seen' = seen \cup {f.port : f \in new}
  /\ next' = next + 1
  /\ UNCHANGED <<profile, processes, bucket>>

(* Mutated form: what one bucket has seen is kept for the next. *)
NextBucketKeepSeen ==
  /\ next > Len(profile.rules)
  /\ bucket < Len(processes)
  /\ bucket' = bucket + 1 /\ next' = 1
  /\ UNCHANGED <<profile, processes, flows, seen>>

NextBucket ==
  /\ next > Len(profile.rules)
  /\ bucket < Len(processes)
  /\ bucket' = bucket + 1 /\ next' = 1 /\ seen' = {}
  /\ UNCHANGED <<profile, processes, flows>>

FlowsNext == VisitRule \/ NextBucket

FlowsSpec == FlowsInit /\ [][FlowsNext]_flowsVars

Done == next > Len(profile.rules) /\ bucket = Len(processes)

-----------------------------------------------------------------------------
(* build_findings *)

Finding(kind, severity, about) == [kind |-> kind, severity |-> severity, about |-> about]

IsCatchAll(rule) == rule.targets = {} /\ rule.applications = {} /\ rule.ports = {}

(* detect_default_deny: the last enabled catch-all decides. *)
HasDefaultDeny(rules) ==
  LET all == {i \in EnabledIn(rules) : IsCatchAll(BodyAt(rules, i))}
  IN all # {} /\ BodyAt(rules, Max(all)).action = Block_

DirectRules(rules) == {i \in EnabledIn(rules) : BodyAt(rules, i).action = Direct}

(* Mutated form: `*` in the target field is taken for a target. *)
AnyTargetOfEmpty(rule) ==
  rule.targets = {} /\ (rule.applications # {} \/ rule.ports # {})

(* The condition of AnyTargetDirect, which `*` alone does not meet. *)
AnyTarget(rule) ==
  /\ rule.targets = {} \/ <<Star>> \in rule.targets
  /\ rule.applications # {} \/ rule.ports # {}

(* The rule that the first bright lane of the unlisted processes is of. *)
UnlistedGoTo(rules) ==
  LET bright == {f.rule : f \in {g \in flows : g.process = Unlisted /\ g.first}}
  IN IF bright = {} THEN {} ELSE {RuleRefs(rules)[Min(bright)]}

RuleFindings(rules) ==
  (IF HasDefaultDeny(rules) THEN {} ELSE {Finding("missing_default_deny", "high", {})})
  \cup {Finding("blanket_direct", "critical", {i}) :
          i \in {k \in DirectRules(rules) : IsCatchAll(BodyAt(rules, k))}}
  \cup {Finding("any_target_direct", "high", {i}) :
          i \in {k \in DirectRules(rules) : AnyTarget(BodyAt(rules, k))}}
  \cup {Finding("unlisted_reaches_internet", "high", {i}) :
          i \in {k \in UnlistedGoTo(rules) : BodyAt(rules, k).action # Block_}}
  \cup {Finding("wide_breadth_direct", "medium", {i}) :
          i \in {k \in DirectRules(rules) :
                   rules[k].rule \in WideRules /\ ~ IsCatchAll(BodyAt(rules, k))}}
  \cup {Finding("shadowed_rule", "medium", {p.shadowed, p.shadower}) : p \in OvershadowPairs(rules)}
  \cup {Finding("disabled_terminal", "low", {i}) :
          i \in {k \in DOMAIN rules \ EnabledIn(rules) :
                   IsCatchAll(BodyAt(rules, k)) /\ BodyAt(rules, k).action = Block_}}

ExitFindings(p) ==
  {Finding("orphan_proxy", "high", {i}) :
     i \in {k \in EnabledIn(p.rules) : /\ BodyAt(p.rules, k).action.kind = "proxy"
                                       /\ BodyAt(p.rules, k).action.id \notin Defined(p)}}
  \cup {Finding("broken_chain", "high", {p.chains[c].id}) :
          c \in {k \in DOMAIN p.chains : MissingHops(p, p.chains[k]) # {}}}
  \cup {Finding("unencrypted_proxy", "medium", {p.proxies[h].id}) :
          h \in {k \in DOMAIN p.proxies : ~ Encrypted(p.proxies[k])}}

Findings == RuleFindings(profile.rules) \cup ExitFindings(profile)
Reported == {f.kind : f \in Findings}

-----------------------------------------------------------------------------
(* Properties.  They are about the finished graph, and compare it with the *)
(* simulator's answer to every connection (matcher.rs).                    *)

(* Lanes join columns of the graph, one per process, rule and token. *)
FlowsTypeOK ==
  /\ bucket \in DOMAIN processes
  /\ next \in 1 .. (Len(profile.rules) + 1)
  /\ seen = {f.port : f \in {g \in flows : g.process = Current}}
  /\ flows \subseteq [process : ToSet(processes),
                      rule : DOMAIN RuleRefs(profile.rules), at : Nat,
                      port : PortGroups(profile.rules), exit : Channels(profile.rules),
                      first : BOOLEAN]
  /\ \A f, g \in flows :
       f.process = g.process /\ f.rule = g.rule /\ f.at = g.at => f = g

(* The connections both engines read alike: a glob of programs is compared *)
(* with the whole path by the simulator and with the name here, so where a *)
(* rule has one, only programs given by their bare name.                   *)
Connections ==
  {c \in Candidates :
     /\ c.application # NoText /\ c.port # NoPort
     /\ \/ IsBare(c.application)
        \/ \A i \in DOMAIN profile.rules :
             \A e \in BodyAt(profile.rules, i).applications : ~ IsGlob(e)}

BucketOf(c) ==
  LET name == Basename(c.application)
  IN IF name \in ToSet(processes) THEN name ELSE Unlisted

(* The lanes of rule i that stand for a connection. *)
Carrying(i, c) ==
  LET name == BucketOf(c)
  IN {f \in flows : /\ f.process = name /\ RuleRefs(profile.rules)[f.rule] = i
                    /\ f.port = AnyPort \/ PortMatches(Span[f.port], c.port)}

(* No traffic is missing from the graph: whatever rule the simulator says  *)
(* wins a connection has a lane for its process and port, to its exit.     *)
WinnerHasLane ==
  Done => \A c \in Connections : \A i \in Winner(profile.rules, c) :
    \E f \in Carrying(i, c) : f.exit = BodyAt(profile.rules, i).action

(* A dim lane that does carry a connection is dim for a reason: the same   *)
(* port has a bright lane already, of the same rule, which then has the    *)
(* token twice, or of an earlier one that does not apply to every          *)
(* connection of the bucket: it chooses among targets, among programs of   *)
(* one name by their path or, for the unlisted ones, among programs.       *)
DimLanesExplained ==
  Done => \A c \in Connections : \A i \in Winner(profile.rules, c) :
    \A f \in {g \in Carrying(i, c) : ~ g.first} : \E g \in flows :
      /\ g.process = f.process /\ g.port = f.port /\ g.first
      /\ \/ g.rule = f.rule /\ g.at < f.at
         \/ /\ g.rule < f.rule
            /\ LET rule == BodyAt(profile.rules, RuleRefs(profile.rules)[g.rule])
               IN \/ rule.targets # {}
                  \/ \E e \in rule.applications : ~ IsBare(e) \/ f.process = Unlisted

(* The rules that name a host by something other than `*`. *)
Naming ==
  {pair : pair \in {rh \in Rules \X (Hosts \cup {NoText}) :
     \E e \in Body[rh[1]].targets \ {<<Star>>} : TargetMatches(e, rh[2])}}

(* Without a finding about default deny or wide Direct rules every         *)
(* connection meets a rule, and goes out directly only to a host that the  *)
(* rule names by something other than `*`.                                 *)
QuietMeansNamed ==
  Done /\ Reported \cap {"missing_default_deny", "blanket_direct",
                        "any_target_direct", "wide_breadth_direct"} = {} =>
    \A c \in Candidates :
      /\ Winner(profile.rules, c) # {}
      /\ \A i \in Winner(profile.rules, c) :
           BodyAt(profile.rules, i).action = Direct => <<profile.rules[i].rule, c.host>> \in Naming
=============================================================================
