----------------------------- MODULE ProfileXml -----------------------------
(***************************************************************************)
(* The .ppx file format of ppx-core: what serializer.rs writes for a       *)
(* profile and the pull parser of parser.rs, one step per event it reads.  *)
(* The parser's call stack is the variable stack: a frame is a call of     *)
(* parse_rule, read_text, skip_to_end and so on with the value built so    *)
(* far.  A saved profile may be changed in the file before it is read; one *)
(* that was read is saved and read once more.                              *)
(*                                                                         *)
(* Events are quick-xml's.  A text is a sequence of tokens: a character,   *)
(* or the name of an entity, or the spelling of a number or of a Boolean.  *)
(* Indentation, the declaration, product_id and product_minver (treated    *)
(* as platform is) are left out; an optional field is a set with at most   *)
(* one element.                                                            *)
(***************************************************************************)
EXTENDS Integers, SequencesExt, FiniteSetsExt

CONSTANTS
  Saves,    \* the profiles that are saved
  Files,    \* files written by hand, as sequences of events
  Damages,  \* what may happen to a saved file: see Damaged
  Numerals  \* the numbers in use

VARIABLES
  source,   \* the profiles the file was saved from: one, or none
  damage,   \* what happened to it since
  doc,      \* the file,
  at,       \* the next event of it,
  stack,    \* the parser's calls, the innermost first
  result,   \* the profile read: one, or none
  phase     \* "reading", "done" or "failed"

vars == <<source, damage, doc, at, stack, result, phase>>

-----------------------------------------------------------------------------
(* Texts. *)

Spelled(n) == <<ToString(n)>>
BoolStr(b) == IF b THEN <<"true">> ELSE <<"false">>

(* Entity references, and those the serializer writes. *)
Refs    == [amp |-> "&", lt |-> "<", x26 |-> "&"]
Written == ("&" :> "amp") @@ ("<" :> "lt")

Reference(c) == <<"&", Written[c], ";">>

(* escape *)
Escape(t) ==
  FlattenSeq([k \in DOMAIN t |-> IF t[k] \in DOMAIN Written THEN Reference(t[k]) ELSE <<t[k]>>])

(* looks_like_entity_ref *)
IsRef(t, k) == k + 2 <= Len(t) /\ t[k + 1] \in DOMAIN Refs /\ t[k + 2] = ";"

(* Mutated form: every ampersand is taken for a bare one. *)
EscapeBareAll(t) ==
  FlattenSeq([k \in DOMAIN t |-> IF t[k] = "&" THEN Reference("&") ELSE <<t[k]>>])

(* escape_bare_ampersands *)
EscapeBare(t) ==
  FlattenSeq([k \in DOMAIN t |->
    IF t[k] = "&" /\ ~ IsRef(t, k) THEN Reference("&") ELSE <<t[k]>>])

(* quick-xml's unescape, of a text in which every & begins a reference. *)
Unescape(t) ==
  FlattenSeq([k \in DOMAIN t |->
    IF t[k] = "&" THEN <<Refs[t[k + 1]]>>
    ELSE IF \E j \in {k - 1, k - 2} \cap DOMAIN t : t[j] = "&" THEN <<>> ELSE <<t[k]>>])

Read(raw) == Unescape(EscapeBare(raw))

Trim(t) ==
  LET solid == {k \in DOMAIN t : t[k] # " "}
  IN IF solid = {} THEN <<>> ELSE SubSeq(t, Min(solid), Max(solid))

(* join_list and split_list *)
JoinList(items) ==
  FlattenSeq([i \in DOMAIN items |-> IF i = 1 THEN items[i] ELSE <<";", " ">> \o items[i]])

(* Mutated form: the blanks after a separator stay. *)
SplitListLoose(t) ==
  LET cuts == SetToSortSeq({0, Len(t) + 1} \cup {k \in DOMAIN t : t[k] = ";"}, <)
  IN SelectSeq([i \in 1 .. Len(cuts) - 1 |-> SubSeq(t, cuts[i] + 1, cuts[i + 1] - 1)],
               LAMBDA s : s # <<>>)

SplitList(t) ==
  LET cuts == SetToSortSeq({0, Len(t) + 1} \cup {k \in DOMAIN t : t[k] = ";"}, <)
  IN SelectSeq([i \in 1 .. Len(cuts) - 1 |-> Trim(SubSeq(t, cuts[i] + 1, cuts[i + 1] - 1))],
               LAMBDA s : s # <<>>)

NumberIn(t) == {n \in Numerals : Spelled(n) = Trim(t)}

-----------------------------------------------------------------------------
(* The model (model.rs) and its defaults. *)

OptionFlags  == {"LeakPreventionMode", "ProcessOtherUsers", "ProcessServices",
                 "HandleDirectConnections", "HttpProxiesSupport"}
ResolveFlags == {"AutoModeDetection", "ViaProxy", "BlockNonATypes"}
ProxyTypes   == {<<"HTTP">>, <<"HTTPS">>, <<"SOCKS4">>, <<"SOCKS5">>}

DefaultResolve ==
  [flags |-> [f \in ResolveFlags |-> f # "ViaProxy"],
   only_from_list_mode |-> FALSE,
   exclusion_list |-> <<"%ComputerName%; localhost; *.local">>, dns_udp_mode |-> 0]

DefaultOptions ==
  [resolve |-> DefaultResolve, encryption |-> {},
   connection_loop_detection |-> [enabled |-> FALSE, resolve |-> FALSE],
   udp_mode |-> <<>>, flags |-> [f \in OptionFlags |-> FALSE]]

EmptyProfile ==
  [version |-> 1, platform |-> <<"Windows">>, options |-> DefaultOptions,
   proxies |-> <<>>, chains |-> <<>>, rules |-> <<>>]

-----------------------------------------------------------------------------
(* The serializer. *)

NoAttrs == <<>>
Event(kind, name, attrs, text) == [kind |-> kind, name |-> name, attrs |-> attrs, text |-> text]
Start(name, attrs) == Event("start", name, attrs, <<>>)
Empty(name, attrs) == Event("empty", name, attrs, <<>>)
End(name)          == Event("end", name, NoAttrs, <<>>)
Text(raw)          == Event("text", "", NoAttrs, raw)

Element(name, attrs, inner) == <<Start(name, attrs)>> \o inner \o <<End(name)>>
TextElement(name, attrs, t) ==
  Element(name, attrs, IF t = <<>> THEN <<>> ELSE <<Text(Escape(t))>>)

(* What is written for an optional text, for a list of texts if it is not  *)
(* empty, and for a list of elements.                                      *)
Optional(name, s) == IF s = {} THEN <<>> ELSE TextElement(name, NoAttrs, CHOOSE t \in s : TRUE)
Joined(name, s)   == IF s = <<>> THEN <<>> ELSE TextElement(name, NoAttrs, JoinList(s))
Listed(name, s)   == IF s = <<>> THEN <<Empty(name, NoAttrs)>> ELSE Element(name, NoAttrs, s)

WriteFlags(flags) ==
  FlattenSeq(SetToSeq({<<Empty(f, [enabled |-> BoolStr(flags[f])])>> : f \in DOMAIN flags}))

WriteResolve(r) ==
  LET mode == [OnlyFromListMode |-> BoolStr(r.only_from_list_mode)]
  IN Element("Resolve", NoAttrs,
       WriteFlags(r.flags)
       \o (IF r.exclusion_list = <<>> THEN <<Empty("ExclusionList", mode)>>
           ELSE TextElement("ExclusionList", mode, r.exclusion_list))
       \o TextElement("DnsUdpMode", NoAttrs, Spelled(r.dns_udp_mode)))

WriteEncryption(e) ==
  LET mode == [mode |-> Escape(e.mode)]
  IN IF e.hash = {} THEN <<Empty("Encryption", mode)>>
     ELSE Element("Encryption", mode, Optional("Hash", e.hash))

WriteOptions(o) ==
  LET loop == o.connection_loop_detection
  IN Element("Options", NoAttrs,
       WriteResolve(o.resolve)
       \o FlattenSeq(SetToSeq({WriteEncryption(e) : e \in o.encryption}))
       \o <<Empty("ConnectionLoopDetection",
                  [enabled |-> BoolStr(loop.enabled), resolve |-> BoolStr(loop.resolve)]),
            Empty("Udp", [mode |-> Escape(o.udp_mode)])>>
       \o WriteFlags(o.flags))

WriteAuthentication(a) ==
  Element("Authentication", NoAttrs,
          Optional("Username", a.username) \o Optional("Password", a.password))

WriteProxy(p) ==
  Element("Proxy", [id |-> Spelled(p.id), type |-> p.proxy_type],
    Optional("Options", {Spelled(n) : n \in p.options})
    \o TextElement("Port", NoAttrs, Spelled(p.port))
    \o TextElement("Address", NoAttrs, p.address)
    \o Optional("Label", p.label)
    \o FlattenSeq(SetToSeq({WriteAuthentication(a) : a \in p.authentication})))

WriteChain(c) ==
  Element("Chain", [id |-> Spelled(c.id)],
    Optional("Name", c.name)
    \o [i \in DOMAIN c.members |-> Empty("Proxy", [id |-> Spelled(c.members[i])])])

WriteAction(a) ==
  Empty("Action", CASE a.kind = "Proxy" -> [type |-> <<a.kind>>, proxy |-> Spelled(a.id)]
                    [] a.kind = "Chain" -> [type |-> <<a.kind>>, chain |-> Spelled(a.id)]
                    [] OTHER -> [type |-> <<a.kind>>])

WriteRule(r) ==
  Element("Rule", [enabled |-> BoolStr(r.enabled)],
    <<WriteAction(r.action)>>
    \o Joined("Ports", r.ports) \o Joined("Targets", r.targets)
    \o Joined("Applications", r.applications) \o TextElement("Name", NoAttrs, r.name))

(* serialize *)
Saved(p) ==
  Element("ProxifierProfile", [version |-> Spelled(p.version), platform |-> Escape(p.platform)],
    WriteOptions(p.options)
    \o Listed("ProxyList", FlattenSeq([i \in DOMAIN p.proxies |-> WriteProxy(p.proxies[i])]))
    \o Listed("ChainList", FlattenSeq([i \in DOMAIN p.chains |-> WriteChain(p.chains[i])]))
    \o Listed("RuleList", FlattenSeq([i \in DOMAIN p.rules |-> WriteRule(p.rules[i])])))

-----------------------------------------------------------------------------
(* Reading: the parser's calls.                                            *)

Eof == Event("eof", "", NoAttrs, <<>>)
ev  == IF at \in DOMAIN doc THEN doc[at] ELSE Eof

(* attr_string, attr_u32 and attr_bool: none or one; Flag: with a default. *)
AttrString(name) == IF name \in DOMAIN ev.attrs THEN {Read(ev.attrs[name])} ELSE {}
AttrU32(name)    == UNION {NumberIn(t) : t \in AttrString(name)}
Flag(name, default) ==
  IF AttrString(name) = {} THEN default ELSE AttrString(name) \subseteq {<<"true">>, <<"1">>}
StringOr(name, default) ==
  IF AttrString(name) = {} THEN default ELSE CHOOSE t \in AttrString(name) : TRUE

(* An attribute that is read as a number or a Boolean and does not parse. *)
Numeric == {"version", "id", "proxy", "chain"}
Boolean_ == {"enabled", "resolve", "OnlyFromListMode"}
Garbled ==
  \/ \E a \in Numeric \cap DOMAIN ev.attrs : AttrU32(a) = {}
  \/ \E a \in Boolean_ \cap DOMAIN ev.attrs :
       ~ (AttrString(a) \subseteq {<<"true">>, <<"1">>, <<"false">>, <<"0">>})

Frame(call, name, value) == [call |-> call, name |-> name, value |-> value, depth |-> 1]

Top      == Head(stack).value
Goes     == at' = at + 1 /\ UNCHANGED <<source, damage, doc>>
Keeps    == Goes /\ UNCHANGED <<stack, result, phase>>
Fails    == phase' = "failed" /\ stack' = <<>> /\ UNCHANGED <<source, damage, doc, at, result>>
Sets(v)  == /\ Goes /\ UNCHANGED <<result, phase>>
            /\ stack' = <<[Head(stack) EXCEPT !.value = v]>> \o Tail(stack)
Calls(f) == Goes /\ stack' = <<f>> \o stack /\ UNCHANGED <<result, phase>>

(* A call returns: its value goes where the caller puts it. *)
Returns(put) ==
  /\ Goes /\ UNCHANGED <<result, phase>>
  /\ stack' = <<[stack[2] EXCEPT !.value = put]>> \o Tail(Tail(stack))

Over             == stack # <<>> /\ Head(stack).call \in {"text", "skip"}
Inside(name)     == /\ phase = "reading" /\ stack # <<>> /\ Head(stack).call = name
                    /\ ~ Over => ~ Garbled
Opens(names)     == ev.kind = "start" /\ ev.name \in names
IsEmptyOf(names) == ev.kind = "empty" /\ ev.name \in names
Closes(name)     == ev.kind = "end" /\ ev.name = name

ReadsText(names) == Opens(names) /\ Calls(Frame("text", ev.name, <<>>))

(* The arms that read on: an unknown element is skipped with what is in it,*)
(* an unknown empty one, a text or a comment is passed over.               *)
Skips(known) == /\ ev.kind = "start" /\ ev.name \notin known
                /\ Calls(Frame("skip", ev.name, <<>>))
Passes(name, empties) ==
  /\ \/ ev.kind = "text"
     \/ ev.kind = "empty" /\ ev.name \notin empties
     \/ ev.kind = "end" /\ ev.name # name
  /\ Keeps

(* attr_u32 and attr_bool fail wherever the element is looked at. *)
RefusesGarbled == phase = "reading" /\ ~ Over /\ Garbled /\ Fails


(* The Eof arms of all loops, and parse_sanitized's. *)
EndOfFile == phase = "reading" /\ ev = Eof /\ Fails

(* profile_from_root *)
FromRoot ==
  [EmptyProfile EXCEPT
    !.version = IF AttrU32("version") = {} THEN @ ELSE CHOOSE n \in AttrU32("version") : TRUE,
    !.platform = StringOr("platform", @)]

(* parse_sanitized: everything before the root is passed over. *)
FindRoot ==
  /\ phase = "reading" /\ stack = <<>> /\ ev # Eof /\ ~ Garbled
  /\ IF Opens({"ProxifierProfile"}) THEN Calls(Frame("ProxifierProfile", "", FromRoot))
     ELSE IF IsEmptyOf({"ProxifierProfile"})
       THEN Goes /\ phase' = "done" /\ result' = {FromRoot} /\ UNCHANGED stack
     ELSE Keeps

Sections == [Options |-> "options", ProxyList |-> "proxies",
             ChainList |-> "chains", RuleList |-> "rules"]
Fresh(name) == IF name = "Options" THEN DefaultOptions ELSE <<>>

ParseProfile ==
  /\ Inside("ProxifierProfile")
  /\ \/ Opens(DOMAIN Sections) /\ Calls(Frame(ev.name, ev.name, Fresh(ev.name)))
     \/ ev.kind = "start" /\ ev.name \notin DOMAIN Sections /\ Fails
     \/ IsEmptyOf(DOMAIN Sections) /\ Sets([Top EXCEPT ![Sections[ev.name]] = Fresh(ev.name)])
     \/ Closes("ProxifierProfile") /\ Goes /\ phase' = "done" /\ result' = {Top} /\ stack' = <<>>
     \/ Passes("ProxifierProfile", DOMAIN Sections)

(* The value of a section, in the profile that is being built. *)
Section(name) == [stack[2].value EXCEPT ![Sections[name]] = Top]

ParseOptions ==
  LET empties == OptionFlags \cup {"ConnectionLoopDetection", "Udp", "Encryption"}
      encryption == [mode |-> StringOr("mode", <<>>), hash |-> {}]
  IN /\ Inside("Options")
     /\ \/ Opens({"Resolve"}) /\ Calls(Frame("Resolve", "", DefaultResolve))
        \/ Opens({"Encryption"}) /\ Calls(Frame("Encryption", "", encryption))
        \/ Skips({"Resolve", "Encryption"})
        \/ IsEmptyOf(OptionFlags) /\ Sets([Top EXCEPT !.flags[ev.name] = Flag("enabled", FALSE)])
        \/ IsEmptyOf({"ConnectionLoopDetection"}) /\ Sets([Top EXCEPT !.connection_loop_detection =
             [enabled |-> Flag("enabled", FALSE), resolve |-> Flag("resolve", FALSE)]])
        \/ IsEmptyOf({"Udp"}) /\ Sets([Top EXCEPT !.udp_mode = StringOr("mode", <<"mode_block_all">>)])
        \/ IsEmptyOf({"Encryption"}) /\ Sets([Top EXCEPT !.encryption = {encryption}])
        \/ Closes("Options") /\ Returns(Section("Options"))
        \/ Passes("Options", empties)

ParseResolve ==
  LET listed == [Top EXCEPT !.only_from_list_mode = Flag("OnlyFromListMode", FALSE),
                            !.exclusion_list = <<>>]
  IN /\ Inside("Resolve")
     /\ \/ ReadsText({"DnsUdpMode"})
        \/ /\ Opens({"ExclusionList"}) /\ Goes /\ UNCHANGED <<result, phase>>
           /\ stack' = <<Frame("text", ev.name, <<>>), [Head(stack) EXCEPT !.value = listed]>>
                         \o Tail(stack)
        \/ Skips({"DnsUdpMode", "ExclusionList"})
        \/ IsEmptyOf(ResolveFlags) /\ Sets([Top EXCEPT !.flags[ev.name] = Flag("enabled", FALSE)])
        \/ IsEmptyOf({"ExclusionList"}) /\ Sets(listed)
        \/ Closes("Resolve") /\ Returns([stack[2].value EXCEPT !.resolve = Top])
        \/ Passes("Resolve", ResolveFlags \cup {"ExclusionList"})

ParseEncryption ==
  /\ Inside("Encryption")
  /\ \/ ReadsText({"Hash"})
     \/ ev.kind = "start" /\ ev.name # "Hash" /\ Keeps
     \/ Closes("Encryption") /\ Returns([stack[2].value EXCEPT !.encryption = {Top}])
     \/ Passes("Encryption", {})

(* parse_proxy_list, parse_chain_list, parse_rule_list: a loop over the    *)
(* elements of one name, to which any other element is transparent.        *)
ParseList(list, item, valid, value) ==
  /\ Inside(list)
  /\ \/ Opens({item}) /\ IF valid THEN Calls(Frame(item, "", value)) ELSE Fails
     \/ ev.kind = "start" /\ ev.name # item /\ Keeps
     \/ Closes(list) /\ Returns(Section(list))
     \/ Passes(list, {})

ParseProxyList ==
  ParseList("ProxyList", "Proxy",
    AttrU32("id") # {} /\ AttrString("type") # {} /\ AttrString("type") \subseteq ProxyTypes,
    [id |-> CHOOSE n \in AttrU32("id") : TRUE, proxy_type |-> StringOr("type", <<>>),
     address |-> <<>>, port |-> 0, options |-> {}, label |-> {}, authentication |-> {}])

ParseChainList ==
  ParseList("ChainList", "Chain", AttrU32("id") # {},
    [id |-> CHOOSE n \in AttrU32("id") : TRUE, name |-> {}, members |-> <<>>])

ParseRuleList ==
  ParseList("RuleList", "Rule", TRUE,
    [enabled |-> Flag("enabled", TRUE), name |-> <<>>, action |-> {},
     targets |-> <<>>, applications |-> <<>>, ports |-> <<>>])

ParseProxy ==
  LET texts == {"Address", "Port", "Options", "Label"}
  IN /\ Inside("Proxy")
     /\ \/ ReadsText(texts)
        \/ Opens({"Authentication"})
             /\ Calls(Frame("Authentication", "", [username |-> {}, password |-> {}]))
        \/ Skips(texts \cup {"Authentication"})
        \/ Closes("Proxy") /\ Returns(Append(stack[2].value, Top))
        \/ Passes("Proxy", {})

ParseAuthentication ==
  /\ Inside("Authentication")
  /\ \/ ReadsText({"Username", "Password"})
     \/ Skips({"Username", "Password"})
     \/ Closes("Authentication") /\ Returns([stack[2].value EXCEPT !.authentication = {Top}])
     \/ Passes("Authentication", {})

(* A member without an id is passed over. *)
ParseChain ==
  LET joined == [Top EXCEPT !.members = @ \o SetToSeq(AttrU32("id"))]
  IN /\ Inside("Chain")
     /\ \/ ReadsText({"Name"})
        \/ /\ Opens({"Proxy"}) /\ Goes /\ UNCHANGED <<result, phase>>
           /\ stack' = <<Frame("skip", ev.name, <<>>), [Head(stack) EXCEPT !.value = joined]>>
                         \o Tail(stack)
        \/ Skips({"Name", "Proxy"})
        \/ IsEmptyOf({"Proxy"}) /\ Sets(joined)
        \/ Closes("Chain") /\ Returns(Append(stack[2].value, Top))
        \/ Passes("Chain", {"Proxy"})

(* parse_action_attrs: the action, or none if an attribute is missing. *)
ActionAttrs ==
  LET kind == StringOr("type", <<>>)
  IN IF kind \in {<<"Direct">>, <<"Block">>} THEN {[kind |-> kind[1], id |-> 0]}
     ELSE IF kind = <<"Proxy">> THEN {[kind |-> "Proxy", id |-> n] : n \in AttrU32("proxy")}
     ELSE IF kind = <<"Chain">> THEN {[kind |-> "Chain", id |-> n] : n \in AttrU32("chain")}
     ELSE {}

(* A rule is finished only if an action was read. *)
ParseRule ==
  LET texts == {"Name", "Targets", "Applications", "Ports"}
      acting == [Top EXCEPT !.action = ActionAttrs]
  IN /\ Inside("Rule")
     /\ \/ /\ IsEmptyOf({"Action"})
           /\ IF ActionAttrs = {} THEN Fails ELSE Sets(acting)
        \/ /\ Opens({"Action"}) /\ IF ActionAttrs = {} THEN Fails ELSE
                /\ Goes /\ UNCHANGED <<result, phase>>
                /\ stack' = <<Frame("skip", ev.name, <<>>), [Head(stack) EXCEPT !.value = acting]>>
                              \o Tail(stack)
        \/ ReadsText(texts)
        \/ Skips(texts \cup {"Action"})
        \/ /\ Closes("Rule") /\ IF Top.action = {} THEN Fails ELSE
                Returns(Append(stack[2].value,
                               [Top EXCEPT !.action = CHOOSE a \in Top.action : TRUE]))
        \/ Passes("Rule", {"Action"})

(* What the text of an element stands for where it was read; none if it    *)
(* does not parse.                                                         *)
Meaning(caller, name, t) ==
  CASE caller = "Rule" /\ name # "Name"     -> {SplitList(t)}
    [] name \in {"Port", "DnsUdpMode"}      -> NumberIn(t)
    [] name = "Options"                     -> {{n} : n \in NumberIn(t)}
    [] name \in {"Address", "ExclusionList"} \/ caller = "Rule" -> {t}
    [] OTHER                                -> {{t}}

TextFields ==
  [Name |-> "name", Targets |-> "targets", Applications |-> "applications", Ports |-> "ports",
   Address |-> "address", Port |-> "port", Options |-> "options", Label |-> "label",
   Username |-> "username", Password |-> "password", Hash |-> "hash",
   DnsUdpMode |-> "dns_udp_mode", ExclusionList |-> "exclusion_list"]

(* read_text: markup within the text is passed over, its texts are not.    *)
(* The references in a CDATA section stand for themselves.                 *)
ReadText ==
  LET name == Head(stack).name
      meaning == Meaning(stack[2].call, name, Top)
  IN /\ Inside("text")
     /\ \/ ev.kind = "text" /\ Sets(Top \o Read(ev.text))
        \/ ev.kind = "cdata" /\ Sets(Top \o EscapeBare(ev.text))
        \/ /\ Closes(name)
           /\ IF meaning = {} THEN Fails
              ELSE Returns([stack[2].value EXCEPT
                             ![TextFields[name]] = CHOOSE v \in meaning : TRUE])
        \/ /\ ev.kind \in {"start", "empty"} \/ (ev.kind = "end" /\ ev.name # name)
           /\ Keeps

(* skip_element and skip_to_end *)
SkipToEnd ==
  LET name  == Head(stack).name
      Deeper(d) == <<[Head(stack) EXCEPT !.depth = @ + d]>> \o Tail(stack)
  IN /\ Inside("skip") /\ ev # Eof
     /\ IF Opens({name}) THEN Goes /\ stack' = Deeper(1) /\ UNCHANGED <<result, phase>>
        ELSE IF Closes(name) THEN
          /\ Goes /\ UNCHANGED <<result, phase>>
          /\ stack' = IF Head(stack).depth = 1 THEN Tail(stack) ELSE Deeper(-1)
        ELSE Keeps

Parse == \/ FindRoot \/ ParseProfile \/ ParseOptions \/ ParseResolve \/ ParseEncryption
         \/ ParseProxyList \/ ParseProxy \/ ParseAuthentication
         \/ ParseChainList \/ ParseChain \/ ParseRuleList \/ ParseRule
         \/ ReadText \/ SkipToEnd \/ RefusesGarbled \/ EndOfFile

-----------------------------------------------------------------------------
(* The file and what happens to it. *)

Change(kind, refused) == [kind |-> kind, refused |-> refused]

(* Where an element that is put behind the k-th event is: beside the root, in   *)
(* it as a section of its own, or as an element within a section.               *)
Place(d, k) ==
  LET Count(kind) == Cardinality({i \in 1 .. k : d[i].kind = kind})
      open == Count("start") - Count("end")
  IN IF open = 0 THEN "beside" ELSE IF open = 1 THEN "section" ELSE "element"

(* The event, with & as itself wherever that cannot be taken for a reference. *)
Loose(e) ==
  LET t == Unescape(e.text)
  IN [e EXCEPT !.text = FlattenSeq([k \in DOMAIN t |->
        IF t[k] \in DOMAIN Written /\ (t[k] # "&" \/ IsRef(t, k)) THEN Reference(t[k]) ELSE <<t[k]>>])]

Unknown ==
  <<Start("Extra", NoAttrs), Start("Extra", NoAttrs), End("Extra"),
    Start("Resolve", NoAttrs), End("Resolve"), Empty("Action", NoAttrs), End("Extra")>>

Needed == {<<"Proxy", "type">>, <<"Chain", "id">>, <<"Action", "type">>,
           <<"Action", "proxy">>, <<"Action", "chain">>}
IsNeeded(e, a) == <<e.name, a>> \in Needed \/ (e.name = "Proxy" /\ a = "id" /\ e.kind = "start")

(* What may become of a saved file d: nothing, a torn write, an & typed by *)
(* hand, an element of a newer version, a missing or a garbled value.      *)
Damaged(d) ==
  {[doc |-> d, how |-> Change("none", FALSE)],
   [doc |-> [k \in DOMAIN d |-> Loose(d[k])], how |-> Change("typed", FALSE)]}
  \cup {[doc |-> SubSeq(d, 1, k), how |-> Change("torn", TRUE)] : k \in 0 .. Len(d) - 1}
  \cup {[doc |-> SubSeq(d, 1, k) \o Unknown \o SubSeq(d, k + 1, Len(d)),
         how |-> Change(Place(d, k), Place(d, k) = "section")] : k \in 0 .. Len(d)}
  \cup {[doc |-> [d EXCEPT ![ka[1]].attrs = Restrict(@, DOMAIN @ \ {ka[2]})],
         how |-> Change("missing", IsNeeded(d[ka[1]], ka[2]))] :
           ka \in UNION {{<<k, a>> : a \in DOMAIN d[k].attrs} : k \in DOMAIN d}}
  \cup {[doc |-> [d EXCEPT ![ka[1]].attrs[ka[2]] = <<"x">>], how |-> Change("garbled", TRUE)] :
           ka \in UNION {{<<k, a>> : a \in DOMAIN d[k].attrs \cap (Numeric \cup Boolean_ \cup {"type"})} :
                           k \in DOMAIN d}}
  \cup {[doc |-> [d EXCEPT ![k].text = <<"x">>], how |-> Change("garbled", TRUE)] :
           k \in {n \in 2 .. Len(d) : /\ d[n].kind = "text"
                                     /\ d[n - 1].name \in {"Port", "DnsUdpMode", "Options"}}}

Init ==
  /\ \/ \E p \in Saves : \E d \in {x \in Damaged(Saved(p)) : x.how.kind \in Damages} :
          source = {p} /\ doc = d.doc /\ damage = d.how
     \/ source = {} /\ doc \in Files /\ damage = Change("typed", FALSE)
  /\ at = 1 /\ stack = <<>> /\ result = {} /\ phase = "reading"

(* profile_save of what profile_open returned, and an open of that file. *)
SaveAndReopen ==
  /\ phase = "done" /\ damage.kind # "resaved"
  /\ source' = result /\ damage' = Change("resaved", FALSE)
  /\ doc' = Saved(CHOOSE p \in result : TRUE)
  /\ at' = 1 /\ stack' = <<>> /\ result' = {} /\ phase' = "reading"

Next == Parse \/ SaveAndReopen

Spec == Init /\ [][Next]_vars

-----------------------------------------------------------------------------
(* Properties. *)

(* A list as it should come back: an entry that holds a separator becomes  *)
(* several, blanks around an entry go, and empty entries vanish.           *)
Entries(list) == FlattenSeq([i \in DOMAIN list |-> SplitList(list[i])])
Normal(p) ==
  [p EXCEPT !.rules = [i \in DOMAIN @ |->
     [@[i] EXCEPT !.targets = Entries(@), !.applications = Entries(@), !.ports = Entries(@)]]]

(* A saved profile reads back: every field as it was, lists in normal form,*)
(* whatever characters the texts hold, also if an & was typed bare; and if *)
(* a file with an unknown element in it is read, that element alone is lost.*)
ReadsBack ==
  phase = "done" /\ damage.kind \in {"none", "typed", "beside", "element"} =>
    \A p \in source : result = {Normal(p)}

(* Opening, saving and opening again changes nothing more. *)
ReopenedSame == phase = "done" /\ damage.kind = "resaved" => result = source


(* model.rs: "Unknown elements cause a parse error rather than silent data *)
(* loss." Within a section the parser passes over them.                    *)
UnknownRefused == phase = "done" => damage.kind \notin {"section", "element"}
=============================================================================
