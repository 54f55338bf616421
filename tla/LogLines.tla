------------------------------ MODULE LogLines ------------------------------
(***************************************************************************)
(* The lines of a Proxifier log (parser.rs, model.rs of log-ingest) and    *)
(* the table that ingest_file loads from them.  A line is its timestamp,   *)
(* if it begins with one, and the tokens after it: a token is a character  *)
(* of a host or an address, a whole number, a name or one of the phrases   *)
(* the parser looks for.  A value that may be missing is a set with at     *)
(* most one element.  Blanks at the ends of a part are left out.           *)
(***************************************************************************)
EXTENDS Matcher

CONSTANT Numeral   \* how a port, a process id or a type (of Ports) is written

-----------------------------------------------------------------------------
(* split_once, and its counterpart from the end. *)

Around(s, k) == IF k = 0 THEN {} ELSE {<<SubSeq(s, 1, k - 1), SubSeq(s, k + 1, Len(s))>>}
Split(s, token)     == Around(s, SelectInSeq(s, LAMBDA c : c = token))
SplitLast(s, token) == Around(s, SelectLastInSeq(s, LAMBDA c : c = token))
Has(s, token)       == token \in ToSet(s)

Number(s) == {n \in Ports : s = <<Numeral[n]>>}

NonEmpty(s) == IF s = NoText THEN {} ELSE {s}

(* parse_process: `name (pid, parent)`; without a bracket all is the name. *)
ParseProcess(s) ==
  LET inside(cut) == IF cut[2] # <<>> /\ Last(cut[2]) = ")" THEN Front(cut[2]) ELSE cut[2]
  IN IF SplitLast(s, " (") = {} THEN [name |-> s, pid |-> {}, parent |-> {}]
     ELSE LET cut == CHOOSE c \in SplitLast(s, " (") : TRUE
              two == Split(inside(cut), ", ")
          IN [name   |-> cut[1],
              pid    |-> (UNION {Number(t[1]) : t \in two})
                           \cup (IF two = {} THEN Number(inside(cut)) ELSE {}),
              parent |-> {t[2] : t \in two}]

-----------------------------------------------------------------------------
(* The target of a connection. *)

Annotation ==
  [c \in {" (UDP)", " (ICMP)", " (IPv6)"} |->
     IF c = " (UDP)" THEN "UDP" ELSE IF c = " (ICMP)" THEN "ICMP" ELSE "IPv6"]

Target(host, ip, port, notes, ipv6) ==
  [host |-> host, ip |-> ip, port |-> port, ipv6 |-> ipv6 \/ "IPv6" \in notes,
   proto |-> IF "UDP" \in notes THEN "UDP" ELSE IF "ICMP" \in notes THEN "ICMP" ELSE "TCP"]

(* `host(ip)`, an address, or a host *)
HostAndIp(left) ==
  LET cut == SplitLast(left, "(")
  IN IF cut # {} /\ Last(left) = ")"
       THEN LET c == CHOOSE x \in cut : TRUE IN <<NonEmpty(c[1]), {Front(c[2])}>>
     ELSE IF ParseIpv4(left) # {} THEN <<{}, {left}>>
     ELSE <<{left}, {}>>

(* `[ip]:port` *)
Literals(t) ==
  IF t = NoText \/ t[1] # "[" THEN {}
  ELSE {k \in DOMAIN t : t[k] = "]" /\ k < Len(t) /\ t[k + 1] = ":"}

(* Mutated form: the port is looked for after the first colon. *)
ParseTargetAtFirst(raw) ==
  LET solid == SelectLastInSeq(raw, LAMBDA c : c \notin DOMAIN Annotation)
      t     == SubSeq(raw, 1, solid)
      notes == {Annotation[raw[k]] : k \in solid + 1 .. Len(raw)}
  IN IF Literals(t) # {}
       THEN LET close == Min(Literals(t))
            IN {Target({}, {SubSeq(t, 2, close - 1)}, n, notes, TRUE) :
                  n \in Number(SubSeq(t, close + 2, Len(t)))}
     ELSE UNION {{Target(HostAndIp(cut[1])[1], HostAndIp(cut[1])[2], n, notes, FALSE) :
                    n \in Number(cut[2])} : cut \in Split(t, ":")}

(* parse_target: annotations at the end, then one of the four shapes. *)
ParseTarget(raw) ==
  LET solid == SelectLastInSeq(raw, LAMBDA c : c \notin DOMAIN Annotation)
      t     == SubSeq(raw, 1, solid)
      notes == {Annotation[raw[k]] : k \in solid + 1 .. Len(raw)}
  IN IF Literals(t) # {}
       THEN LET close == Min(Literals(t))
            IN {Target({}, {SubSeq(t, 2, close - 1)}, n, notes, TRUE) :
                  n \in Number(SubSeq(t, close + 2, Len(t)))}
     ELSE UNION {{Target(HostAndIp(cut[1])[1], HostAndIp(cut[1])[2], n, notes, FALSE) :
                    n \in Number(cut[2])} : cut \in SplitLast(t, ":")}

(* The tokens that hold a keyword of Action::parse. *)
Blocking  == {"blocked", "adblock"}
Proxying  == {"proxy"}
Directing == {"direct"}

(* Action::parse: by keyword, block before proxy before direct. *)
ParseAction(phrase) ==
  LET Says(words) == ToSet(phrase) \cap words # {}
  IN IF Says(Blocking) THEN "Block" ELSE IF Says(Proxying) THEN "Proxy"
     ELSE IF Says(Directing) THEN "Direct" ELSE "Other"

(* What the parser makes of a line: an event, with the line as its offset. *)
Connection(ts, process, target, rule, action, offset) ==
  [kind |-> "connection", ts |-> ts, process |-> process, target |-> target,
   rule |-> rule, action |-> action, raw_offset |-> offset]

ParseMatch(ts, process, body, offset) ==
  {Connection(ts, process, m[1], m[2], m[3], offset) : m \in
     UNION {UNION {{<<t, cut[1], ParseAction(cut[2])>> : t \in ParseTarget(side[1])} :
                     cut \in Split(side[2], " rule : ")} : side \in Split(body, " matching ")}}

-----------------------------------------------------------------------------
(* Name resolution; the parent of the process is not kept. *)

Dns(kind, ts, process, server, qname, qtype, answer_ip, offset) ==
  [kind |-> kind, ts |-> ts, process |-> [process EXCEPT !.parent = {}], server |-> server,
   qname |-> qname, qtype |-> qtype, answer_ip |-> answer_ip, raw_offset |-> offset]

(* extract_kv: what stands between the key and the next comma. *)
Value(s, key) ==
  {LET ends == {i \in k + 1 .. Len(s) : s[i] = ","}
   IN SubSeq(s, k + 1, (IF ends = {} THEN Len(s) + 1 ELSE Min(ends)) - 1) :
     k \in {SelectInSeq(s, LAMBDA c : c = key)} \ {0}}
NumberOf(s, key) == UNION {Number(v) : v \in Value(s, key)}

Phrase == [Request       |-> " DNS-UDP request:",
           Response      |-> " DNS-UDP response:",
           EmptyResponse |-> " DNS-UDP empty response:"]

(* parse_dns_request, parse_dns_response, parse_dns_empty: only a response *)
(* has an answer, and without a name there is no event.                    *)
ParseDns(kind, ts, process, body, offset) ==
  UNION {{Dns(kind, ts, process, {cut[1]}, qname, NumberOf(cut[2], "Type="),
              IF kind = "Response" THEN Value(cut[2], "IP=") ELSE {}, offset) :
            qname \in Value(cut[2], "Name=")} : cut \in Split(body, Phrase[kind])}

(* parse_dns_resolve: the server ends before " :", and a type may precede it. *)
ParseResolve(ts, process, body, offset) ==
  LET cuts == IF Has(body, " DNS request type=") THEN Split(body, " DNS request type=")
              ELSE Split(body, " resolve via ")
      Upto(s) == IF Has(s, " :") THEN (CHOOSE c \in Split(s, " :") : TRUE)[1] ELSE s
  IN {LET typed == Split(Upto(cut[2]), " via ")
      IN Dns("Resolve", ts, process,
             IF typed = {} THEN {Upto(cut[2])} ELSE {t[2] : t \in typed},
             cut[1], UNION {Number(t[1]) : t \in typed}, {}, offset) : cut \in cuts}

-----------------------------------------------------------------------------
(* A line, and a log. *)

Unknown(ts, offset) == [kind |-> "other", ts |-> ts, raw_offset |-> offset]

ParseBody(ts, process, body, offset) ==
  IF Has(body, Phrase.Request) THEN ParseDns("Request", ts, process, body, offset)
  ELSE IF Has(body, Phrase.Response) THEN ParseDns("Response", ts, process, body, offset)
  ELSE IF Has(body, Phrase.EmptyResponse) THEN ParseDns("EmptyResponse", ts, process, body, offset)
  ELSE IF Has(body, " resolve via ") \/ Has(body, " DNS request type=")
    THEN ParseResolve(ts, process, body, offset)
  ELSE IF Has(body, " matching ") /\ Has(body, " rule : ")
    THEN ParseMatch(ts, process, body, offset)
  ELSE {Unknown(ts, offset)}

(* parse_line *)
ParseLine(line, offset) ==
  UNION {UNION {ParseBody(ts, ParseProcess(cut[1]), cut[2], offset) : cut \in Split(line.rest, " - ")} :
           ts \in line.ts}

(* A table that ingest_file loads: the events of its kinds, numbered from  *)
(* 1 in the order of the lines.  A line that is none of them leaves no row. *)
NameKinds == {"Request", "Response", "EmptyResponse", "Resolve"}

Extended(fields, e) ==
  [x \in DOMAIN fields \cup DOMAIN e |-> IF x \in DOMAIN fields THEN fields[x] ELSE e[x]]
Loads(line, offset, kinds) == {e \in ParseLine(line, offset) : e.kind \in kinds}
RowsOf(lines, kinds) ==
  LET at == {i \in DOMAIN lines : Loads(lines[i], i, kinds) # {}}
  IN {Extended([id |-> Rank(at, i)], CHOOSE e \in Loads(lines[i], i, kinds) : TRUE) : i \in at}

EventRows(lines) == RowsOf(lines, {"connection"})
DnsRows(lines)   == RowsOf(lines, NameKinds)

-----------------------------------------------------------------------------
(* What Proxifier writes (external: from parser.rs:3-17 and the tests).    *)
(* An entry of a log is such an event without its offset, or some other    *)
(* line; ts = 0 where a line does not begin with a timestamp.              *)

OrNothing(parts) == IF parts = {} THEN <<>> ELSE CHOOSE p \in parts : TRUE

WriteTarget(t) ==
  (IF t.host # {} /\ t.ip # {}
     THEN (CHOOSE h \in t.host : TRUE) \o <<"(">> \o (CHOOSE i \in t.ip : TRUE) \o <<")">>
   ELSE IF t.host # {} THEN CHOOSE h \in t.host : TRUE
   ELSE LET ip == CHOOSE i \in t.ip : TRUE
        IN IF t.ipv6 THEN <<"[">> \o ip \o <<"]">> ELSE ip)
  \o <<":", Numeral[t.port]>>
  \o (IF t.proto = "UDP" THEN <<" (UDP)">> ELSE IF t.proto = "ICMP" THEN <<" (ICMP)">> ELSE <<>>)
  \o (IF t.ipv6 THEN <<" (IPv6)">> ELSE <<>>)

WriteProcess(p) ==
  p.name \o <<" (">> \o OrNothing({<<Numeral[n]>> : n \in p.pid})
         \o OrNothing({<<", ">> \o q : q \in p.parent}) \o <<")">>

Phrases == [Direct |-> <<"direct", "connection">>, Block |-> <<"connection", "blocked">>,
            Proxy |-> <<"proxy", "main", "SOCKS5">>, Other |-> <<"close">>]

WriteDns(e) ==
  LET type(key) == OrNothing({<<key, Numeral[n], ",">> : n \in e.qtype})
      server    == CHOOSE s \in e.server : TRUE
  IN IF e.kind # "Resolve"
       THEN server \o <<Phrase[e.kind]>> \o type("Type=") \o <<"Name=">> \o e.qname
              \o OrNothing({<<",", "IP=">> \o ip \o <<",", "ttl=", "9">> : ip \in e.answer_ip})
     ELSE IF e.qtype = {} THEN e.qname \o <<" resolve via ">> \o server \o <<" :", "DNS">>
     ELSE e.qname \o <<" DNS request type=", Numeral[CHOOSE n \in e.qtype : TRUE], " via ">>
            \o server \o <<" :", "DNS">>

Written(e) ==
  [ts   |-> {e.ts} \ {0},
   rest |-> IF e.kind = "other" THEN e.rest
            ELSE WriteProcess(e.process) \o <<" - ">> \o
              IF e.kind # "connection" THEN WriteDns(e)
              ELSE WriteTarget(e.target) \o <<" matching ">> \o e.rule
                     \o <<" rule : ">> \o Phrases[e.action]]

Lines(log) == [i \in DOMAIN log |-> Written(log[i])]

-----------------------------------------------------------------------------
(* The logs that a reader can make sense of: the parts of an entry do not  *)
(* hold what the parser takes for the end of the part.                     *)

Text == Seq(STRING)

Process == [name : Text, pid : SUBSET Ports, parent : SUBSET Text]
Entry ==
  [kind : {"connection"}, ts : Nat, process : Process,
   target : [host : SUBSET Text, ip : SUBSET Text, port : Ports, ipv6 : BOOLEAN,
             proto : {"TCP", "UDP", "ICMP"}],
   rule : Text, action : DOMAIN Phrases]
  \cup [kind : NameKinds, ts : Nat, process : Process, server : SUBSET Text, qname : Text,
        qtype : SUBSET Ports, answer_ip : SUBSET Text]
  \cup [kind : {"other"}, ts : Nat, rest : Text]

Keywords ==
  {" DNS-UDP request:", " DNS-UDP response:", " DNS-UDP empty response:", " resolve via ",
   " DNS request type=", " matching ", " rule : "}
Marks ==
  Keywords \cup DOMAIN Annotation
    \cup {" - ", " (", ", ", "(", ")", "[", "]", ",", "Name=", "Type=", "IP=", " :", " via "}

Free(s, tokens) == ToSet(s) \cap tokens = {}
AtMostOne(S)    == \A x, y \in S : x = y

LegibleProcess(p) ==
  /\ AtMostOne(p.pid) /\ AtMostOne(p.parent)
  /\ Free(p.name, {" - "}) /\ \A q \in p.parent : Free(q, {" - ", " ("})

(* Without an address the host does not look like one; an address that     *)
(* stands alone is a dotted quad, or IPv6.                                 *)
LegibleTarget(t) ==
  /\ AtMostOne(t.host) /\ AtMostOne(t.ip) /\ t.host \cup t.ip # {}
  /\ \A s \in t.host \cup t.ip : s # NoText /\ Free(s, Marks)
  /\ t.ip = {} => \A h \in t.host : ParseIpv4(h) = {}
  /\ t.host = {} /\ ~ t.ipv6 => \A ip \in t.ip : ParseIpv4(ip) # {}

LegibleName(e) ==
  /\ AtMostOne(e.server) /\ e.server # {} /\ AtMostOne(e.qtype) /\ AtMostOne(e.answer_ip)
  /\ \A s \in e.server \cup {e.qname} \cup e.answer_ip : Free(s, Marks)
  /\ e.process.parent = {} /\ (e.answer_ip # {} => e.kind = "Response")

Legible(e) ==
  IF e.kind = "other" THEN Free(e.rest, Keywords)
  ELSE /\ e.ts # 0 /\ LegibleProcess(e.process)
       /\ IF e.kind = "connection" THEN LegibleTarget(e.target) /\ Free(e.rule, Keywords)
          ELSE LegibleName(e)

ASSUME LogLinesAssumption ==
  /\ DOMAIN Numeral = Ports
  /\ \A n \in Ports : Numeral[n] \in STRING \ (Marks \cup {":"})
  /\ \A m, n \in Ports : Numeral[m] = Numeral[n] => m = n

(* The rows a log should give in a table of such kinds. *)
Said(log, kinds) ==
  LET at == {i \in DOMAIN log : log[i].kind \in kinds}
  IN {Extended([id |-> Rank(at, i), raw_offset |-> i], log[i]) : i \in at}
=============================================================================
