----------------------------- MODULE CheckOutcomes -----------------------------
(***************************************************************************)
(* What one check concludes from what the network answers: the checkers of *)
(* internal/checks that keep no state, and the normalisation of their      *)
(* results in MonitoringService.RunCheck.                                  *)
(*                                                                         *)
(* An answer is a record of what the conclusion depends on; addresses,     *)
(* timings and wording are left out.  Heartbeat and browser checks have    *)
(* modules of their own.                                                   *)
(***************************************************************************)
EXTENDS Integers, Sequences, FiniteSets
LOCAL INSTANCE SequencesExt

CONSTANT TLSWarnDays    \* days before its expiry a certificate is degraded (14 in the code)

ASSUME WarnAssumption == TLSWarnDays \in Nat

------------------------------------------------------------------------------
(* Results. *)

\* An outcome says whether there is an error text and whether an error was returned.
BaseResult == [status |-> "down", success |-> FALSE, told |-> FALSE, err |-> FALSE, code |-> 0]
Up == [BaseResult EXCEPT !.status = "up", !.success = TRUE]
NotMet == [BaseResult EXCEPT !.told = TRUE]          \* the target answered, but not as expected
CannotTell == [NotMet EXCEPT !.err = TRUE]           \* refused, timed out, unreachable

\* What RunCheck adds to a checker's result.
Normalised(o) ==
  [o EXCEPT !.told = @ \/ o.err,
            !.status = IF @ # "" THEN @ ELSE IF o.success THEN "up" ELSE "down"]

------------------------------------------------------------------------------
(* JSON values are tagged: objects and arrays of values, texts, numbers. *)

Missing == [kind |-> "missing"]
Text(v) == [kind |-> "text", v |-> v]         \* a text that is no number
Number(v) == [kind |-> "number", v |-> v]     \* a number, or the text of one

\* One part of a path: a field, "" for none, and an index, negative for none.
Descend(value, part) ==
  LET inner == IF part.field = "" THEN value
               ELSE IF value.kind = "object" /\ part.field \in DOMAIN value.of THEN value.of[part.field]
               ELSE Missing
  IN  IF part.index < 0 THEN inner
      ELSE IF inner.kind = "array" /\ part.index < Len(inner.of) THEN inner.of[part.index + 1]
      ELSE Missing

JsonPath(payload, path) == FoldLeft(Descend, payload, path)

\* valuesEqual: texts of numbers are numbers.
Same(a, b) == a.kind = b.kind /\ (a.kind = "missing" \/ a.v = b.v)

\* evaluateAssertion without `contains' and `matchesRegex', which are about texts.
EvaluateAssertion(op, got, want) ==
  CASE op = "exists" -> got # Missing
    [] op \in {"", "equals"} -> got # Missing /\ Same(got, want)
    [] op = "notEquals" -> got = Missing \/ ~Same(got, want)
    [] op = "greaterThan" -> got.kind = "number" /\ want.kind = "number" /\ got.v > want.v
    [] op = "lessThan" -> got.kind = "number" /\ want.kind = "number" /\ got.v < want.v
    [] OTHER -> FALSE

\* Assertions read the part of the body that is kept, which need not parse when
\* the body is longer.
ValidateAPIAssertions(assertions, body) ==
  \/ assertions = <<>>
  \/ /\ body.kept
     /\ \A i \in DOMAIN assertions :
          EvaluateAssertion(assertions[i].op, JsonPath(body.json, assertions[i].path), assertions[i].value)

------------------------------------------------------------------------------
(* HTTP, keyword and API monitors. *)

MethodAllowed(type, method) ==
  method \in IF type = "api" THEN {"GET", "HEAD", "POST", "PUT", "PATCH", "DELETE", "OPTIONS"} ELSE {"GET", "HEAD"}

\* q.answer is "none" when the target is refused or does not answer, "broken" when
\* its body cannot be read; HEAD reads no body, so no keyword is found in it.
HTTPCheck(q) ==
  LET expected == IF q.expected = 0 THEN 200 ELSE q.expected
      found == q.method # "HEAD" /\ q.keyword = "kept"
      ok == /\ q.code = expected
            /\ q.type = "keyword" => found \/ q.keyword = "unset"
            /\ q.type = "api" => ValidateAPIAssertions(q.assertions,
                                   IF q.method = "HEAD" THEN [kept |-> FALSE] ELSE q.body)
  IN  IF ~MethodAllowed(q.type, q.method) \/ q.answer = "none" THEN CannotTell
      ELSE IF q.answer = "broken" /\ q.method # "HEAD" THEN [CannotTell EXCEPT !.code = q.code]
      ELSE [(IF ok THEN Up ELSE NotMet) EXCEPT !.code = q.code]

------------------------------------------------------------------------------
(* Multistep monitors: a script of requests, each with the variables it uses,  *)
(* what its assertions find and the variables it extracts.                     *)

\* An assertion about existence leaves out the rest of itself.
StepAssertionHolds(a) ==
  /\ a.status
  /\ IF a.exists = "unasked" THEN a.equals /\ a.contains ELSE a.exists = "as expected"

\* Mutant: a step runs after a failed one.
RunStepRegardless(state, step) ==
  IF /\ step.uses \subseteq state.vars /\ step.answers
     /\ \A i \in DOMAIN step.assertions : StepAssertionHolds(step.assertions[i])
     /\ step.extracts \subseteq step.present
  THEN [state EXCEPT !.vars = @ \union step.extracts, !.run = @ + 1]
  ELSE [state EXCEPT !.failed = TRUE]

\* runMultistepStep: the variables afterwards, or that the step failed.
RunMultistepStep(state, step) ==
  IF /\ ~state.failed /\ step.uses \subseteq state.vars /\ step.answers
     /\ \A i \in DOMAIN step.assertions : StepAssertionHolds(step.assertions[i])
     /\ step.extracts \subseteq step.present
  THEN [state EXCEPT !.vars = @ \union step.extracts, !.run = @ + 1]
  ELSE [state EXCEPT !.failed = TRUE]

\* The state after each number of steps.
AfterSteps(script) ==
  LET after[k \in 0..Len(script.steps)] ==
        IF k = 0 THEN [vars |-> script.vars, failed |-> FALSE, run |-> 0]
        ELSE RunMultistepStep(after[k - 1], script.steps[k])
  IN  after

MultistepCheck(script) ==
  LET end == AfterSteps(script)[Len(script.steps)]
  IN  IF script.steps = <<>> \/ end.failed THEN NotMet ELSE [Up EXCEPT !.code = 200]

------------------------------------------------------------------------------
(* Domain and certificate expiry, in hours from now. *)

TruncatedDays(hours) == IF hours >= 0 THEN hours \div 24 ELSE -((-hours) \div 24)

ExpiresSoon == [Up EXCEPT !.status = "degraded", !.told = TRUE]

ClassifyDomainExpiry(hours, warnDays) ==
  LET days == TruncatedDays(hours)
  IN  IF days < 0 THEN NotMet ELSE IF days <= warnDays THEN ExpiresSoon ELSE Up

TLSExpiryStatus(hours, warnDays) ==
  LET warn == IF warnDays <= 0 THEN TLSWarnDays ELSE warnDays
  IN  IF hours <= 0 THEN "down" ELSE IF hours <= 24 * warn THEN "degraded" ELSE "up"

\* The dates found; an indented line is cut at the wrong place and never parses.
WhoisDates(lines) ==
  LET dated == SelectSeq(lines, LAMBDA l : l.expiryKey /\ l.parses /\ ~l.indented)
  IN  [i \in DOMAIN dated |-> dated[i].date]

\* WHOIS is asked when RDAP refuses or does not tell the date; the first date counts.
DomainCheck(q) ==
  LET dates == WhoisDates(q.lines)
      fromWhois == IF ~q.whoisAnswers THEN CannotTell
                   ELSE IF dates = <<>> THEN NotMet
                   ELSE ClassifyDomainExpiry(dates[1], q.warnDays)
  IN  CASE q.rdap \in {"unreachable", "unreadable"} -> CannotTell
        [] q.rdap \in {"refuses", "silent"} -> fromWhois
        [] q.rdap = "dated" -> ClassifyDomainExpiry(q.rdapDate, q.warnDays)

\* Go's handshake already refuses an expired certificate.
TLSCheck(handshake, hours, warnDays) ==
  IF handshake # "ok" \/ hours <= 0 THEN CannotTell
  ELSE CASE TLSExpiryStatus(hours, warnDays) = "degraded" -> ExpiresSoon
         [] TLSExpiryStatus(hours, warnDays) = "up" -> Up

------------------------------------------------------------------------------
(* TCP, UDP, DNS, ICMP and ping. *)

TCPCheck(connects) == IF connects THEN Up ELSE CannotTell
DNSCheck(resolves, addresses) == IF resolves /\ addresses > 0 THEN Up ELSE CannotTell

\* Without an expected response a datagram that could be sent is enough.
UDPCheck(sent, expects, reply) ==
  IF ~sent \/ (expects /\ reply = "none") THEN CannotTell
  ELSE IF expects /\ reply = "other" THEN NotMet ELSE Up

\* Three packets; more than half of them lost is degraded, and no success.
ICMPCheck(ran, received) ==
  IF ~ran THEN CannotTell
  ELSE IF received = 0 THEN NotMet
  ELSE IF 100 * (3 - received) > 50 * 3 THEN [NotMet EXCEPT !.status = "degraded"] ELSE Up

\* Any failure of the ICMP echo, silence included, turns to TCP.
PingCheck(mode, echoed, connects) == IF mode # "tcp" /\ echoed THEN Up ELSE TCPCheck(connects)

\* Registry.For: the checker of a monitor's type.
Check(q) ==
  CASE q.type \in {"http", "keyword", "api"} -> HTTPCheck(q)
    [] q.type = "tcp" -> TCPCheck(q.connects)
    [] q.type = "dns" -> DNSCheck(q.connects, q.replies)
    [] q.type = "udp" -> UDPCheck(q.connects, q.expects, q.reply)
    [] q.type = "icmp" -> ICMPCheck(q.connects, q.replies)
    [] q.type = "ping" -> PingCheck(q.mode, q.echoed, q.connects)
    [] q.type = "tls" -> TLSCheck(q.handshake, q.hours, q.warnDays)
    [] q.type = "domain" -> DomainCheck(q)
    [] q.type = "multistep" -> MultistepCheck(q)

------------------------------------------------------------------------------
(* Properties. *)

\* After RunCheck a result tells one thing: it has an error text exactly when the
\* status is not `up'; a success is up or (near expiry) degraded, a failure is
\* down or (packet loss) degraded; and a returned error means `down'.
Coherent(checked) ==
  LET o == Normalised(checked)
  IN  /\ o.told <=> o.status # "up"
      /\ o.success => o.status \in {"up", "degraded"}
      /\ ~o.success => o.status \in {"down", "degraded"}
      /\ o.err => o.status = "down"

\* What a keyword or API monitor asks comes on top of what an HTTP monitor asks:
\* it is up only if the other is; with HEAD no keyword or assertion is ever met.
HTTPAgrees(q) ==
  LET o == Check(q)
  IN  /\ Coherent(o)
      /\ o.success /\ q.method \in {"GET", "HEAD"} => HTTPCheck([q EXCEPT !.type = "http"]).success
      /\ o.success /\ q.method = "HEAD" =>
           /\ q.type = "keyword" => q.keyword = "unset"
           /\ q.type = "api" => q.assertions = <<>>

\* A number is equal to, greater or less than another; what is missing is neither
\* equal nor numeric; `notEquals' is the opposite of `equals'.
AssertionsAgree(got, want) ==
  LET holds == {op \in {"equals", "greaterThan", "lessThan"} : EvaluateAssertion(op, got, want)}
  IN  /\ got.kind = "number" /\ want.kind = "number" => Cardinality(holds) = 1
      /\ got = Missing => holds = {} /\ ~EvaluateAssertion("exists", got, want)
      /\ EvaluateAssertion("notEquals", got, want) <=> ~EvaluateAssertion("equals", got, want)

\* A script is up if and only if every step, in order, finds the variables it
\* uses among the initial ones and those extracted before it, is answered,
\* and holds its assertions; nothing after a failed step is run.
ScriptAgrees(script) ==
  LET n == Len(script.steps)
      known(i) == script.vars \union UNION {script.steps[j].extracts : j \in 1..(i - 1)}
      good(i) == LET s == script.steps[i]
                 IN  /\ s.answers /\ s.uses \subseteq known(i) /\ s.extracts \subseteq s.present
                     /\ \A k \in DOMAIN s.assertions : StepAssertionHolds(s.assertions[k])
      run == AfterSteps(script)[n].run
  IN  /\ MultistepCheck(script).success <=> n > 0 /\ \A i \in 1..n : good(i)
      /\ \A i \in 1..n : run >= i <=> \A j \in 1..i : good(j)
      /\ Coherent(Check(script))

\* A domain and a certificate that expire at the same time, with the same warning,
\* get the same status, but on the day after the expiry and the warning's last:
\* whole days are counted towards zero for the one, hours for the other.
ExpiryAgrees(hours, warnDays) ==
  LET domain == ClassifyDomainExpiry(hours, warnDays)
  IN  /\ domain.status # TLSExpiryStatus(hours, warnDays) =>
           hours \in -23..0 \/ hours \in (24 * warnDays + 1)..(24 * warnDays + 23)
      /\ hours > 0 => domain.success
      /\ hours <= -24 => ~domain.success
      /\ Coherent(domain)
=============================================================================
