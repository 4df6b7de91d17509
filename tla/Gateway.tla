------------------------------ MODULE Gateway -------------------------------
(***************************************************************************)
(* What runs inside the two sidecars: the metering proxy's CONNECT tunnel  *)
(* and reverse listeners, and the span collector. Each accepted connection *)
(* has a thread of its own; the threads share a log file behind a lock     *)
(* and, in the collector, a sequence counter behind another.               *)
(***************************************************************************)
EXTENDS Naturals, Sequences

CONSTANTS
  Conns,      \* connections, one thread each
  Trials,     \* trial ids the engine hands out
  Strangers,  \* other names a client may give for its trial
  Hosts,      \* hosts a trial may ask for
  ALLOW,      \* the injected allowlist
  NoTrial     \* the name "-", also what an unattributed request is logged under

GatewayAssumption == ALLOW \subseteq Hosts /\ NoTrial \notin Trials \cup Strangers

VARIABLES
  bound,    \* the proxy's listening ports: reverse hosts and "connect"
  conn,     \* per connection: its request and how far its thread is
  log,      \* the proxy's JSONL log
  spans,    \* the collector's envelope log
  seq       \* the collector's counter

vars == <<bound, conn, log, spans, seq>>

(* What a client sends: the bytes that ride behind the head, and the rest. *)
(* It names a trial as it likes, the literal "-" included: in the proxy    *)
(* credentials, after /t/ in a reverse path (or in a path without it), or  *)
(* in a span header. Nobody looks a name up among the trials.              *)
Sent == <<"early", "late">>
Names == Trials \cup Strangers \cup {NoTrial}
Requests ==
  [kind : {"connect"}, proper : BOOLEAN, host : Hosts, trial : Names]
  \cup [kind : {"reverse"}, path : {"preflight", "bare"}, host : ALLOW, trial : {NoTrial}]
  \cup [kind : {"reverse"}, path : {"trial"}, host : ALLOW, trial : Names]
  \cup [kind : {"span"}, trial : Names,
        body : {"wrong_path", "wrong_type", "bad_gzip", "bad_json", "json", "protobuf"}]
Unused == [step |-> "unused"]

Init ==
  /\ bound = {} /\ log = <<>> /\ spans = <<>> /\ seq = 0
  /\ conn = [c \in Conns |-> Unused]

(* main: every reverse port is bound before 3128, the port the readiness   *)
(* probe asks.                                                             *)
Listen(port) ==
  /\ port \in ALLOW \cup {"connect"} /\ port \notin bound
  /\ port = "connect" => ALLOW \subseteq bound
  /\ bound' = bound \cup {port}
  /\ UNCHANGED <<conn, log, spans, seq>>

Step(c, s) == conn' = [conn EXCEPT ![c].step = s]
Answer(c, status) == conn' = [conn EXCEPT ![c].step = "closed", ![c].status = status]
Log(c, trial, decision) ==
  log' = Append(log, [trial |-> trial, host |-> conn[c].req.host,
                      decision |-> decision, conn |-> c])

Accept(c, req) ==
  /\ conn[c] = Unused
  /\ CASE req.kind = "connect" -> "connect" \in bound
       [] req.kind = "reverse" -> req.host \in bound
       [] req.kind = "span" -> TRUE
  /\ conn' = [conn EXCEPT ![c] = [step |-> req.kind, req |-> req, status |-> 0,
                                  got |-> <<>>, read |-> 0]]
  /\ UNCHANGED <<bound, log, spans, seq>>

(***************************************************************************)
(* handle: the first of these refusals that applies. A refused request of  *)
(* a host is logged as a deny; a method other than CONNECT is not logged.  *)
(***************************************************************************)
ConnectRefusal(req) ==
  CASE ~req.proper -> 405
    [] req.proper /\ req.host \notin ALLOW -> 403
    [] req.proper /\ req.host \in ALLOW /\ req.trial = NoTrial -> 407
    [] OTHER -> 0
Handle(c) ==
  /\ conn[c].step = "connect"
  /\ LET refusal == ConnectRefusal(conn[c].req) IN
     IF refusal # 0
     THEN /\ Answer(c, refusal)
          /\ IF refusal = 405 THEN UNCHANGED log ELSE Log(c, conn[c].req.trial, "deny")
     ELSE Step(c, "dial") /\ UNCHANGED log
  /\ UNCHANGED <<bound, spans, seq>>

(* handle_reverse: a preflight is answered and not logged; a base URL      *)
(* without /t/<trial> is denied. A trial "-" is not refused here.          *)
HandleReverse(c) ==
  /\ conn[c].step = "reverse"
  /\ LET req == conn[c].req IN
     CASE req.path = "preflight" -> Answer(c, 200) /\ UNCHANGED log
       [] req.path = "bare" -> Answer(c, 403) /\ Log(c, NoTrial, "deny")
       [] req.path = "trial" -> Step(c, "dial") /\ UNCHANGED log
  /\ UNCHANGED <<bound, spans, seq>>

(* The upstream connection, the allow line, the answer, and then the bytes *)
(* in the order the client sent them.                                      *)
Dial_LogsLater(c, upstream) ==
  /\ conn[c].step = "dial" /\ upstream
  /\ Step(c, "forward")
  /\ UNCHANGED <<bound, log, spans, seq>>
Dial(c, upstream) ==
  /\ conn[c].step = "dial"
  /\ IF upstream
     THEN Log(c, conn[c].req.trial, "allow") /\ Step(c, "forward")
     ELSE Log(c, conn[c].req.trial, "deny") /\ Answer(c, 502)
  /\ UNCHANGED <<bound, spans, seq>>
ForwardEarly(c) ==
  /\ conn[c].step = "forward"
  /\ conn' = [conn EXCEPT ![c].step = "splice", ![c].got = <<"early">>,
                          ![c].read = 1, ![c].status = 200]
  /\ UNCHANGED <<bound, log, spans, seq>>
Splice(c) ==
  /\ conn[c].step = "splice" /\ conn[c].read < Len(Sent)
  /\ conn' = [conn EXCEPT ![c].got = Append(@, Sent[conn[c].read + 1]), ![c].read = @ + 1]
  /\ UNCHANGED <<bound, log, spans, seq>>
(* select's timeout, either side's close, or any exception of the thread.  *)
Close(c) ==
  /\ conn[c].step \in {"connect", "reverse", "dial", "forward", "splice",
                      "span", "append", "reply"}
  /\ Step(c, "closed")
  /\ UNCHANGED <<bound, log, spans, seq>>

(***************************************************************************)
(* The collector: the counter is taken before the body is parsed, so a     *)
(* malformed body leaves a gap, and the envelope is appended under the     *)
(* other lock, so the file need not be in the counter's order.             *)
(***************************************************************************)
HandleSpan(c) ==
  /\ conn[c].step = "span"
  /\ LET body == conn[c].req.body IN
     CASE body = "wrong_path" -> Answer(c, 404) /\ UNCHANGED seq
       [] body = "wrong_type" -> Answer(c, 415) /\ UNCHANGED seq
       [] body = "bad_gzip"   -> Answer(c, 0) /\ UNCHANGED seq
       [] body = "bad_json"   -> Answer(c, 400) /\ seq' = seq + 1
       [] OTHER -> /\ conn' = [conn EXCEPT ![c].step = "append", ![c].read = seq]
                   /\ seq' = seq + 1
  /\ UNCHANGED <<bound, log, spans>>
AppendEnvelope(c) ==
  /\ conn[c].step = "append"
  /\ spans' = Append(spans, [trial |-> conn[c].req.trial, seq |-> conn[c].read,
                             body |-> conn[c].req.body, conn |-> c])
  /\ Step(c, "reply")
  /\ UNCHANGED <<bound, log, seq>>
Reply(c) ==
  /\ conn[c].step = "reply"
  /\ Answer(c, IF conn[c].req.trial = NoTrial THEN 400 ELSE 200)
  /\ UNCHANGED <<bound, log, spans, seq>>

Next ==
  \/ \E port \in ALLOW \cup {"connect"} : Listen(port)
  \/ \E c \in Conns :
       \/ \E req \in Requests : Accept(c, req)
       \/ \E upstream \in BOOLEAN : Dial(c, upstream)
       \/ Handle(c) \/ HandleReverse(c) \/ ForwardEarly(c) \/ Splice(c)
       \/ Close(c) \/ HandleSpan(c) \/ AppendEnvelope(c) \/ Reply(c)
Spec == Init /\ [][Next]_vars

(***************************************************************************)
(* otlp_decode: a trial's batches are the envelopes that carry its id (by  *)
(* their lines), and decoding fails loudly when one is protobuf and the    *)
(* extra is missing.                                                       *)
(***************************************************************************)
DecodeEnvelopeLines(trial, protobufExtra) ==
  LET mine == {i \in DOMAIN spans : spans[i].trial = trial}
  IN  IF ~protobufExtra /\ \E i \in mine : spans[i].body = "protobuf"
      THEN "OtlpDependencyError" ELSE mine

(***************************************************************************)
(* Nothing leaves the host unmetered: bytes reach an upstream only after a *)
(* line that allows that connection, which is the only line it leaves      *)
(* ("one allow/deny line/request") and says the host, an allowlisted one,  *)
(* and the name the client gave, a tunnel's never being "-"; and the bytes *)
(* arrive unbroken from the first one (the 2026-07-07 pilot: a dead tunnel *)
(* under a healthy "allow").                                               *)
(***************************************************************************)
MeteredEgress ==
  /\ "connect" \in bound => ALLOW \subseteq bound
  /\ \A c \in Conns : conn[c] # Unused /\ conn[c].got # <<>> =>
       /\ conn[c].got \in {SubSeq(Sent, 1, n) : n \in 1..Len(Sent)}
       /\ conn[c].req.host \in ALLOW
       /\ conn[c].req.kind = "connect" => conn[c].req.trial # NoTrial
       /\ \E i \in DOMAIN log :
            /\ {j \in DOMAIN log : log[j].conn = c} = {i}
            /\ log[i].decision = "allow"
            /\ log[i].trial = conn[c].req.trial /\ log[i].host = conn[c].req.host

(***************************************************************************)
(* What the collector acknowledged is in the extraction of its trial and   *)
(* of no other, once; what it refused is in nobody's.                      *)
(***************************************************************************)
SpansAttributed ==
  \A t \in Trials, c \in Conns :
    LET mine == {i \in DecodeEnvelopeLines(t, TRUE) : spans[i].conn = c}
    IN  /\ \A i, j \in mine : i = j
        /\ mine # {} => conn[c].req.trial = t /\ conn[c].status \in {0, 200}
        /\ conn[c] # Unused /\ conn[c].req.kind = "span" =>
             (conn[c].status = 200 /\ conn[c].req.trial = t => mine # {})
=============================================================================
