------------------------------- MODULE Blind --------------------------------
(***************************************************************************)
(* src/harness/blind/core.py, judge/packet.py, process/packet.py and the   *)
(* packet of forensics/review.py: what may stand in a message to a         *)
(* provider; judge/envelope.py: what becomes of the message. A text is a   *)
(* sequence of fragments, a pattern the set of fragments it matches.       *)
(***************************************************************************)
EXTENDS Integers, Sequences, SequencesExt, FiniteSets, FiniteSetsExt, Folds

CONSTANTS Null,     \* an absent value
          Refused   \* the ValueError of arm_canaries

(***************************************************************************)
(* core.py. Mark is "[REDACTED]": a fragment of its own, which the literal *)
(* of an arm named "red" matches, case being ignored.                      *)
(***************************************************************************)
Mark     == "[REDACTED]"
Literals == [alpha |-> {"alpha"}, beta |-> {"beta"}, red |-> {"red", Mark}, m1 |-> {"m1"}, m2 |-> {"m2"}]
VendorPatterns == <<{"vendor"}>>
SecretPatterns == <<{"key"}>>

Scan(patterns, text)     == {i \in DOMAIN text : \E p \in Range(patterns) : text[i] \in p}
HasAny(patterns, text)   == Scan(patterns, text) # {}
ScrubOne(text, pattern) == [i \in DOMAIN text |-> IF text[i] \in pattern THEN Mark ELSE text[i]]
Scrub(patterns, text)    == FoldLeft(ScrubOne, text, patterns)

(* arm_canaries: names, platforms and models of the arms, each once. An    *)
(* auxiliary entry whose model cannot be read refuses the whole set.       *)
AddLiteral(out, lit) == IF lit = Null \/ lit \in Range(out) THEN out ELSE Append(out, lit)
ArmLiterals(arm)     == <<arm.name, arm.platform, arm.model>> \o arm.aux
ArmCanaries(arms) ==
  IF \E i \in DOMAIN arms : Null \in Range(arms[i].aux) THEN Refused
  ELSE FoldLeft(AddLiteral, <<>>, FlattenSeq([i \in DOMAIN arms |-> ArmLiterals(arms[i])]))

IdentityPatterns(literals) ==
  VendorPatterns \o [i \in DOMAIN literals |-> Literals[literals[i]]]

(***************************************************************************)
(* judge/packet.py. A response is a diff and its holdout results; the hash *)
(* takes the responses in the order of their text: it is the hash of the   *)
(* set of the two. Sha is the hash: its own argument.            *)
(***************************************************************************)
Sha(content) == content
Framing      == "framing_sha256"

BuildPacket(a, b, prompt, rubric) ==
  [prompt |-> prompt, rubric |-> rubric, a |-> a, b |-> b,
   sha |-> Sha(<<prompt, Sha(rubric), {a, b}, Framing>>)]

(* Render: the user message of each order, with the fence around every     *)
(* block an agent wrote.                                                   *)
Fence(packet) == [fence |-> packet.sha]
Fenced(packet, text) == [text |-> text, fence |-> Fence(packet)]
Open(text) == [text |-> text, fence |-> Null]
Render(packet, order) ==
  LET one == IF order = "AB" THEN packet.a ELSE packet.b
      two == IF order = "AB" THEN packet.b ELSE packet.a
  IN  <<Open(packet.prompt), Open(packet.rubric), Fenced(packet, one.diff), Fenced(packet, one.holdouts),
        Fenced(packet, two.diff), Fenced(packet, two.holdouts)>>

Blobs(packet) ==
  {packet.prompt, packet.rubric, packet.a.diff, packet.b.diff, packet.a.holdouts, packet.b.holdouts}
ValidateIdentityFree(packet, canaries) == \A t \in Blobs(packet) : ~HasAny(IdentityPatterns(canaries), t)
ValidateSecretFree_NoHoldouts(packet) ==
  \A t \in {packet.prompt, packet.rubric, packet.a.diff, packet.b.diff} : ~HasAny(SecretPatterns, t)
ValidateSecretFree(packet) == \A t \in Blobs(packet) : ~HasAny(SecretPatterns, t)

(* client.judge_pair: the messages it sends, none if a check refuses.      *)
JudgeSends(packet, canaries, order) ==
  IF ~ValidateIdentityFree(packet, canaries) \/ ~ValidateSecretFree(packet) THEN {} ELSE {Render(packet, order)}

(***************************************************************************)
(* The packets of the process scorer, which is openly unblinded, and of    *)
(* the forensic reviewer: a text, or the reason it was rejected.           *)
(***************************************************************************)
BuildProcessPacket(transcript, rubric, telemetry) ==
  IF HasAny(SecretPatterns, transcript) THEN [rejected |-> "redaction_leak", body |-> <<>>]
  ELSE [rejected |-> Null, body |-> rubric \o transcript]

BuildForensicPacket(transcript, canaries, overBudget) ==
  LET patterns == IdentityPatterns(canaries)
      blinded  == Scrub(patterns, transcript)
  IN  [rejected |-> IF overBudget THEN "context_overflow"
                    ELSE IF HasAny(patterns, blinded) THEN "identity_leak"
                    ELSE IF HasAny(SecretPatterns, blinded) THEN "redaction_leak" ELSE Null,
       body |-> blinded]

(***************************************************************************)
(* judge/envelope.py: the fail-closed sequence around both. A call is a    *)
(* record: `empty` an input of blanks, `rejected` the reason of the packet *)
(* or Null, `over` a payload beyond the window, `model` Null, "unknown" or *)
(* "known", `answer` what the provider did, `parsed` what the parser made  *)
(* of it, Null when it raised.                                             *)
(***************************************************************************)
ProviderFailures == {"timeout", "refusal", "provider_error"}
Reasons == ProviderFailures \cup {"no_transcript", "identity_leak", "redaction_leak", "context_overflow", "parse"}

Cant(reason, sent) == [cant |-> reason, value |-> Null, sent |-> sent]
Scored(value)      == [cant |-> Null, value |-> value, sent |-> TRUE]

ScoredCompletion(call, emptyReason) ==
  CASE call.empty                        -> Cant(emptyReason, FALSE)
    [] ~call.empty /\ call.rejected # Null -> Cant(call.rejected, FALSE)
    [] ~call.empty /\ call.rejected = Null /\ call.over -> Cant("context_overflow", FALSE)
    [] OTHER ->
         IF call.model # "known" THEN Cant("provider_error", FALSE)
         ELSE IF call.answer = "overflow" THEN Cant("context_overflow", TRUE)
         ELSE IF call.answer \in ProviderFailures THEN Cant(call.answer, TRUE)
         ELSE IF call.parsed = Null THEN Cant("parse", TRUE)
         ELSE Scored(call.parsed)

(* PROVIDER_TRANSIENT_REASONS: what a later run tries again.               *)
ProviderTransientReasons == {"timeout", "provider_error", "parse"}

(***************************************************************************)
(* The inputs checked, and what must hold of each.                         *)
(***************************************************************************)
Fragments == {"work", "alpha", "red", "vendor", "key", "m2", Mark}
Texts     == {<<>>} \cup {<<f>> : f \in Fragments} \cup {<<f, g>> : f \in Fragments, g \in {"work", "alpha", "key"}}
Arms(name, aux) ==
  <<[name |-> name, platform |-> Null, model |-> "m1", aux |-> aux],
    [name |-> "beta", platform |-> "alpha", model |-> "m1", aux |-> <<>>]>>
ArmCases == {Arms(n, aux) : n \in {"alpha", "red"}, aux \in {<<>>, <<"m2">>, <<"m2", Null>>}}
Answers  == {[diff |-> <<"work">>, holdouts |-> h] : h \in {<<>>, <<"work", "key">>, <<"alpha">>}}
            \cup {[diff |-> d, holdouts |-> <<"work">>] : d \in {<<"work">>, <<"vendor">>, <<"m2">>}}

BlindCases ==
  [kind : {"text"}, arms : ArmCases, text : Texts, over : BOOLEAN]
  \cup [kind : {"pair"}, arms : ArmCases, a : Answers, b : Answers,
        prompt : {<<"work">>, <<"beta">>, <<"key">>}, rubric : {<<"work">>, <<"red">>}]

Leaks(canaries, text) == HasAny(IdentityPatterns(canaries), text) \/ HasAny(SecretPatterns, text)

(* Whatever reaches a blinded provider is free of every identity of the    *)
(* contestants and of secrets, a scrub changes nothing else, and a packet  *)
(* is rejected for an identity only if the mark itself reads as one.       *)
TextIsBlind(c) ==
  LET canaries == ArmCanaries(c.arms)
      packet   == BuildForensicPacket(c.text, canaries, c.over)
  IN  \/ canaries = Refused
      \/ /\ packet.rejected = Null => ~Leaks(canaries, packet.body)
         /\ \A i \in DOMAIN c.text :
              i \notin Scan(IdentityPatterns(canaries), c.text) => packet.body[i] = c.text[i]
         /\ packet.rejected = "identity_leak" => "red" \in Range(canaries)

(* A packet that is sent leaks nothing in any block; both orders carry the *)
(* same blocks under one hash, and an agent's block is always fenced.      *)
PairIsBlind(c) ==
  LET canaries == ArmCanaries(c.arms)
      packet   == BuildPacket(c.a, c.b, c.prompt, c.rubric)
      ab       == JudgeSends(packet, canaries, "AB")
      ba       == JudgeSends(packet, canaries, "BA")
  IN  \/ canaries = Refused
      \/ /\ (ab = {}) = (ba = {})
         /\ packet.sha = BuildPacket(c.b, c.a, c.prompt, c.rubric).sha
         /\ \A m \in ab, w \in ba :
              /\ \A i \in DOMAIN m : ~Leaks(canaries, m[i].text)
              /\ Range(m) = Range(w)
              /\ m[3] = w[5] /\ m[4] = w[6] /\ m[5] = w[3] /\ m[6] = w[4]
              /\ \A i \in 3..6 : m[i].fence = Fence(packet)

BlindSound(c) == IF c.kind = "text" THEN TextIsBlind(c) ELSE PairIsBlind(c)

=============================================================================
