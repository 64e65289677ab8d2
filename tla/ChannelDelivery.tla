---------------------------- MODULE ChannelDelivery ----------------------------
(***************************************************************************)
(* Sending one incident event to the channels of an organization without   *)
(* the outbox: Service.send of internal/notifications/webhook.go, which    *)
(* starts one goroutine per enabled channel and waits for all of them.     *)
(* And the outcome the providers of the outbox report for an answer of     *)
(* the receiver (sms.go, slack.go, push.go, WebhookProvider).              *)
(*                                                                         *)
(* A receiver may process a request and its answer be lost.  All channels  *)
(* of one event share the context of the caller, which ends after          *)
(* notificationTimeout (monitoring.go) whatever has been done by then.     *)
(* Payloads, headers and signatures are left out.  Settings read from the  *)
(* store have their secrets replaced (redactedJSON), here as there.        *)
(***************************************************************************)
EXTENDS Naturals, Sequences

CONSTANTS
  Receivers,     \* the channels
  MaxRetries,    \* Options.MaxRetries: attempts after the first
  Statuses       \* HTTP status codes a receiver may answer with

ASSUME DeliveryAssumption == MaxRetries \in Nat /\ Statuses \subseteq Nat

Failures == {"timed out", "cancelled", "refused"}

StatusAnswer(code) == [kind |-> "status", code |-> code]
NoAnswer(kind) == [kind |-> kind, code |-> 0]

Answers == {StatusAnswer(code) : code \in Statuses} \union {NoAnswer(f) : f \in Failures}

Is2xx(answer) == answer.kind = "status" /\ answer.code >= 200 /\ answer.code < 300

\* Worth another attempt, of a status code alone.
Temporary(code) == code = 429 \/ code >= 500

------------------------------------------------------------------------------
(* One attempt. *)

Outcome(accepted, retryable, contacted) ==
  [accepted |-> accepted, retryable |-> retryable, contacted |-> contacted]

Misconfigured == Outcome(FALSE, FALSE, FALSE)

\* postOnce: every transport error but a cancelled context may be retried.
PostOnce(answer) ==
  Outcome(Is2xx(answer),
          IF answer.kind = "status" THEN Temporary(answer.code) ELSE answer.kind # "cancelled",
          TRUE)

\* deliveryFromStatus.
DeliveryFromStatus(answer) == Outcome(Is2xx(answer), Temporary(answer.code), TRUE)

\* The providers of the outbox; "complete" says that the settings they need are
\* there.
TwilioSend(complete, answer) ==
  IF ~complete THEN Misconfigured
  ELSE IF answer.kind # "status" THEN Outcome(FALSE, TRUE, TRUE)
  ELSE DeliveryFromStatus(answer)

SNSSend(complete, answer) ==
  IF ~complete THEN Misconfigured
  ELSE IF answer.kind # "status" THEN Outcome(FALSE, TRUE, TRUE)
  ELSE DeliveryFromStatus(answer)

SlackSend(complete, answer) ==
  IF ~complete THEN Misconfigured
  ELSE Outcome(Is2xx(answer), answer.kind # "status" \/ Temporary(answer.code), TRUE)

\* Without a registered device there is nothing to send, and that is a success.
PushSend(devices, answer) ==
  IF devices = 0 THEN Outcome(TRUE, FALSE, FALSE)
  ELSE Outcome(Is2xx(answer), answer.kind # "status" \/ Temporary(answer.code), TRUE)

WebhookSend(complete, answer) == IF complete THEN PostOnce(answer) ELSE Misconfigured

------------------------------------------------------------------------------
(* send. *)

\* "webhook" stands for the chat channels as well, which differ in the payload.
Kinds == {"webhook", "telegram", "smtp", "smtp with password", "twilio_sms"}

Posted == {"webhook", "telegram"}

\* stringFromConfig of a key named like a secret gives a mask.
SecretMasked(kind) == kind \in {"telegram", "smtp with password"}

VARIABLES
  channels,   \* kind, enabled, and whether URL or settings pass the first checks
  sending,    \* where the goroutine of a channel is, "accepted" and "failed" before that is logged
  attempt,    \* attempts begun
  received,   \* how many requests the receiver has accepted
  unheard,    \* how many of those answers did not arrive
  outcome,    \* of the last attempt
  contextOver,  \* whether the context of the caller has ended
  unwritten,  \* channels whose entry the database did not take
  eventLog    \* notification_events of a channel

deliveryVars == <<channels, sending, attempt, received, unheard, outcome, contextOver, unwritten, eventLog>>

\* The goroutine has only its entry left to write.
Concludes(ch, success) ==
  /\ sending' = [sending EXCEPT ![ch] = IF success THEN "accepted" ELSE "failed"]
  /\ UNCHANGED <<contextOver, unwritten, eventLog>>

\* LogNotificationEvent, as the last thing the goroutine does: it uses the
\* caller's context, and its error is dropped.
LogNotificationEvent(ch, written) ==
  /\ sending[ch] \in {"accepted", "failed"}
  /\ written => ~contextOver
  /\ eventLog' = IF written THEN [eventLog EXCEPT ![ch] = Append(@, sending[ch] = "accepted")] ELSE eventLog
  /\ unwritten' = IF written \/ contextOver THEN unwritten ELSE unwritten \union {ch}
  /\ sending' = [sending EXCEPT ![ch] = "ended"]
  /\ UNCHANGED <<channels, attempt, received, unheard, outcome, contextOver>>

\* notificationTimeout, or a caller that gives up.
ContextEnds ==
  /\ ~contextOver
  /\ contextOver' = TRUE
  /\ UNCHANGED <<channels, sending, attempt, received, unheard, outcome, unwritten, eventLog>>

StartDelivery(ch) ==
  /\ sending[ch] = "new"
  /\ CASE ~channels[ch].enabled \/ channels[ch].kind = "twilio_sms" ->
            sending' = [sending EXCEPT ![ch] = "ended"] /\ UNCHANGED <<contextOver, unwritten, eventLog>>
       [] channels[ch].enabled /\ channels[ch].kind # "twilio_sms" /\ ~channels[ch].valid ->
            Concludes(ch, FALSE)
       [] OTHER -> sending' = [sending EXCEPT ![ch] = "trying"] /\ UNCHANGED <<contextOver, unwritten, eventLog>>
  /\ UNCHANGED <<channels, attempt, received, unheard, outcome>>

\* What can come back: nobody accepts a masked secret.
PossibleAnswers(kind) == {a \in Answers : SecretMasked(kind) => ~Is2xx(a)}

\* Mutant: one attempt too many.
GoesOnOnceMore(ch, result) == result.retryable /\ attempt[ch] <= MaxRetries

GoesOn(ch, result) == result.retryable /\ attempt[ch] < MaxRetries

\* An iteration of deliver, which does not begin when the context has ended; one
\* that the end of the context cuts short lost its answer just before.
\* "processed": the receiver accepted the request although no answer arrived.
Post(ch, answer, processed) ==
  LET result == PostOnce(answer)
  IN  /\ sending[ch] = "trying" /\ channels[ch].kind \in Posted /\ ~contextOver
      /\ answer \in PossibleAnswers(channels[ch].kind)
      /\ processed => answer.kind # "status" /\ ~SecretMasked(channels[ch].kind)
      /\ outcome' = [outcome EXCEPT ![ch] = result]
      /\ attempt' = [attempt EXCEPT ![ch] = @ + 1]
      /\ received' = [received EXCEPT ![ch] = IF processed \/ result.accepted THEN @ + 1 ELSE @]
      /\ unheard' = [unheard EXCEPT ![ch] = IF processed THEN @ + 1 ELSE @]
      /\ IF ~result.accepted /\ GoesOn(ch, result) THEN UNCHANGED <<sending, contextOver, unwritten, eventLog>>
         ELSE Concludes(ch, result.accepted)
      /\ UNCHANGED channels

\* The deadline of all attempts or the end of the caller's context, found at the
\* head of the loop or during the back-off.
DeadlinePasses(ch) ==
  /\ sending[ch] = "trying" /\ channels[ch].kind \in Posted
  /\ Concludes(ch, FALSE)
  /\ UNCHANGED <<channels, attempt, received, unheard, outcome>>

\* deliverSMTP: one attempt; a timed out one goes on in the background.
Mail(ch, answer, processed) ==
  /\ sending[ch] = "trying" /\ channels[ch].kind \notin Posted
  /\ answer \in PossibleAnswers(channels[ch].kind)
  /\ processed => answer.kind # "status" /\ ~SecretMasked(channels[ch].kind)
  /\ attempt' = [attempt EXCEPT ![ch] = @ + 1]
  /\ received' = [received EXCEPT ![ch] = IF processed \/ Is2xx(answer) THEN @ + 1 ELSE @]
  /\ unheard' = [unheard EXCEPT ![ch] = IF processed THEN @ + 1 ELSE @]
  /\ Concludes(ch, Is2xx(answer))
  /\ UNCHANGED <<channels, outcome>>

DeliveryInit ==
  /\ channels \in [Receivers -> [kind : Kinds, enabled : BOOLEAN, valid : BOOLEAN]]
  /\ sending = [ch \in Receivers |-> "new"]
  /\ attempt = [ch \in Receivers |-> 0]
  /\ received = [ch \in Receivers |-> 0]
  /\ unheard = [ch \in Receivers |-> 0]
  /\ outcome = [ch \in Receivers |-> Misconfigured]
  /\ contextOver = FALSE /\ unwritten = {}
  /\ eventLog = [ch \in Receivers |-> <<>>]

DeliveryNext ==
  \/ ContextEnds
  \/ \E ch \in Receivers :
       \/ StartDelivery(ch) \/ DeadlinePasses(ch)
       \/ \E written \in BOOLEAN : LogNotificationEvent(ch, written)
       \/ \E answer \in Answers, processed \in BOOLEAN :
            Post(ch, answer, processed) \/ Mail(ch, answer, processed)

DeliverySpec == DeliveryInit /\ [][DeliveryNext]_deliveryVars

------------------------------------------------------------------------------
(* Properties. *)

Handled(channel) == channel.enabled /\ channel.kind # "twilio_sms"

\* What the audit trail of a channel says when send is over: at most one entry
\* for an enabled channel of a type send knows and none for another; a success
\* only if the receiver accepted the event and answered, a failure only if no
\* answer said so; and no entry only if the caller's context had ended or the
\* database refused it, for an event is otherwise accounted for.
\* The receiver accepts the event twice only when an answer was lost, never
\* because the loop went on after an accepted attempt; and never at all when the
\* channel needs a secret, which the store gives out masked.
AuditIsTrue ==
  \A ch \in Receivers :
    /\ attempt[ch] <= MaxRetries + 1
    /\ received[ch] <= unheard[ch] + 1
    /\ received[ch] > 0 => channels[ch].valid /\ Handled(channels[ch]) /\ ~SecretMasked(channels[ch].kind)
    /\ sending[ch] # "ended" \/ ~Handled(channels[ch]) => eventLog[ch] = <<>>
    /\ sending[ch] = "ended" /\ Handled(channels[ch]) =>
         IF eventLog[ch] = <<>> THEN contextOver \/ ch \in unwritten
         ELSE Len(eventLog[ch]) = 1 /\ (Head(eventLog[ch]) <=> received[ch] > unheard[ch])

\* The providers of the outbox agree with each other on every answer: accepted
\* on a 2xx, another attempt for a lost answer, 429 and 5xx, and none for other
\* answers or missing settings.  They differ from the webhook provider in one:
\* it does not try again after its context was cancelled.
ProvidersAgree(complete, answer) ==
  LET expected == IF complete
                    THEN Outcome(Is2xx(answer),
                                 answer.kind # "status" \/ Temporary(answer.code), TRUE)
                    ELSE Misconfigured
  IN  /\ TwilioSend(complete, answer) = expected
      /\ SNSSend(complete, answer) = expected
      /\ SlackSend(complete, answer) = expected
      /\ PushSend(IF complete THEN 1 ELSE 0, answer) =
           IF complete THEN expected ELSE Outcome(TRUE, FALSE, FALSE)
      /\ WebhookSend(complete, answer) =
           IF answer.kind = "cancelled" THEN [expected EXCEPT !.retryable = FALSE] ELSE expected
=============================================================================
