--------------------------- MODULE Notifications ---------------------------
(***************************************************************************)
(* Who is told of an envelope that was let through: the streams of         *)
(* GET /api/v1/stream through the inbox (internal/inbox/inbox.go), and the *)
(* applications through their webhooks (internal/webhook/notifier.go).     *)
(*                                                                         *)
(* Envelopes are numbered in the order in which SendEnvelope lets them     *)
(* through.  A webhook runs in a goroutine of its own, under the context   *)
(* of the request that brought the envelope, and may outlive it.           *)
(***************************************************************************)
EXTENDS Naturals, Sequences, FiniteSets

CONSTANTS Streams,      \* clients of GET /api/v1/stream
          HookApps,     \* applications with a webhook_url
          subBufSize,
          MaxEnvelopes  \* the bound on envelopes let through

ASSUME NotificationsAssumption == subBufSize \in Nat \ {0} /\ MaxEnvelopes \in Nat

VARIABLES allowed,  \* the number of envelopes let through
          stream,   \* for each client, its channel, what it was sent, and the number it started after
          missed,   \* for each client, the envelopes that found its channel full
          hook      \* for each envelope and application, where its webhook is, and the answers it got

notificationVars == <<allowed, stream, missed, hook>>

closed == [on |-> FALSE, buf |-> <<>>, sent |-> <<>>, after |-> 0]
notYet == [pc |-> "none", answers |-> <<>>]

\* How a post ends: with a status of 500 or more, or with another status or an error
Answers == {"5xx", "other"}

NotificationsTypeOK ==
  /\ allowed \in 0..MaxEnvelopes
  /\ \A c \in Streams : Len(stream[c].buf) <= subBufSize /\ (~stream[c].on => stream[c] = closed)
  /\ \A e \in 1..MaxEnvelopes, a \in HookApps :
       /\ hook[<<e, a>>].pc \in {"none", "post", "retry", "done"}
       /\ hook[<<e, a>>].pc = "none" <=> e > allowed

NotificationsInit ==
  /\ allowed = 0
  /\ stream = [c \in Streams |-> closed]
  /\ missed = [c \in Streams |-> {}]
  /\ hook = [x \in (1..MaxEnvelopes) \X HookApps |-> notYet]

\* Subscribe, when a client opens the stream
OpenStream(c) ==
  /\ ~stream[c].on
  /\ stream' = [stream EXCEPT ![c] = [closed EXCEPT !.on = TRUE, !.after = allowed]]
  /\ missed' = [missed EXCEPT ![c] = {}]
  /\ UNCHANGED <<allowed, hook>>

\* One round of the handler's loop: an event from the channel is written and flushed
WriteEvent(c) ==
  /\ stream[c].on /\ stream[c].buf # <<>>
  /\ stream' = [stream EXCEPT ![c].buf = Tail(@), ![c].sent = Append(@, Head(stream[c].buf))]
  /\ UNCHANGED <<allowed, missed, hook>>

\* The client goes, which the loop may notice before events in the channel; Unsubscribe
LeaveStream(c) ==
  /\ stream[c].on
  /\ stream' = [stream EXCEPT ![c] = closed]
  /\ missed' = [missed EXCEPT ![c] = {}]
  /\ UNCHANGED <<allowed, hook>>

\* Mutant: a full channel loses its oldest event instead.
offerLatest(buf, e) == IF Len(buf) < subBufSize THEN Append(buf, e) ELSE Append(Tail(buf), e)

\* Publish, for one subscriber: select with an empty default
offer(buf, e) == IF Len(buf) < subBufSize THEN Append(buf, e) ELSE buf

(* SendEnvelope lets an envelope through: onAllow publishes it to all streams
   under the mutex, then NotifyAll starts the webhooks.                       *)
Allow ==
  /\ allowed < MaxEnvelopes
  /\ allowed' = allowed + 1
  /\ stream' = [c \in Streams |-> IF stream[c].on THEN [stream[c] EXCEPT !.buf = offer(@, allowed + 1)]
                                                  ELSE stream[c]]
  /\ missed' = [c \in Streams |-> IF stream[c].on /\ Len(stream[c].buf) = subBufSize
                                  THEN missed[c] \cup {allowed + 1} ELSE missed[c]]
  /\ hook' = [x \in DOMAIN hook |-> IF x[1] = allowed + 1 THEN [notYet EXCEPT !.pc = "post"] ELSE hook[x]]

\* notify: the post, and the one that follows an answer of 500 or more
Post(e, a, r) ==
  /\ hook[<<e, a>>].pc \in {"post", "retry"}
  /\ hook' = [hook EXCEPT ![<<e, a>>] = [pc |-> IF @.pc = "post" /\ r = "5xx" THEN "retry" ELSE "done",
                                     answers |-> Append(@.answers, r)]]
  /\ UNCHANGED <<allowed, stream, missed>>

\* The timeout, which is for both posts together, or the end of the request
\* that brought the envelope, cancels the context: Do fails
CutShort(e, a) ==
  /\ hook[<<e, a>>].pc \in {"post", "retry"}
  /\ hook' = [hook EXCEPT ![<<e, a>>].pc = "done"]
  /\ UNCHANGED <<allowed, stream, missed>>

NotificationsNext ==
  \/ \E c \in Streams : OpenStream(c) \/ WriteEvent(c) \/ LeaveStream(c)
  \/ Allow
  \/ \E e \in 1..allowed, a \in HookApps, r \in Answers : Post(e, a, r)
  \/ \E e \in 1..allowed, a \in HookApps : CutShort(e, a)

NotificationsSpec == NotificationsInit /\ [][NotificationsNext]_notificationVars
-----------------------------------------------------------------------------
increasing(s) == \A i, j \in DOMAIN s : i < j => s[i] < s[j]

\* A stream is complete and in order: what a client was sent and what waits in
\* its channel are, once each and in order, the envelopes let through since it
\* subscribed, except those that found its own channel full.  No other client
\* costs it an event, and it gets none from before.
StreamIsComplete ==
  \A c \in Streams : stream[c].on =>
    LET events == stream[c].sent \o stream[c].buf
    IN  /\ increasing(events)
        /\ {events[i] : i \in DOMAIN events} = ((stream[c].after + 1)..allowed) \ missed[c]

\* An application is sent an envelope at most twice, and a second time only
\* after it answered the first with a server error.
ToldTwiceOnlyAfter5xx ==
  \A x \in DOMAIN hook : Len(hook[x].answers) <= 2 /\ (Len(hook[x].answers) = 2 => hook[x].answers[1] = "5xx")

\* Whoever is told of an envelope is told once, apart from the cases these two name.
ToldOnce == StreamIsComplete /\ ToldTwiceOnlyAfter5xx
=============================================================================
