--------------------------- MODULE InputMonitor ---------------------------
(***************************************************************************)
(* The input of a router's connection in time: the decoder of Framing, the *)
(* input stream that reads no message while the future of the last one is  *)
(* pending (crates/router/src/connection/reader.rs), and the interval      *)
(* timer of Connection::started, which pings a quiet peer and stops the    *)
(* connection of a silent one (crates/router/src/connection.rs).           *)
(*                                                                         *)
(* The timer measures the time since the last message was READ             *)
(* (last_packet), not since something arrived: a message of which only a   *)
(* part is there, and messages that wait behind a call or a push which     *)
(* another connection does not take, do not count.                         *)
(*                                                                         *)
(* Time passes in ticks.  What the router's actor can do it does before    *)
(* the next tick.  The network delivers bytes at its own pace; the time a  *)
(* ping needs to get out, and its answer to come back, is in `asked`.      *)
(* What the timer does to reply_map is in RouterCalls.  A Hello waits for  *)
(* at most 10 s and is like a call here.                                   *)
(***************************************************************************)
EXTENDS Framing

CONSTANTS
    PingInterval,   \* RouterConfig.ping_interval, in ticks
    PingTimeout,    \* RouterConfig.ping_timeout
    ForwardTimeout, \* RouterConfig.forward_timeout
    AnswerTime,     \* time within which a sound peer's answer to a ping is here
    None

\* A round of the timer can miss half an interval, and the next one finds
\* the answer to the ping before it: 10 s and 20 s by default, 2 and 5
\* minutes in the binary, 1 : 4 from GSB_PING_TIMEOUT.
ASSUME TimeAssumption ==
    /\ PingInterval \in Nat \ {0}
    /\ PingTimeout \in Nat
    /\ ForwardTimeout \in Nat
    /\ AnswerTime \in Nat
    /\ 3 * PingInterval <= 2 * PingTimeout
    /\ AnswerTime < PingInterval
    /\ None \notin Nat

VARIABLES
    kind,     \* kind[k]: what message k is
    input,    \* "free", or the kind of the message the input stream waits for
    held,     \* time it has waited; kept until time goes on without a wait
    since,    \* now - Connection.last_packet
    timer,    \* time since the interval timer fired
    stopped,  \* "no", or why the connection was stopped
    quiet,    \* time since bytes arrived, up to PingTimeout + 1
    asked     \* time since the first ping after which no message arrived, or
              \* None; it stays above AnswerTime until the late answer is read

monitor == <<kind, input, held, since, timer, stopped, quiet, asked>>
monVars == <<vars, monitor>>

\* A message is handled at once (a pong, a reply, a registration), or its
\* future waits for another connection: a call with, a push without limit.
Kind == {"quick", "call", "push"}

MonInit ==
    /\ Init
    /\ kind = <<>>
    /\ input = "free"
    /\ held = 0
    /\ since = 0
    /\ timer = 0
    /\ stopped = "no"
    /\ quiet = 0
    /\ asked = None

Runs == stopped = "no"

-----------------------------------------------------------------------------
(* The peer and the network.                                               *)

\* The peer sends a message.
Send(t) ==
    /\ Runs
    /\ Encode
    /\ kind' = Append(kind, t)
    /\ UNCHANGED <<input, held, since, timer, stopped, quiet, asked>>

\* Bytes arrive; the end of a message among them answers a ping.
Receive(upto) ==
    /\ Runs
    /\ Arrive(upto)
    /\ quiet' = 0
    /\ asked' = IF /\ asked # AnswerTime + 1
                   /\ \E k \in 1 .. N : arrived < Offset[k + 1] /\ Offset[k + 1] <= upto
                THEN None ELSE asked
    /\ UNCHANGED <<kind, input, held, since, timer, stopped>>

\* The peer closes the socket.
HangUp ==
    /\ Runs
    /\ stopped' = "closed"
    /\ UNCHANGED <<vars, kind, input, held, since, timer, quiet, asked>>

-----------------------------------------------------------------------------
(* ActorStream::poll and InputHandler::handle.                             *)

\* The stream is polled only when no future is pending.
Polls == Runs /\ input = "free"

ReadHeader ==
    /\ Polls
    /\ DecodeHeader
    /\ UNCHANGED monitor

Touch_Never == since

\* handle sets last_packet, to begin with.
Touch == 0

\* The message that is read, or the decoder's error.
ReadMessage ==
    /\ Polls
    /\ DecodeBody
    /\ since' = Touch
    /\ IF failed'
       THEN stopped' = "error" /\ UNCHANGED <<input, held>>
       ELSE /\ LET t == kind[decoded'[Len(decoded')]]
               IN  input' = IF t = "quick" THEN "free" ELSE t
            /\ held' = 0
            /\ UNCHANGED stopped
    /\ asked' = IF asked = AnswerTime + 1 THEN None ELSE asked
    /\ UNCHANGED <<kind, timer, quiet>>

\* The future of a call or a push is ready: the message was taken or
\* refused or, for a call, forward_timeout is over.
Forwarded ==
    /\ Runs
    /\ input # "free"
    /\ input' = "free"
    /\ UNCHANGED <<vars, kind, held, since, timer, stopped, quiet, asked>>

-----------------------------------------------------------------------------
(* The interval timer.                                                     *)

Quiet_Interval == since > PingInterval

\* since_last > ping_interval / 2
Quiet == 2 * since > PingInterval

Silent_Free == since > PingTimeout /\ input = "free"

\* since_last > ping_timeout
Silent == since > PingTimeout

\* run_interval's closure.
Fire ==
    /\ Runs
    /\ timer = PingInterval
    /\ timer' = 0
    /\ stopped' = IF Quiet /\ Silent THEN "timeout" ELSE "no"
    /\ asked' = IF Quiet /\ ~Silent /\ asked = None THEN 0 ELSE asked
    /\ UNCHANGED <<vars, kind, input, held, since, quiet>>

-----------------------------------------------------------------------------

\* Something is due: the actor acts before time goes on.
Due ==
    \/ timer = PingInterval
    \/ Polls /\ ~failed /\ (HeaderReady \/ BodyReady)
    \/ input = "call" /\ held = ForwardTimeout

AtMost(t, max) == IF t < max THEN t + 1 ELSE max

\* Bound: longer times are not told apart.  The timer stops the connection
\* before since or held gets there (TimeInv).
MaxTime == PingTimeout + PingInterval + 1

Tick ==
    /\ Runs
    /\ ~Due
    /\ since' = AtMost(since, MaxTime)
    /\ timer' = timer + 1
    /\ held' = IF input = "free" THEN 0 ELSE AtMost(held, MaxTime)
    /\ quiet' = AtMost(quiet, PingTimeout + 1)
    /\ asked' = IF asked = None THEN None ELSE AtMost(asked, AnswerTime + 1)
    /\ UNCHANGED <<vars, kind, input, stopped>>

MonNext ==
    \/ \E t \in Kind : Send(t)
    \/ \E upto \in 1 .. Offset[N + 1] : Receive(upto)
    \/ HangUp
    \/ ReadHeader
    \/ ReadMessage
    \/ Forwarded
    \/ Fire
    \/ Tick

MonSpec == MonInit /\ [][MonNext]_monVars

\* Time goes on and the actor is polled.  Nothing is asked of the peer, of
\* the network or of the connection that takes the forwarded message.
MonFairSpec ==
    /\ MonSpec
    /\ WF_monVars(Tick)
    /\ WF_monVars(Fire)
    /\ WF_monVars(ReadHeader)
    /\ WF_monVars(ReadMessage)
    /\ WF_monVars(input = "call" /\ held = ForwardTimeout /\ Forwarded)

-----------------------------------------------------------------------------
(* Properties.                                                             *)

\* Every variable keeps its type.
MonTypeOK ==
    /\ TypeOK
    /\ kind \in Seq(Kind) /\ Len(kind) = sent
    /\ input \in {"free", "call", "push"}
    /\ held \in 0 .. MaxTime
    /\ since \in 0 .. MaxTime
    /\ timer \in 0 .. PingInterval
    /\ stopped \in {"no", "timeout", "error", "closed"}
    /\ quiet \in 0 .. PingTimeout + 1
    /\ asked \in 0 .. AnswerTime + 1 \cup {None}

\* The input waits for another connection, or did so up to this moment, and
\* has for long.
HeldTooLong == held > PingTimeout

\* A message has begun to arrive and is not complete.
Underway ==
    /\ Len(decoded) < N
    /\ Offset[Len(decoded) + 1] < arrived
    /\ arrived < Offset[Len(decoded) + 2]

\* ping_timeout, "after what time a connection without incoming traffic is
\* considered dead": the timer stops a connection only if nothing arrived
\* for so long or arrives at this very moment, or the message that did is
\* not complete, or the router itself did not read for so long because it
\* was forwarding.
OnlySilentIsKilled ==
    stopped = "timeout" =>
        quiet > PingTimeout \/ quiet = 0 \/ Underway \/ HeldTooLong

\* A peer that answers pings in time is never stopped by the timer, however
\* its messages, the rounds of the timer and the waits of its input fall,
\* unless its input was held longer than ping_timeout.
AnsweringIsKept ==
    stopped = "timeout" => asked = AnswerTime + 1 \/ HeldTooLong

\* A message is complete and not read.
Waiting == Len(decoded) < N /\ Offset[Len(decoded) + 2] <= arrived

\* What carries the two properties above from one round of the timer to
\* the next.  A round that does not stop the connection leaves since within
\* PingTimeout.  While the input waits, it has waited since the last message.
\* A complete message stays unread only while the input waits, so without
\* one (or one of this moment) bytes arrived before the last message was
\* read, or belong to the next one.  An unanswered ping is one of the last
\* round, and if that round should have sent one there is an answer.
TimeInv ==
    /\ OnlySilentIsKilled
    /\ AnsweringIsKept
    /\ failed => ~Runs
    /\ Runs => since <= PingTimeout + timer
    /\ Runs /\ input # "free" => held = since
    /\ Runs /\ Waiting => quiet = 0 \/ held = since
    /\ Runs /\ ~Waiting /\ ~Underway => quiet >= since \/ quiet > PingTimeout
    /\ Runs /\ asked \in 0 .. AnswerTime => asked = timer
    /\ Runs /\ asked = None /\ 2 * since > PingInterval + 2 * timer =>
          Waiting /\ (held = since \/ timer <= AnswerTime)

\* A message that has arrived is read, or the connection is stopped: even a
\* push that nobody takes does not block the input for ever.
ArrivedIsRead ==
    \A k \in 1 .. N : (arrived >= Offset[k + 1]) ~> (Len(decoded) >= k \/ ~Runs)
=============================================================================
