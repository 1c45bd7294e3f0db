--------------------------- MODULE ZerodhaStream ---------------------------
(***************************************************************************)
(* ZerodhaMarketDataProvider (adapters/zerodha/provider.py): the           *)
(* authenticate / connect / receive / reconnect loop of stream(), and the  *)
(* calls other tasks may make while it awaits the network.  Each action is *)
(* the code from one await or yield to the next; `pc' says where stream()  *)
(* stands.  Every subscription is in one mode; frames are abstracted to    *)
(* whether they carry ticks.                                               *)
(***************************************************************************)
EXTENDS Integers

CONSTANTS
  Tokens,       (* instrument tokens                                        *)
  Limits,       (* what ReconnectPolicy.max_attempts may be: 0 keeps trying *)
  AttemptCap,   (* bound: attempts are counted up to here                   *)
  MaxTime,      (* bound on the clock                                       *)
  Calls         (* what other tasks do while stream() awaits: a subset of   *)
                (* {"unsubscribe", "disconnect"}                            *)

ASSUME StreamAssumption ==
  /\ Limits \subseteq Nat
  /\ AttemptCap \in Nat /\ \A limit \in Limits : limit < AttemptCap
  /\ MaxTime \in Nat
  /\ Calls \subseteq {"unsubscribe", "disconnect"}

Never == -1         (* _disconnected_at is None                             *)

VARIABLES
  configured,       (* the client has an api key and an access token        *)
  max_attempts,     (* of the reconnect policy                              *)
  pc,               (* where stream() stands                                *)
  state,            (* _state                                               *)
  running,          (* _running                                             *)
  socket,           (* _socket is not None                                  *)
  tokens,           (* _tokens (and _modes, which follow them)              *)
  attempt,          (* the local counter of stream()                        *)
  disconnected_at,  (* _disconnected_at                                     *)
  sending,          (* the tokens _resubscribe read when it began           *)
  alive,            (* external: the last connection opened still works     *)
  server,           (* external: tokens the broker streams on it            *)
  event,            (* the last event yielded                               *)
  gap,              (* the last gap yielded, as <<started_at, ended_at>>    *)
  now               (* the clock                                            *)

vars == <<configured, max_attempts, pc, state, running, socket, tokens, attempt,
          disconnected_at, sending, alive, server, event, gap, now>>

Init ==
  /\ configured \in BOOLEAN
  /\ max_attempts \in Limits
  /\ pc = "start"
  /\ state = "NOT_CONFIGURED"
  /\ running = FALSE
  /\ socket = FALSE
  /\ tokens = {}
  /\ attempt = 0
  /\ disconnected_at = Never
  /\ sending = {}
  /\ alive = FALSE
  /\ server = {}
  /\ event = "none"
  /\ gap = <<>>
  /\ now = 0

-----------------------------------------------------------------------------
BUG_ShouldRetryOnceMore(n) == max_attempts = 0 \/ n <= max_attempts
BUG_ShouldRetryNotUnlimited(n) == n < max_attempts
should_retry(n) == max_attempts = 0 \/ n < max_attempts

(* One more failed attempt: back off, or give up.                          *)
Failed == attempt' = IF attempt < AttemptCap THEN attempt + 1 ELSE attempt

Stream ==
  /\ pc = "start"
  /\ pc' = "authenticate"
  /\ running' = TRUE
  /\ UNCHANGED <<configured, max_attempts, alive, state, socket, tokens,
                 attempt, disconnected_at, sending, server, event, gap, now>>

(* Every cycle verifies the session before it opens a socket, and says how *)
(* that went.                                                              *)
AuthenticateOk ==
  /\ pc = "authenticate" /\ configured
  /\ state' = "AUTHENTICATED"
  /\ event' = "auth_succeeded"
  /\ pc' = "verified"
  /\ UNCHANGED <<configured, max_attempts, alive, running, socket, tokens,
                 attempt, disconnected_at, sending, server, gap, now>>

BUG_AuthenticateFails ==
  /\ pc = "authenticate"
  /\ state' \in IF configured THEN {"AUTH_FAILED", "DISCONNECTED"} ELSE {"NOT_CONFIGURED"}
  /\ pc' = "verified"
  /\ UNCHANGED <<configured, max_attempts, alive, running, socket, tokens,
                 attempt, disconnected_at, sending, server, event, gap, now>>
AuthenticateFails ==
  /\ pc = "authenticate"
  /\ \/ ~configured /\ state' = "NOT_CONFIGURED" /\ event' = "not_configured"
     \/ configured /\ state' = "AUTH_FAILED" /\ event' = "auth_failed"
     \/ configured /\ state' = "DISCONNECTED" /\ event' = "provider_error"
  /\ pc' = "verified"
  /\ UNCHANGED <<configured, max_attempts, alive, running, socket, tokens,
                 attempt, disconnected_at, sending, server, gap, now>>

(* Missing credentials and a dead session end the stream.                  *)
EndUnauthenticated ==
  /\ pc = "verified" /\ state \in {"NOT_CONFIGURED", "AUTH_FAILED"}
  /\ running' = FALSE
  /\ pc' = "ended"
  /\ UNCHANGED <<configured, max_attempts, alive, state, socket, tokens,
                 attempt, disconnected_at, sending, server, event, gap, now>>

(* The session could not be checked: back off without opening a socket.    *)
BackOff ==
  /\ pc = "verified" /\ state = "DISCONNECTED"
  /\ Failed
  /\ pc' = IF should_retry(attempt') THEN "sleep" ELSE "exhausted"
  /\ UNCHANGED <<configured, max_attempts, alive, state, running, socket,
                 tokens, disconnected_at, sending, server, event, gap, now>>

AnnounceAttempt ==
  /\ pc = "verified" /\ state \notin {"NOT_CONFIGURED", "AUTH_FAILED", "DISCONNECTED"}
  /\ event' = "connect_attempt"
  /\ pc' = "connect"
  /\ UNCHANGED <<configured, max_attempts, alive, state, running, socket,
                 tokens, attempt, disconnected_at, sending, server, gap, now>>

Connect ==
  /\ pc = "connect"
  /\ state' = "CONNECTING"
  /\ pc' = "open"
  /\ UNCHANGED <<configured, max_attempts, alive, running, socket, tokens,
                 attempt, disconnected_at, sending, server, event, gap, now>>

OpenOk ==
  /\ pc = "open"
  /\ socket' = TRUE
  /\ alive' = TRUE
  /\ server' = {}
  /\ state' = "CONNECTED"
  /\ event' = IF attempt > 0 \/ disconnected_at # Never THEN "reconnected" ELSE "connected"
  /\ pc' = "report"
  /\ UNCHANGED <<configured, max_attempts, running, tokens, attempt,
                 disconnected_at, sending, gap, now>>

(* A handshake rejected with 401 or 403.                                   *)
OpenRefused ==
  /\ pc = "open"
  /\ state' = "AUTH_FAILED"
  /\ event' = "auth_failed"
  /\ running' = FALSE
  /\ pc' = "ended"
  /\ UNCHANGED <<configured, max_attempts, alive, socket, tokens, attempt,
                 disconnected_at, sending, server, gap, now>>

OpenUnreachable ==
  /\ pc = "open"
  /\ event' = "provider_error"
  /\ Failed
  /\ IF should_retry(attempt')
     THEN pc' = "sleep" /\ UNCHANGED state
     ELSE pc' = "ended" /\ state' = "STOPPED"
  /\ UNCHANGED <<configured, max_attempts, alive, running, socket, tokens,
                 disconnected_at, sending, server, gap, now>>

(* The gap since the last disconnect, if there was one, ends now.          *)
GapDue == disconnected_at # Never

ReportGap ==
  /\ pc = "report"
  /\ GapDue
  /\ gap' = <<disconnected_at, now>>
  /\ disconnected_at' = Never
  /\ event' = "gap"
  /\ pc' = "restore"
  /\ UNCHANGED <<configured, max_attempts, alive, state, running, socket,
                 tokens, attempt, sending, server, now>>

NoGap ==
  /\ pc = "report"
  /\ ~GapDue
  /\ pc' = "restore"
  /\ event' = "none"
  /\ UNCHANGED <<configured, max_attempts, alive, state, running, socket,
                 tokens, attempt, disconnected_at, sending, server, gap, now>>

(* _resubscribe reads the tokens, then awaits its sends.                   *)
BeginResubscribe ==
  /\ pc = "restore"
  /\ event' = "none"
  /\ sending' = IF socket THEN tokens ELSE {}
  /\ IF tokens = {} THEN pc' = "receive" /\ attempt' = 0
                    ELSE pc' = "resubscribe" /\ UNCHANGED attempt
  /\ UNCHANGED <<configured, max_attempts, alive, state, running, socket,
                 tokens, disconnected_at, server, gap, now>>

BUG_ResubscribeOk ==
  /\ pc = "resubscribe"
  /\ event' = "resubscribed"
  /\ attempt' = 0
  /\ pc' = "receive"
  /\ UNCHANGED <<configured, max_attempts, alive, state, running, socket,
                 tokens, disconnected_at, sending, server, gap, now>>
ResubscribeOk ==
  /\ pc = "resubscribe"
  /\ (socket /\ alive) \/ sending = {}
  /\ server' = server \cup sending
  /\ event' = "resubscribed"
  /\ attempt' = 0
  /\ pc' = "receive"
  /\ UNCHANGED <<configured, max_attempts, alive, state, running, socket,
                 tokens, disconnected_at, sending, gap, now>>

(* A send that fails raises out of stream().                               *)
ResubscribeRaises ==
  /\ pc = "resubscribe"
  /\ sending # {} /\ ~(socket /\ alive)
  /\ pc' = "raised"
  /\ UNCHANGED <<configured, max_attempts, alive, state, running, socket,
                 tokens, attempt, disconnected_at, sending, server, event, gap,
                 now>>

-----------------------------------------------------------------------------
ReceiveTicks ==
  /\ pc = "receive" /\ running /\ alive
  /\ server # {}
  /\ event' = "ticks"
  /\ UNCHANGED <<configured, max_attempts, alive, pc, state, running, socket,
                 tokens, attempt, disconnected_at, sending, server, gap, now>>

(* What a text message, and what a frame without ticks, may be reported as. *)
TextEvents == {"none", "provider_error", "message"}
QuietEvents == {"none", "provider_error", "stale"}

ReceiveOther ==
  /\ pc = "receive" /\ running /\ alive
  /\ event' \in TextEvents \cup QuietEvents
  /\ UNCHANGED <<configured, max_attempts, alive, pc, state, running, socket,
                 tokens, attempt, disconnected_at, sending, server, gap, now>>

(* recv raises: the connection is gone, or disconnect() closed it.         *)
ReceiveFails ==
  /\ pc = "receive" /\ running /\ ~alive
  /\ event' = "disconnected"
  /\ pc' = "dropped"
  /\ UNCHANGED <<configured, max_attempts, alive, state, running, socket,
                 tokens, attempt, disconnected_at, sending, server, gap, now>>

(* The loop of _receive_loop, and then of stream(), sees running cleared.  *)
ReceiveStops ==
  /\ pc = "receive" /\ ~running
  /\ event' \in {"none", "disconnected"}
  /\ pc' = "ended"
  /\ UNCHANGED <<configured, max_attempts, alive, state, running, socket,
                 tokens, attempt, disconnected_at, sending, server, gap, now>>

BUG_DroppedWhen == disconnected_at
DroppedWhen == now

Dropped ==
  /\ pc = "dropped" /\ running
  /\ state' = "DISCONNECTED"
  /\ disconnected_at' = DroppedWhen
  /\ socket' = FALSE
  /\ server' = {}
  /\ event' = "none"
  /\ Failed
  /\ pc' = IF should_retry(attempt') THEN "sleep" ELSE "exhausted"
  /\ UNCHANGED <<configured, max_attempts, alive, running, tokens, sending,
                 gap, now>>

(* disconnect() was called while the consumer handled the event.           *)
DroppedByUs ==
  /\ pc = "dropped" /\ ~running
  /\ pc' = "ended"
  /\ UNCHANGED <<configured, max_attempts, alive, state, running, socket,
                 tokens, attempt, disconnected_at, sending, server, event, gap,
                 now>>

Exhausted ==
  /\ pc = "exhausted"
  /\ event' = "exhausted"
  /\ state' = "STOPPED"
  /\ pc' = "ended"
  /\ UNCHANGED <<configured, max_attempts, alive, running, socket, tokens,
                 attempt, disconnected_at, sending, server, gap, now>>

Wake ==
  /\ pc = "sleep"
  /\ pc' = IF running THEN "authenticate" ELSE "ended"
  /\ event' = "none"
  /\ UNCHANGED <<configured, max_attempts, alive, state, running, socket,
                 tokens, attempt, disconnected_at, sending, server, gap, now>>

-----------------------------------------------------------------------------
(* Other tasks run whenever stream() awaits the network or sleeps, and     *)
(* whenever it has yielded, since its consumer awaits the database.        *)
Awaiting == pc # "left"

(* subscribe() records the token, then sends it if there is a socket; on a *)
(* dead connection the send raises to the caller.                          *)
Subscribe ==
  /\ Awaiting
  /\ \E t \in Tokens \ tokens :
       /\ tokens' = tokens \cup {t}
       /\ server' = IF socket /\ alive THEN server \cup {t} ELSE server
  /\ UNCHANGED <<configured, max_attempts, alive, pc, state, running, socket,
                 attempt, disconnected_at, sending, event, gap, now>>

Unsubscribe ==
  /\ "unsubscribe" \in Calls
  /\ Awaiting
  /\ \E t \in tokens :
       /\ tokens' = tokens \ {t}
       /\ server' = server \ {t}
  /\ UNCHANGED <<configured, max_attempts, alive, pc, state, running, socket,
                 attempt, disconnected_at, sending, event, gap, now>>

(* disconnect(), while stream() awaits or after its consumer has left it.  *)
Disconnect ==
  /\ Awaiting
  /\ "disconnect" \in Calls \/ pc \in {"ended", "raised"}
  /\ state # "STOPPED" \/ running
  /\ running' = FALSE
  /\ socket' = FALSE
  /\ alive' = (alive /\ ~socket)
  /\ server' = IF socket THEN {} ELSE server
  /\ state' = "STOPPED"
  /\ UNCHANGED <<configured, max_attempts, pc, tokens, attempt,
                 disconnected_at, sending, event, gap, now>>

(* The consumer stops iterating after an event and disconnects.            *)
Leave ==
  /\ event # "none"
  /\ pc \notin {"start", "ended", "raised", "left"}
  /\ pc' = "left"
  /\ running' = FALSE
  /\ socket' = FALSE
  /\ alive' = FALSE
  /\ server' = {}
  /\ state' = "STOPPED"
  /\ UNCHANGED <<configured, max_attempts, tokens, attempt, disconnected_at,
                 sending, event, gap, now>>

ConnectionLost ==
  /\ alive /\ Awaiting
  /\ alive' = FALSE
  /\ UNCHANGED <<configured, max_attempts, pc, state, running, socket, tokens,
                 attempt, disconnected_at, sending, server, event, gap, now>>

AdvanceClock ==
  /\ Awaiting /\ now < MaxTime
  /\ now' = now + 1
  /\ UNCHANGED <<configured, max_attempts, alive, pc, state, running, socket,
                 tokens, attempt, disconnected_at, sending, server, event,
                 gap>>

Internal ==
  \/ Stream \/ AuthenticateFails \/ EndUnauthenticated \/ BackOff
  \/ AnnounceAttempt \/ Connect \/ OpenRefused \/ OpenUnreachable \/ ReportGap \/ NoGap \/ BeginResubscribe
  \/ ResubscribeOk \/ ResubscribeRaises \/ ReceiveFails \/ ReceiveStops \/ Dropped
  \/ DroppedByUs \/ Exhausted \/ Wake

Next ==
  \/ Internal \/ AuthenticateOk \/ OpenOk \/ ReceiveTicks \/ ReceiveOther
  \/ Subscribe \/ Unsubscribe \/ Disconnect \/ Leave \/ ConnectionLost \/ AdvanceClock

Spec == Init /\ [][Next]_vars

(* Awaits end and the loop goes on; a session check or a connection that   *)
(* is tried again and again is sometimes answered.                         *)
FairSpec == Spec /\ WF_vars(Internal) /\ SF_vars(AuthenticateOk) /\ SF_vars(OpenOk)

-----------------------------------------------------------------------------
(* What the consumer sees: "a reconnect always produces a recorded gap",   *)
(* before the first tick of the new connection, through every failure of   *)
(* the attempts in between.                                                *)
Contract == INSTANCE FeedContract WITH
  feed <- CASE pc \in {"ended", "raised", "left"} -> "over"
            [] pc = "receive"                     -> "up"
            [] OTHER                              -> "down",
  owed <- disconnected_at # Never \/ pc = "dropped"

KeepsContract == Contract!Spec

(* While a live connection is being read, the broker streams every token   *)
(* the provider claims to be subscribed to, whenever it was subscribed:    *)
(* before the first connection, between two, or during a resubscription.   *)
EverySubscriptionIsLive ==
  (pc = "receive" /\ socket /\ alive) => tokens \subseteq server

(* A stream that ends by itself, nobody having stopped it, says why in its *)
(* last event, whichever await it ends at.                                 *)
EndedStreamExplains ==
  [][(running /\ pc # "ended" /\ pc' = "ended") =>
       event' \in {"not_configured", "auth_failed", "exhausted", "provider_error"}]_vars

(* max_attempts failures in a row, and no more, end the stream.            *)
GivesUpInTime ==
  max_attempts > 0 => /\ attempt <= max_attempts
                      /\ pc = "sleep" => attempt < max_attempts

(* Without a limit on attempts a lost connection is restored, however      *)
(* often the network fails meanwhile, unless the session died or somebody  *)
(* stopped the stream.                                                     *)
Recovers ==
  (pc = "dropped" /\ max_attempts = 0) ~> (pc \in {"receive", "raised", "left"} \/ ~running)

(* "It never terminates silently: the final event explains why" (stream).  *)
NeverEndsSilently ==
  pc = "raised" => event \in {"provider_error", "auth_failed", "exhausted", "disconnected"}
=============================================================================
