------------------------------- MODULE Stream --------------------------------
(***************************************************************************)
(* A chat's answer on its way to the chat window.  The request that starts *)
(* a chat returns at once; a background task of the API process publishes  *)
(* the answer in pieces on a channel of the chat's own, the connection     *)
(* manager sends each piece to the websockets subscribed at that moment,   *)
(* and the page's websocket service hands it to the hook behind the        *)
(* window.  Nothing is kept or repeated for a page that is not subscribed. *)
(*                                                                         *)
(* A websocket is opened when the first channel is asked for, shared by    *)
(* chats and by the page that watches a reindex, and opened again after a  *)
(* loss with the channels the page believes it has.                        *)
(***************************************************************************)
EXTENDS Integers, Sequences, FiniteSets

CONSTANTS
  Chats, Jobs,    \* the channels search:{chat} and reindex:{job}
  Sockets,        \* bound: websockets opened in all
  Scripts,        \* the sequences of messages an answer can consist of
  MaxRetries,     \* reconnections tried before the service gives up
  Null

VARIABLES
  stream,      \* what the server has still to publish of every chat
  spoken,      \* the pieces of text published so far
  conns,       \* every websocket: its state and the channels in its URL
  subs,        \* the connection manager's channels of every websocket
  asks,        \* messages to the server on their way, in order
  service,     \* the websocket service of the page
  phase,       \* how far sendMessage has come with every chat
  hook,        \* the state and the refs of useChat
  finished,    \* the chats in the window whose last message has arrived
  blanked,     \* chats whose text a late state update has replaced by ""
  disturbed    \* chats that lost or doubled a message, or met a stray one

streamVars == <<stream, spoken, conns, subs, asks, service, phase, hook,
                finished, blanked, disturbed>>

ASSUME StreamAssumption ==
  /\ MaxRetries \in Nat /\ IsFiniteSet(Sockets)
  /\ Chats \cap Jobs = {} /\ Null \notin Chats \cup Jobs \cup Sockets

Channels == Chats \cup Jobs
Piece == Chats \X Nat
Bubble == [kind: {"user", "text", "pending", "preview", "error"}, of: Chats,
           text: Seq(Piece)]
Connection == [state: {"unused", "opening", "open", "closed"}, channels: SUBSET Channels]
Service == [ws: Sockets \cup {Null}, connecting: Sockets \cup {Null}, waiting: Seq(Channels),
            subscribed: SUBSET Channels, retries: 0..MaxRetries, timer: BOOLEAN]
Hook == [messages: Seq(Bubble), loading: BOOLEAN, streaming: BOOLEAN,
         listening: SUBSET Chats, unsubscribe: Chats \cup {Null},
         request: Chats \cup {Null}, content: Seq(Piece)]
MutationChunks == {"mutation_pending", "mutation_preview", "mutation_error"}

\* What the LLM streams, and what comes of a change that it proposes.
Proposal == {"mutation_preview", "mutation_error"}
Body == {"delta", "mutation_pending"} \cup Proposal
Chunks == {"citations", "delta", "done", "error"} \cup MutationChunks

\* What the task of a chat publishes: the citations first, text and proposed
\* changes in any order, and one message at the end; when the task fails
\* before it asks the LLM it publishes only that.  Of the two LLM clients
\* one announces a proposed change with a pending message, the other does not.
IsAnswer(script) ==
  /\ script \in Seq(Chunks) /\ script # <<>>
  /\ script[Len(script)] \in IF Len(script) = 1 THEN {"error"} ELSE {"done", "error"}
  /\ \A i \in 1 .. Len(script) - 1 : script[i] \in IF i = 1 THEN {"citations"} ELSE Body
ASSUME ScriptAssumption == \A script \in Scripts : IsAnswer(script)

StreamTypeOK ==
  /\ stream \in [Chats -> Seq(Chunks)]
  /\ spoken \in [Chats -> Nat]
  /\ conns \in [Sockets -> Connection]
  /\ subs \in [Sockets -> SUBSET Channels]
  /\ asks \in [Sockets -> Seq({"subscribe", "unsubscribe"} \X Channels)]
  /\ service \in Service
  /\ phase \in [Chats -> {"none", "posting", "connecting", "ended", "listening"}]
  /\ hook \in Hook
  /\ finished \subseteq Chats /\ blanked \subseteq Chats /\ disturbed \subseteq Chats

\* The page makes one service when it is loaded.
NewService == [ws |-> Null, connecting |-> Null, waiting |-> <<>>,
               subscribed |-> {}, retries |-> 0, timer |-> FALSE]

StreamInit ==
  /\ stream = [c \in Chats |-> <<>>]
  /\ spoken = [c \in Chats |-> 0]
  /\ conns = [s \in Sockets |-> [state |-> "unused", channels |-> {}]]
  /\ subs = [s \in Sockets |-> {}]
  /\ asks = [s \in Sockets |-> <<>>]
  /\ service = NewService
  /\ phase = [c \in Chats |-> "none"]
  /\ hook = [messages |-> <<>>, loading |-> FALSE, streaming |-> FALSE, listening |-> {},
             unsubscribe |-> Null, request |-> Null, content |-> <<>>]
  /\ finished = {} /\ blanked = {} /\ disturbed = {}
-----------------------------------------------------------------------------
(* The hook's handler of a message.  React runs the function given to       *)
(* setMessages at once when the component has no update waiting, and        *)
(* otherwise when it renders, after the handler has emptied the refs that   *)
(* the function reads: "prompt" says which.                                 *)

IsAssistant(messages) == messages # <<>> /\ messages[Len(messages)].kind # "user"

Finalize(h, prompt) ==
  IF ~IsAssistant(h.messages) THEN h.messages
  ELSE [h.messages EXCEPT ![Len(h.messages)].text = IF prompt THEN h.content ELSE <<>>]

\* The last bubble shows what has come so far.
Show(h, content) ==
  [h EXCEPT !.content = content,
            !.messages = IF IsAssistant(@) THEN [@ EXCEPT ![Len(@)].text = content] ELSE @]
Delta(h, c) == Show(h, Append(h.content, <<c, spoken[c] + 1>>))

MutationPending(h, c, prompt) ==
  LET first == IF h.content = <<>> THEN h
               ELSE [h EXCEPT !.messages = Finalize(h, prompt), !.content = <<>>]
  IN [first EXCEPT !.messages = Append(@, [kind |-> "pending", of |-> c, text |-> <<>>])]

Pending(h) == {i \in DOMAIN h.messages : h.messages[i].kind = "pending"}

\* The latest of the pending bubbles becomes what has come of the change, and
\* where there is none a bubble is added.
Replace(h, c, pending, kind) ==
  IF pending = {}
  THEN [h EXCEPT !.messages = Append(@, [kind |-> kind, of |-> c, text |-> <<>>])]
  ELSE [h EXCEPT !.messages[CHOOSE i \in pending : \A j \in pending : j <= i].kind = kind]

\* A preview looks for the tool call that it belongs to, an error does not.
MutationPreview(h, c) == Replace(h, c, {i \in Pending(h) : h.messages[i].of = c}, "preview")
MutationError(h, c) == Replace(h, c, Pending(h), "error")

Done(h, prompt) ==
  [h EXCEPT !.messages = Finalize(h, prompt), !.streaming = FALSE, !.content = <<>>]

\* The citations are published as a piece of text whose data holds none: what
\* the service hands on is an empty piece.  The message that would fill the
\* citations of the hook is never sent, so these are left out.
HandleChunk(h, c, chunk, prompt) ==
  CASE chunk = "citations"        -> Show(h, h.content)
    [] chunk = "delta"            -> Delta(h, c)
    [] chunk = "mutation_pending" -> MutationPending(h, c, prompt)
    [] chunk = "mutation_preview" -> MutationPreview(h, c)
    [] chunk = "mutation_error"   -> MutationError(h, c)
    [] chunk = "done"             -> Done(h, prompt)
    [] chunk = "error"            -> [h EXCEPT !.streaming = FALSE]
-----------------------------------------------------------------------------
(* The websocket service. *)

IsOpen == service.ws # Null /\ conns[service.ws].state = "open"
Unused == {s \in Sockets : conns[s].state = "unused"}
NewSocket == CHOOSE s \in Unused : TRUE
Channel(verb, channels) == [i \in 1..Len(channels) |-> <<verb, channels[i]>>]

\* A new websocket, and what waits for it to open.
Open(srv, channels, waiting) ==
  /\ Unused # {}
  /\ conns' = [conns EXCEPT ![NewSocket] = [state |-> "opening", channels |-> channels]]
  /\ service' = [srv EXCEPT !.ws = NewSocket, !.connecting = NewSocket, !.waiting = waiting]
  /\ UNCHANGED asks

\* connectToSearch and connectToReindex: "ready" when they return at once.
Connect(channel, ready) ==
  IF channel \in service.subscribed
  THEN ready /\ UNCHANGED <<conns, service, asks>>
  ELSE IF IsOpen
  THEN /\ ready
       /\ asks' = [asks EXCEPT ![service.ws] = Append(@, <<"subscribe", channel>>)]
       /\ UNCHANGED <<conns, service>>
  ELSE IF service.connecting # Null
  THEN /\ ~ready
       /\ service' = [service EXCEPT !.waiting = Append(@, channel)]
       /\ UNCHANGED <<conns, asks>>
  ELSE ~ready /\ Open(service, {channel}, <<channel>>)

\* The members of a sequence that are in a set, in their order.
Among(s, set) ==
  LET at == {i \in DOMAIN s : s[i] \in set}
      Nth(n) == CHOOSE i \in at : Cardinality({j \in at : j <= i}) = n
  IN [n \in 1..Cardinality(at) |-> s[Nth(n)]]

WaitingChats == {c \in Chats : \E i \in DOMAIN service.waiting : service.waiting[i] = c}

\* The timer of a reconnection: nothing is left to do when the page has a
\* websocket, or is about to have one.
Reconnect ==
  /\ service.timer
  /\ IF IsOpen \/ service.connecting # Null
     THEN service' = [service EXCEPT !.timer = FALSE] /\ UNCHANGED <<conns, asks>>
     ELSE Open([service EXCEPT !.timer = FALSE], service.subscribed, <<>>)
  /\ UNCHANGED <<stream, spoken, subs, phase, hook, finished, blanked, disturbed>>

\* Slip: the retries are not limited.
ClosingForever(srv) == [srv EXCEPT !.ws = Null, !.timer = TRUE, !.retries = @ + 1]

\* A websocket that closes empties the service's reference, whichever it is.
Closing(srv) ==
  [srv EXCEPT !.ws = Null, !.timer = @ \/ srv.retries < MaxRetries,
              !.retries = IF @ < MaxRetries THEN @ + 1 ELSE @]
-----------------------------------------------------------------------------
(* sendMessage. *)

\* The chats whose callback is registered, the last of them to be undone by
\* the next message or by closing the window.
RegisterCallbacks(h, chats) ==
  IF chats = <<>> THEN h
  ELSE [h EXCEPT !.listening = @ \cup {chats[i] : i \in DOMAIN chats},
                 !.unsubscribe = chats[Len(chats)], !.loading = FALSE, !.streaming = TRUE]
Moved(chats, to) == [c \in Chats |-> IF c \in chats THEN to ELSE phase[c]]

Active(c) == phase[c] \in {"posting", "connecting"} \/ (c \in hook.listening /\ stream[c] # <<>>)

\* A chat that was under way when the window was closed goes on unseen, and
\* writes into the window when its callback is registered.
Stray(c) == Active(c) /\ \A i \in DOMAIN hook.messages : hook.messages[i].of # c
Mixed(chats) == {c \in chats : Stray(c)}

\* Slip: the text of an earlier chat is left in the ref.
FreshHookKeepingText(h, c) ==
  [h EXCEPT !.listening = @ \ {h.unsubscribe}, !.unsubscribe = Null, !.loading = TRUE,
            !.messages = @ \o <<[kind |-> "user", of |-> c, text |-> <<>>],
                                [kind |-> "text", of |-> c, text |-> <<>>]>>]

FreshHook(h, c) ==
  [h EXCEPT !.listening = @ \ {h.unsubscribe}, !.unsubscribe = Null, !.loading = TRUE,
            !.content = <<>>,
            !.messages = @ \o <<[kind |-> "user", of |-> c, text |-> <<>>],
                                [kind |-> "text", of |-> c, text |-> <<>>]>>]

NewChat == CHOOSE c \in Chats : phase[c] = "none"

SendMessage(c) ==
  /\ phase[c] = "none" /\ c = NewChat
  /\ ~hook.loading /\ ~hook.streaming
  /\ hook' = FreshHook(hook, c)
  /\ phase' = [phase EXCEPT ![c] = "posting"]
  /\ disturbed' = IF \E d \in Chats : Active(d) THEN disturbed \cup {c} \cup {d \in Chats : Active(d)}
                  ELSE disturbed
  /\ UNCHANGED <<stream, spoken, conns, subs, asks, service, finished, blanked>>

\* The request fails, or the websocket does: every chat that fails takes a
\* bubble back, which is to be its placeholder.
GiveUp(h, chats) ==
  [h EXCEPT !.loading = FALSE, !.streaming = FALSE,
            !.messages = SubSeq(@, 1, Len(@) - Cardinality(chats))]

\* No LLM is configured, or the organization is gone.
ChatRefused(c) ==
  /\ phase[c] = "posting"
  /\ phase' = [phase EXCEPT ![c] = "ended"]
  /\ hook' = GiveUp(hook, {c})
  /\ UNCHANGED <<stream, spoken, conns, subs, asks, service, finished, blanked, disturbed>>

\* The task that will publish the answer is started, and the page turns to
\* the websocket.
ChatStarted(c) ==
  /\ phase[c] = "posting"
  /\ \E script \in Scripts : stream' = [stream EXCEPT ![c] = script]
  /\ \E ready \in BOOLEAN :
       /\ Connect(c, ready)
       /\ phase' = [phase EXCEPT ![c] = IF ready THEN "listening" ELSE "connecting"]
       /\ hook' = [IF ready THEN RegisterCallbacks(hook, <<c>>) ELSE hook EXCEPT !.request = c]
       /\ disturbed' = IF ready THEN disturbed \cup Mixed({c}) ELSE disturbed
  /\ UNCHANGED <<spoken, subs, finished, blanked>>

\* No channel is Null when the hook knows of no request.
Unsubscribe(channel) ==
  /\ service' = [service EXCEPT !.subscribed = @ \ {channel}]
  /\ asks' = IF IsOpen /\ channel # Null
             THEN [asks EXCEPT ![service.ws] = Append(@, <<"unsubscribe", channel>>)] ELSE asks

WatchReindex(j) ==
  /\ \E ready \in BOOLEAN : Connect(j, ready)
  /\ UNCHANGED <<stream, spoken, subs, phase, hook, finished, blanked, disturbed>>

\* The window is closed: what it shows is dropped, and the channel of the
\* request the hook knows of is given up.
CloseWindow ==
  /\ hook.messages # <<>>
  /\ hook' = [messages |-> <<>>, loading |-> FALSE, streaming |-> FALSE,
              listening |-> hook.listening \ {hook.unsubscribe}, unsubscribe |-> Null,
              request |-> Null, content |-> <<>>]
  /\ Unsubscribe(hook.request)
  /\ finished' = {} /\ blanked' = {}
  /\ UNCHANGED <<stream, spoken, conns, subs, phase, disturbed>>
-----------------------------------------------------------------------------
(* The server. *)

\* The connection manager's record of a websocket.
Registered(s) == [subs EXCEPT ![s] = conns[s].channels]
Subscribed(s, ch) == [subs EXCEPT ![s] = @ \cup {ch}]
Unsubscribed(s, ch) == [subs EXCEPT ![s] = @ \ {ch}]

\* A websocket is accepted with the channels of its URL; the page believes
\* it has them, and whoever waited for this websocket goes on.
Accept(s) ==
  LET known == service.subscribed \cup conns[s].channels
      mine  == service.connecting = s
      more  == Among(service.waiting, Channels \ known)
      chats == IF mine THEN WaitingChats ELSE {}
  IN /\ conns[s].state = "opening"
     /\ conns' = [conns EXCEPT ![s].state = "open"]
     /\ subs' = Registered(s)
     /\ service' = [service EXCEPT !.retries = 0, !.subscribed = known,
                      !.connecting = IF mine THEN Null ELSE @,
                      !.waiting = IF mine THEN <<>> ELSE @]
     /\ asks' = IF mine THEN [asks EXCEPT ![s] = Channel("subscribe", more)] ELSE asks
     /\ hook' = RegisterCallbacks(hook, IF mine THEN Among(service.waiting, Chats) ELSE <<>>)
     /\ phase' = Moved(chats, "listening")
     /\ disturbed' = disturbed \cup Mixed(chats)
     /\ UNCHANGED <<stream, spoken, finished, blanked>>

\* The receive loop takes one message of the page and confirms it.
Receive(s) ==
  /\ conns[s].state = "open" /\ asks[s] # <<>>
  /\ LET verb == Head(asks[s])[1]
         ch == Head(asks[s])[2]
     IN IF verb = "subscribe"
        THEN /\ subs' = Subscribed(s, ch)
             /\ service' = [service EXCEPT !.subscribed = @ \cup {ch}]
        ELSE /\ subs' = Unsubscribed(s, ch)
             /\ service' = [service EXCEPT !.subscribed = @ \ {ch}]
  /\ asks' = [asks EXCEPT ![s] = Tail(@)]
  /\ UNCHANGED <<stream, spoken, conns, phase, hook, finished, blanked, disturbed>>

Subscribers(c) == {s \in Sockets : conns[s].state = "open" /\ c \in subs[s]}

\* What a late update loses: the ref is emptied before it reads it.
Kept == hook.content # <<>>

\* The next message of an answer reaches the websockets subscribed now; the
\* hook takes it from each of them.
Publish(c) ==
  LET chunk == Head(stream[c])
      once(h, prompt) == IF c \in h.listening THEN HandleChunk(h, c, chunk, prompt) ELSE h
      n == Cardinality(Subscribers(c))
  IN /\ stream[c] # <<>>
     /\ stream' = [stream EXCEPT ![c] = Tail(@)]
     /\ spoken' = IF chunk = "delta" THEN [spoken EXCEPT ![c] = @ + 1] ELSE spoken
     /\ disturbed' = IF n = 1 THEN disturbed ELSE disturbed \cup {c}
     /\ \E prompt \in IF chunk \in {"done", "mutation_pending"} THEN BOOLEAN ELSE {TRUE} :
          /\ hook' = CASE n = 0 -> hook
                       [] n = 1 -> once(hook, prompt)
                       [] n > 1 -> once(once(hook, prompt), prompt)
          /\ blanked' = IF ~prompt /\ n > 0 /\ c \in hook.listening /\ Kept
                        THEN blanked \cup {c} ELSE blanked
     /\ finished' = IF chunk = "done" /\ n > 0 /\ c \in hook.listening THEN finished \cup {c} ELSE finished
     /\ UNCHANGED <<conns, subs, asks, service, phase>>
-----------------------------------------------------------------------------
(* What can go wrong. *)

\* Redis drops a message, or it is lost with the connection that carried it.
LoseMessage(c) ==
  /\ stream[c] # <<>>
  /\ stream' = [stream EXCEPT ![c] = Tail(@)]
  /\ spoken' = IF Head(stream[c]) = "delta" THEN [spoken EXCEPT ![c] = @ + 1] ELSE spoken
  /\ disturbed' = disturbed \cup {c}
  /\ UNCHANGED <<conns, subs, asks, service, phase, hook, finished, blanked>>

\* Everyone who waited for a websocket is told that it failed.
Abandon ==
  /\ phase' = Moved(WaitingChats, "ended")
  /\ hook' = IF WaitingChats = {} THEN hook ELSE GiveUp(hook, WaitingChats)
Unconnected == [service EXCEPT !.ws = Null, !.connecting = Null, !.waiting = <<>>]

\* A websocket is refused: the service tries again, the callers do not.
Refuse(s) ==
  /\ conns[s].state = "opening"
  /\ conns' = [conns EXCEPT ![s].state = "closed"]
  /\ IF service.connecting = s
     THEN service' = Closing(Unconnected) /\ Abandon
     ELSE service' = Closing(service) /\ UNCHANGED <<phase, hook>>
  /\ UNCHANGED <<stream, spoken, subs, asks, finished, blanked, disturbed>>

\* After ten seconds the callers are told that it failed; the websocket is
\* left behind with its handlers and may still open.
TimeOut(s) ==
  /\ service.connecting = s
  /\ service' = Unconnected
  /\ Abandon
  /\ UNCHANGED <<stream, spoken, conns, subs, asks, finished, blanked, disturbed>>

Lost(sockets) ==
  /\ conns' = [s \in Sockets |-> IF s \in sockets THEN [conns[s] EXCEPT !.state = "closed"] ELSE conns[s]]
  /\ subs' = [s \in Sockets |-> IF s \in sockets THEN {} ELSE subs[s]]
  /\ asks' = [s \in Sockets |-> IF s \in sockets THEN <<>> ELSE asks[s]]
  /\ service' = IF sockets = {} THEN service ELSE Closing(service)

LoseConnection(s) ==
  /\ conns[s].state = "open"
  /\ Lost({s})
  /\ UNCHANGED <<stream, spoken, phase, hook, finished, blanked, disturbed>>

\* The process dies with its tasks and its connections.
StopStreams ==
  /\ stream' = [c \in Chats |-> <<>>]
  /\ Lost({s \in Sockets : conns[s].state = "open"})
  /\ UNCHANGED <<spoken, phase, hook, finished, blanked, disturbed>>
-----------------------------------------------------------------------------
StreamUser == (\E c \in Chats : SendMessage(c)) \/ (\E j \in Jobs : WatchReindex(j)) \/ CloseWindow
StreamFault ==
  \/ \E c \in Chats : LoseMessage(c)
  \/ \E s \in Sockets : TimeOut(s) \/ LoseConnection(s)
StreamStep ==
  \/ \E c \in Chats : ChatRefused(c) \/ ChatStarted(c) \/ Publish(c)
  \/ \E s \in Sockets : Accept(s) \/ Receive(s)
StreamNext ==
  StreamUser \/ StreamFault \/ StreamStep \/ Reconnect \/ StopStreams \/ \E s \in Sockets : Refuse(s)
StreamSpec == StreamInit /\ [][StreamNext]_streamVars
-----------------------------------------------------------------------------
(* What the window shows of a chat.  Its text may be spread over several    *)
(* bubbles: after a proposed change it goes on in the bubble of that, and   *)
(* when the change was not announced it is repeated there from the start.   *)

Shown(c) == {hook.messages[i] : i \in {j \in DOMAIN hook.messages : hook.messages[j].of = c}}
Start(text) == text[1][2]

\* Consecutive pieces of this chat, and of no other.
InOrder(c, text) == \A n \in DOMAIN text : text[n] = <<c, Start(text) + n - 1>>

\* One text goes on after the other, or repeats it as far as that went.
Follows(later, text) ==
  \/ Start(text) + Len(text) <= Start(later)
  \/ Start(text) = Start(later) /\ Len(text) <= Len(later)

BubblesFollow(c) ==
  \A i, j \in DOMAIN hook.messages :
    LET m == hook.messages[i]
        n == hook.messages[j]
    IN i < j /\ m.of = c /\ n.of = c /\ m.text # <<>> /\ n.text # <<>> => Follows(n.text, m.text)

\* Nothing that was published is missing.
Complete(c) ==
  \A k \in 1..spoken[c] : \E m \in Shown(c) : \E n \in DOMAIN m.text : m.text[n] = <<c, k>>

\* When the window says that an answer is complete, the bubbles of the chat
\* hold the text that was published for it, all of it and in order, and keep
\* it while later chats are held: no piece of another chat, of a failed one or
\* of a closed window gets into them, and no failure of another takes one of
\* them away.  Excused are answers that lost or
\* doubled a message on the way and those whose window was closed under them;
\* what React has blanked may be incomplete, but not out of order.
FinishedIsWhole ==
  \A c \in finished \ disturbed :
    /\ \A m \in Shown(c) : InOrder(c, m.text)
    /\ BubblesFollow(c)
    /\ c \in blanked \/ Complete(c)
=============================================================================
