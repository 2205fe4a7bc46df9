------------------------------- MODULE Session -------------------------------
(***************************************************************************)
(* The page's requests and the pair of tokens they share.  The page has    *)
(* two HTTP clients: an axios instance whose interceptors queue requests   *)
(* behind one refresh, and a fetch client whose middleware shares one      *)
(* promise.  Either renews the pair before it expires, and again when the  *)
(* server answers 401; the websocket service does so too.  They keep no    *)
(* common lock, and the pair lives in the localStorage of the browser.     *)
(*                                                                         *)
(* Clearing the tokens also leads the browser to the sign-in page; the     *)
(* calls must settle without that.                                         *)
(***************************************************************************)
EXTENDS Integers

CONSTANTS AxiosCalls, FetchCalls

\* Each call is made by one of the two clients.
ASSUME ClientsAssumption == AxiosCalls \cap FetchCalls = {}

VARIABLES
  token,         \* the access token in the localStorage; "old" within 5 minutes of its end
  accepted,      \* the server knows the account that the tokens are for
  calls,         \* every call: how far it is, the token in its header, whether it is a retry
  executed,      \* how often the server has done what a call asks for
  isRefreshing,  \* the lock of the axios interceptors
  sharedRefresh, \* the promise of the fetch middleware is pending
  socketRefresh  \* the websocket service is renewing the tokens

sessionVars == <<token, accepted, calls, executed, isRefreshing, sharedRefresh, socketRefresh>>

Calls == AxiosCalls \cup FetchCalls
Held == {"held", "queued"}             \* behind the refresh, before or after a 401
Renewing == {"renewing", "renewing401"}
Progress == {"new", "following", "sent", "done"} \cup Held \cup Renewing

SessionTypeOK ==
  /\ token \in {"none", "good", "old"}
  /\ accepted \in BOOLEAN
  /\ calls \in [Calls -> [at: Progress, bearer: {"none", "good", "old"}, retry: BOOLEAN]]
  /\ executed \in [Calls -> 0..2]
  /\ isRefreshing \in BOOLEAN /\ sharedRefresh \in BOOLEAN /\ socketRefresh \in BOOLEAN

SessionInit ==
  /\ token = "good" /\ accepted = TRUE
  /\ calls = [c \in Calls |-> [at |-> "new", bearer |-> "none", retry |-> FALSE]]
  /\ executed = [c \in Calls |-> 0]
  /\ isRefreshing = FALSE /\ sharedRefresh = FALSE /\ socketRefresh = FALSE
-----------------------------------------------------------------------------
Sent(call, bearer) == [call EXCEPT !.at = "sent", !.bearer = bearer]
At(c, at) == calls' = [calls EXCEPT ![c].at = at]
Waiting(at) == {c \in Calls : calls[c].at \in at}

Rejected(call) == [call EXCEPT !.at = "done"]

\* Slip: the queue is dropped instead of sent again.
ResentToNobody(call) == call

\* A held call is sent by the queue's processing, though its caller is then
\* told an error.
Resent(call) == Sent(call, "good")

\* The queue is emptied, and one call goes on by itself.
AllResent == [d \in Waiting(Held) |-> Resent(calls[d])]
AllRejected == [d \in Waiting(Held) |-> Rejected(calls[d])]
Settle(queue, c, own) ==
  calls' = [d \in Calls |-> IF d = c THEN own ELSE IF d \in DOMAIN queue THEN queue[d] ELSE calls[d]]

\* Calls that have not begun are alike.
NewCall(c, set) == c \in set /\ calls[c].at = "new" /\ c = CHOOSE d \in set : calls[d].at = "new"

\* The request interceptor of axios.
AxiosRequest(c) ==
  /\ NewCall(c, AxiosCalls)
  /\ IF token # "old"
     THEN calls' = [calls EXCEPT ![c] = Sent(@, token)] /\ UNCHANGED isRefreshing
     ELSE IF isRefreshing
     THEN At(c, "held") /\ UNCHANGED isRefreshing
     ELSE At(c, "renewing") /\ isRefreshing' = TRUE
  /\ UNCHANGED <<token, accepted, executed, sharedRefresh, socketRefresh>>

\* The middleware of the fetch client, with ensureValidToken.
FetchRequest(c) ==
  /\ NewCall(c, FetchCalls)
  /\ IF token # "old"
     THEN calls' = [calls EXCEPT ![c] = Sent(@, token)] /\ UNCHANGED sharedRefresh
     ELSE At(c, "following") /\ sharedRefresh' = TRUE
  /\ UNCHANGED <<token, accepted, executed, isRefreshing, socketRefresh>>
-----------------------------------------------------------------------------
(* The server.  An access token is believed until it expires, whatever has  *)
(* become of the account; a call without one may have a cookie.             *)

Execute(c) ==
  /\ calls[c].at = "sent"
  /\ executed' = [executed EXCEPT ![c] = @ + 1]
  /\ At(c, "done")
  /\ UNCHANGED <<token, accepted, isRefreshing, sharedRefresh, socketRefresh>>

\* A 401 to an axios call: the response interceptor.
AxiosUnauthorized(c) ==
  /\ c \in AxiosCalls /\ calls[c].at = "sent" /\ calls[c].bearer # "good"
  /\ IF calls[c].retry
     THEN At(c, "done") /\ UNCHANGED <<token, isRefreshing>>
     ELSE IF isRefreshing
     THEN At(c, "queued") /\ UNCHANGED <<token, isRefreshing>>
     ELSE IF token = "none"
     THEN Settle(AllRejected, c, Rejected(calls[c])) /\ UNCHANGED <<token, isRefreshing>>
     ELSE /\ calls' = [calls EXCEPT ![c].at = "renewing401", ![c].retry = TRUE]
          /\ isRefreshing' = TRUE
          /\ UNCHANGED token
  /\ UNCHANGED <<accepted, executed, sharedRefresh, socketRefresh>>

\* A 401 to a fetch call: it renews by itself, whoever else does, and what it
\* sends then is answered as it is.
FetchUnauthorized(c) ==
  /\ c \in FetchCalls /\ calls[c].at = "sent" /\ calls[c].bearer # "good"
  /\ IF calls[c].retry \/ token = "none"
     THEN At(c, "done")
     ELSE calls' = [calls EXCEPT ![c].at = "renewing401", ![c].retry = TRUE]
  /\ UNCHANGED <<token, accepted, executed, isRefreshing, sharedRefresh, socketRefresh>>
-----------------------------------------------------------------------------
(* Refreshes.  The new pair is stored whatever has happened to the old one. *)

\* The server renews the pair for an account that it knows.
RefreshToken == accepted /\ UNCHANGED accepted
Store(pair) == token' = pair
Renew == RefreshToken /\ Store("good")
ClearAuth == Store("none")

\* The axios queue is sent again, or given up, in the same turn of the event
\* loop that releases the lock.
AxiosRenewed(c) ==
  /\ c \in AxiosCalls /\ calls[c].at \in Renewing
  /\ Renew
  /\ Settle(AllResent, c, Sent(calls[c], "good"))
  /\ isRefreshing' = FALSE
  /\ UNCHANGED <<executed, sharedRefresh, socketRefresh>>

\* Before a request, a failure lets it go with the token it has; after a 401
\* the user is signed out.
AxiosNotRenewed(c) ==
  /\ c \in AxiosCalls /\ calls[c].at \in Renewing
  /\ IF calls[c].at = "renewing"
     THEN Settle(AllRejected, c, Sent(calls[c], "old")) /\ UNCHANGED token
     ELSE Settle(AllRejected, c, Rejected(calls[c])) /\ ClearAuth
  /\ isRefreshing' = FALSE
  /\ UNCHANGED <<accepted, executed, sharedRefresh, socketRefresh>>

FetchRenewed(c) ==
  /\ c \in FetchCalls /\ calls[c].at = "renewing401"
  /\ Renew
  /\ calls' = [calls EXCEPT ![c] = Sent(@, "good")]
  /\ UNCHANGED <<executed, isRefreshing, sharedRefresh, socketRefresh>>

FetchNotRenewed(c) ==
  /\ c \in FetchCalls /\ calls[c].at = "renewing401"
  /\ At(c, "done")
  /\ ClearAuth
  /\ UNCHANGED <<accepted, executed, isRefreshing, sharedRefresh, socketRefresh>>

\* The shared promise: without a new token the calls go without any.
SharedRenewed ==
  /\ sharedRefresh
  /\ sharedRefresh' = FALSE
  /\ Renew
  /\ calls' = [c \in Calls |-> IF calls[c].at = "following" THEN Sent(calls[c], "good") ELSE calls[c]]
  /\ UNCHANGED <<executed, isRefreshing, socketRefresh>>

SharedNotRenewed ==
  /\ sharedRefresh
  /\ sharedRefresh' = FALSE
  /\ calls' = [c \in Calls |-> IF calls[c].at = "following" THEN Sent(calls[c], "none") ELSE calls[c]]
  /\ UNCHANGED <<token, accepted, executed, isRefreshing, socketRefresh>>

\* The websocket service, after a websocket that closed at once.
RefreshForSocket ==
  /\ token # "none" /\ ~socketRefresh
  /\ socketRefresh' = TRUE
  /\ UNCHANGED <<token, accepted, calls, executed, isRefreshing, sharedRefresh>>
SocketRenewed ==
  /\ socketRefresh /\ Renew
  /\ socketRefresh' = FALSE
  /\ UNCHANGED <<calls, executed, isRefreshing, sharedRefresh>>
SocketNotRenewed ==
  /\ socketRefresh
  /\ socketRefresh' = FALSE
  /\ UNCHANGED <<token, accepted, calls, executed, isRefreshing, sharedRefresh>>
-----------------------------------------------------------------------------
SignIn ==
  /\ token = "none" /\ accepted
  /\ Store("good")
  /\ UNCHANGED <<accepted, calls, executed, isRefreshing, sharedRefresh, socketRefresh>>
SignOut ==
  /\ token # "none"
  /\ ClearAuth
  /\ UNCHANGED <<accepted, calls, executed, isRefreshing, sharedRefresh, socketRefresh>>

\* The account is deleted.
Forget ==
  /\ accepted' = FALSE
  /\ UNCHANGED <<token, calls, executed, isRefreshing, sharedRefresh, socketRefresh>>

\* The stored token and the copies of it in the calls come near their end.
Age ==
  /\ token = "good"
  /\ token' = "old"
  /\ calls' = [c \in Calls |-> IF calls[c].bearer = "good" /\ calls[c].at # "done"
                               THEN [calls[c] EXCEPT !.bearer = "old"] ELSE calls[c]]
  /\ UNCHANGED <<accepted, executed, isRefreshing, sharedRefresh, socketRefresh>>

\* A network error loses the call or its answer, and nothing is tried again.
LoseCall(c) ==
  /\ calls[c].at = "sent"
  /\ At(c, "done")
  /\ \E reached \in {0, 1} : executed' = [executed EXCEPT ![c] = @ + reached]
  /\ UNCHANGED <<token, accepted, isRefreshing, sharedRefresh, socketRefresh>>
-----------------------------------------------------------------------------
\* A refresh fails when the account is gone; otherwise only by a fault.
RefreshFails ==
  \/ \E c \in Calls : AxiosNotRenewed(c) \/ FetchNotRenewed(c)
  \/ SharedNotRenewed
  \/ SocketNotRenewed
SessionUser == (\E c \in Calls : AxiosRequest(c) \/ FetchRequest(c)) \/ SignOut
SessionFault == Age \/ (\E c \in Calls : LoseCall(c)) \/ (accepted /\ RefreshFails)

Answer(c) ==
  \/ Execute(c) \/ AxiosUnauthorized(c) \/ FetchUnauthorized(c)
  \/ AxiosRenewed(c) \/ FetchRenewed(c)
  \/ (~accepted /\ (AxiosNotRenewed(c) \/ FetchNotRenewed(c)))
SharedAnswer == SharedRenewed \/ (~accepted /\ SharedNotRenewed)
SocketAnswer == SocketRenewed \/ (~accepted /\ SocketNotRenewed)
SessionStep == (\E c \in Calls : Answer(c)) \/ SharedAnswer \/ SocketAnswer

SessionNext == SessionUser \/ SignIn \/ SessionFault \/ SessionStep \/ Forget \/ RefreshForSocket
SessionSpec == SessionInit /\ [][SessionNext]_sessionVars
-----------------------------------------------------------------------------
\* No call is left behind: as long as one is held in the queue of axios, or
\* waits there after a 401, the lock is taken and exactly one axios call is
\* under way to renew the tokens, which will release them all; and the fetch
\* calls that follow the shared promise do so only while it is pending.
NobodyLeftBehind ==
  /\ Waiting(Held) # {} => isRefreshing
  /\ isRefreshing <=> \E c \in AxiosCalls : calls[c].at \in Renewing
  /\ \A c, d \in AxiosCalls : calls[c].at \in Renewing /\ calls[d].at \in Renewing => c = d
  /\ sharedRefresh <=> Waiting({"following"}) # {}

\* The server does what a call asks for at most once, however many refreshes
\* cross each other and however often a call waits, is queued and sent again.
CallsRunOnce == \A c \in Calls : executed[c] <= 1

\* Every call of the page comes to an end, and the server does what it asks
\* for at most once, however many refreshes cross each other, whoever signs
\* out meanwhile and whether or not the refreshes succeed: no call is left
\* behind in a queue whose refresh is over.
CallsSettle ==
  /\ \A c \in Calls : (calls[c].at # "new") ~> (calls[c].at = "done")
  /\ [](CallsRunOnce /\ NobodyLeftBehind)
=============================================================================
