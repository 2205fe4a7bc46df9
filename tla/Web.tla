--------------------------------- MODULE Web ---------------------------------
(***************************************************************************)
(* The API process and a page that uses it: accounts and credentials, the  *)
(* page's session, its exports and its chats.  They meet where an account  *)
(* is deleted (its exports go, its tokens are not renewed), where a        *)
(* websocket that is refused makes the page renew its tokens, and where    *)
(* the process is restarted.                                               *)
(***************************************************************************)
EXTENDS Exports, Stream, Session, Accounts

CONSTANTS
  Me,         \* the account that is signed in on the page
  OwnerOf,    \* the account that asks for each export
  MaxStarts,  \* bound: things that users start
  MaxFaults   \* bound: things that go wrong

ASSUME BoundsAssumption == MaxStarts \in Nat /\ MaxFaults \in Nat

VARIABLES starts, faults

webVars == <<exportVars, streamVars, sessionVars, accountVars, starts, faults>>

Init ==
  /\ ExportsInit /\ StreamInit /\ SessionInit /\ AccountsInit
  /\ starts = 0 /\ faults = 0

Counted == starts < MaxStarts /\ starts' = starts + 1 /\ UNCHANGED faults
Failing == faults < MaxFaults /\ faults' = faults + 1 /\ UNCHANGED starts
Uncounted == UNCHANGED <<starts, faults>>

OnlyExports == UNCHANGED <<streamVars, sessionVars, accountVars>>
OnlyStream == UNCHANGED <<exportVars, sessionVars, accountVars>>
OnlySession == UNCHANGED <<exportVars, streamVars, accountVars>>
OnlyAccounts == UNCHANGED <<exportVars, streamVars, sessionVars>>
-----------------------------------------------------------------------------
\* Nothing is asked for before there is an account to ask for it.
UserNext ==
  /\ Counted
  /\ \/ Me \in Present /\ ExportsUser /\ OnlyExports
     \/ Me \in Present /\ StreamUser /\ OnlyStream
     \/ Me \in Present /\ (SessionUser \/ SignIn) /\ OnlySession
     \/ AccountsUser /\ OnlyAccounts

RemoveUser(a) ==
  /\ Counted
  /\ RemoveAccount(a)
  /\ RemoveExports({e \in ExportIds : OwnerOf[e] = a})
  /\ IF a = Me THEN Forget ELSE UNCHANGED sessionVars
  /\ UNCHANGED streamVars

FaultNext ==
  /\ Failing
  /\ \/ ExportsFault /\ OnlyExports
     \/ StreamFault /\ OnlyStream
     \/ SessionFault /\ OnlySession

\* A websocket refused within two seconds may be refused for its token: the
\* page renews its tokens before it tries again.
RefuseSocket(s) ==
  /\ Failing
  /\ Refuse(s)
  /\ (service.retries = 0 /\ RefreshForSocket) \/ UNCHANGED sessionVars
  /\ UNCHANGED <<exportVars, accountVars>>
ReconnectSocket ==
  /\ ~socketRefresh
  /\ Reconnect
  /\ OnlyStream /\ Uncounted

\* The page's own calls that are lost with the process are faults of Session.
Restart ==
  /\ Failing
  /\ StopExports /\ StopStreams /\ StopAccounts
  /\ UNCHANGED sessionVars

StepNext ==
  /\ Uncounted
  /\ \/ ExportsStep /\ OnlyExports
     \/ StreamStep /\ OnlyStream
     \/ SessionStep /\ OnlySession
     \/ AccountsStep /\ OnlyAccounts

Next ==
  \/ UserNext \/ (\E a \in AccountIds : RemoveUser(a))
  \/ FaultNext \/ (\E s \in Sockets : RefuseSocket(s)) \/ Restart
  \/ StepNext \/ ReconnectSocket

\* A background task goes on, and every call of the page is answered or fails.
RunExport(e) == ExportTask(e) /\ OnlyExports /\ Uncounted
AnswerCall(c) == Answer(c) /\ OnlySession /\ Uncounted
AnswerShared == SharedAnswer /\ OnlySession /\ Uncounted
Spec ==
  /\ Init /\ [][Next]_webVars
  /\ \A e \in ExportIds : WF_webVars(RunExport(e))
  /\ \A c \in Calls : WF_webVars(AnswerCall(c))
  /\ WF_webVars(AnswerShared)
-----------------------------------------------------------------------------
TypeOK ==
  /\ ExportsTypeOK /\ StreamTypeOK /\ SessionTypeOK /\ AccountsTypeOK
  /\ starts \in 0..MaxStarts /\ faults \in 0..MaxFaults
=============================================================================
