------------------------------ MODULE CliLogin ------------------------------
(***************************************************************************)
(* `rail login` with its loopback callback server: the browser brings the  *)
(* token to a listener that stops at the first valid callback, at its      *)
(* deadline, or when the command closes it.  A request that was accepted   *)
(* before the listener stopped is still handled.  Then the token is        *)
(* verified and saved.                                                   *)
(***************************************************************************)
EXTENDS Naturals, FiniteSets

CONSTANTS Callbacks         \* requests that may reach the listener

ASSUME LoginAssumption == IsFiniteSet(Callbacks)

VARIABLES
  login,       \* the command: pc, the token it verifies and how it will end
  listener,    \* "none", "open", "draining", "closed"
  timer,       \* "off", "armed", "firing": it has fired and waits for the listener to end
  settled,     \* the flag of the server
  promise,     \* tokenPromise: "pending", "token", "TIMEOUT", "closed"
  callbacks,   \* callback -> "none", "accepted", "answered"
  config       \* ~/.railfog/config.json: "none", "old", "empty", "new"

loginVars == <<login, listener, timer, settled, promise, callbacks, config>>

Pcs == {"start", "opening", "waiting", "closing", "prompt", "verify", "save", "write", "finally", "done", "killed"}

\* verified: history, the control plane has accepted the token.
LoginTypeOK ==
  /\ login \in [pc : Pcs, token : BOOLEAN, then : {"prompt", "finally"}, verified : BOOLEAN]
  /\ listener \in {"none", "open", "draining", "closed"} /\ timer \in {"off", "armed", "firing"}
  /\ promise \in {"pending", "token", "TIMEOUT", "closed"} /\ settled \in BOOLEAN
  /\ callbacks \in [Callbacks -> {"none", "accepted", "answered"}] /\ config \in {"none", "old", "empty", "new"}
  /\ (promise # "pending" => settled)

LoginInit ==
  /\ login = [pc |-> "start", token |-> FALSE, then |-> "finally", verified |-> FALSE]
  /\ listener = "none" /\ timer = "off" /\ settled = FALSE /\ promise = "pending"
  /\ callbacks = [c \in Callbacks |-> "none"] /\ config \in {"none", "old"}

----------------------------------------------------------------------------
Goto(pc) == login' = [login EXCEPT !.pc = pc]

\* A token was given on the command line, or is asked for with --manual.
WithToken ==
  /\ login.pc = "start" /\ login' = [login EXCEPT !.pc = "verify", !.token = TRUE]
  /\ UNCHANGED <<listener, timer, settled, promise, callbacks, config>>

Manual ==
  /\ login.pc = "start" /\ Goto("prompt")
  /\ UNCHANGED <<listener, timer, settled, promise, callbacks, config>>

\* startCallbackServer, then the browser is asked to open the page.
StartListener ==
  /\ login.pc = "start" /\ Goto("opening")
  /\ listener' = "open" /\ timer' = "armed"
  /\ UNCHANGED <<settled, promise, callbacks, config>>

\* The promise settles once.
Settle(how) == promise' = IF promise = "pending" THEN how ELSE promise
StopListening == listener' = IF listener = "open" THEN "draining" ELSE listener

\* close() is called and awaited; the command goes on to where.
Close(where) ==
  /\ timer' = IF timer = "armed" THEN "off" ELSE timer
  /\ settled' = TRUE
  /\ IF settled THEN UNCHANGED promise ELSE Settle("closed")
  /\ StopListening
  /\ login' = [login EXCEPT !.pc = "closing", !.then = where]
  /\ UNCHANGED <<callbacks, config>>

BrowserOpened ==
  /\ login.pc = "opening" /\ Goto("waiting")
  /\ UNCHANGED <<listener, timer, settled, promise, callbacks, config>>

\* No browser: the listener is closed and the key is asked for.
NoBrowser == login.pc = "opening" /\ Close("prompt")

ListenerClosed ==
  /\ login.pc = "closing" /\ listener = "closed" /\ Goto(login.then)
  /\ UNCHANGED <<listener, timer, settled, promise, callbacks, config>>

\* waitForToken: the token, or the fallback to the prompt at the deadline.
TokenArrives ==
  /\ login.pc = "waiting" /\ promise = "token"
  /\ login' = [login EXCEPT !.pc = "verify", !.token = TRUE]
  /\ UNCHANGED <<listener, timer, settled, promise, callbacks, config>>

WaitTimesOut == login.pc = "waiting" /\ promise = "TIMEOUT" /\ Close("prompt")

\* The user pastes a key, or nothing.
Prompted(given) ==
  /\ login.pc = "prompt"
  /\ login' = [login EXCEPT !.pc = IF given THEN "verify" ELSE "finally", !.token = given]
  /\ UNCHANGED <<listener, timer, settled, promise, callbacks, config>>

\* Mutant of Verify: the key is saved whatever the control plane answers.
VerifyIgnored(ok) ==
  /\ login.pc = "verify" /\ login' = [login EXCEPT !.pc = "save", !.verified = ok]
  /\ UNCHANGED <<listener, timer, settled, promise, callbacks, config>>

\* GET /v1/auth/verify
Verify(ok) ==
  /\ login.pc = "verify" /\ login' = [login EXCEPT !.pc = IF ok THEN "save" ELSE "finally", !.verified = ok]
  /\ UNCHANGED <<listener, timer, settled, promise, callbacks, config>>

\* saveCliConfig: the file is truncated, then written.
TruncateConfig ==
  /\ login.pc = "save" /\ Goto("write") /\ config' = "empty"
  /\ UNCHANGED <<listener, timer, settled, promise, callbacks>>

WriteConfig ==
  /\ login.pc = "write" /\ Goto("finally") /\ config' = "new"
  /\ UNCHANGED <<listener, timer, settled, promise, callbacks>>

SaveFails ==
  /\ login.pc \in {"save", "write"} /\ Goto("finally")
  /\ UNCHANGED <<listener, timer, settled, promise, callbacks, config>>

\* Mutant of Finally: the session is left to end by itself.
FinallyLeaves ==
  /\ login.pc = "finally" /\ Goto("done")
  /\ UNCHANGED <<listener, timer, settled, promise, callbacks, config>>

\* finally: a session that was not closed is closed.
Finally ==
  /\ login.pc = "finally"
  /\ IF listener \in {"none", "closed"}
     THEN Goto("done") /\ UNCHANGED <<listener, timer, settled, promise, callbacks, config>>
     ELSE Close("finally")

\* Ctrl+C ends the process, the listener and the timer with it.
Interrupted ==
  /\ login.pc \notin {"done", "killed"} /\ Goto("killed")
  /\ listener' = "closed" /\ timer' = "off"
  /\ UNCHANGED <<settled, promise, callbacks, config>>

----------------------------------------------------------------------------
\* The callback server.

Connects(c) ==
  /\ listener = "open" /\ callbacks[c] = "none"
  /\ callbacks' = [callbacks EXCEPT ![c] = "accepted"]
  /\ UNCHANGED <<login, listener, timer, settled, promise, config>>

\* Mutant of Probe: any request to the callback path stops the clock.
ProbeDisarms(c) ==
  /\ callbacks[c] = "accepted" /\ login.pc # "killed"
  /\ callbacks' = [callbacks EXCEPT ![c] = "answered"]
  /\ timer' = IF timer = "armed" THEN "off" ELSE timer
  /\ UNCHANGED <<login, listener, settled, promise, config>>

\* Another path or method, a missing token or the wrong nonce: refused, and the listener goes on.
Probe(c) ==
  /\ callbacks[c] = "accepted" /\ login.pc # "killed"
  /\ callbacks' = [callbacks EXCEPT ![c] = "answered"]
  /\ UNCHANGED <<login, listener, timer, settled, promise, config>>

\* A valid callback: the clock is stopped, the promise resolved and the listener stopped.
ValidCallback(c) ==
  /\ callbacks[c] = "accepted" /\ login.pc # "killed"
  /\ callbacks' = [callbacks EXCEPT ![c] = "answered"]
  /\ timer' = IF timer = "armed" THEN "off" ELSE timer
  /\ settled' = TRUE /\ Settle("token") /\ StopListening
  /\ UNCHANGED <<login, config>>

\* The deadline: the promise is rejected only once the listener has ended.
LoginTimerFires ==
  /\ timer = "armed" /\ ~settled
  /\ timer' = "firing" /\ settled' = TRUE /\ StopListening
  /\ UNCHANGED <<login, promise, callbacks, config>>

TimerRejects ==
  /\ timer = "firing" /\ listener = "closed"
  /\ timer' = "off" /\ Settle("TIMEOUT")
  /\ UNCHANGED <<login, listener, settled, callbacks, config>>

\* shutdown(): the listener ends when the accepted requests are answered.
Drained ==
  /\ listener = "draining" /\ \A c \in Callbacks : callbacks[c] # "accepted"
  /\ listener' = "closed"
  /\ UNCHANGED <<login, timer, settled, promise, callbacks, config>>

Answer(c) == Probe(c) \/ ValidCallback(c)
Server == LoginTimerFires \/ TimerRejects \/ Drained \/ \E c \in Callbacks : Answer(c)
Command ==
  \/ WithToken \/ Manual \/ StartListener \/ BrowserOpened \/ NoBrowser \/ ListenerClosed \/ TokenArrives \/ WaitTimesOut
  \/ \E b \in BOOLEAN : Prompted(b) \/ Verify(b)
  \/ TruncateConfig \/ WriteConfig \/ SaveFails \/ Finally

\* `rail logout` in another shell.
Logout ==
  /\ config # "none" /\ login.pc # "write" /\ config' = "none"
  /\ UNCHANGED <<login, listener, timer, settled, promise, callbacks>>

LoginNext == Command \/ Server \/ Interrupted \/ Logout \/ \E c \in Callbacks : Connects(c)

Continues == ListenerClosed \/ TokenArrives \/ WaitTimesOut \/ TruncateConfig \/ WriteConfig \/ Finally

\* The event loop runs the timer, the handlers and the continuations; the browser, openBrowser
\* and the user owe nothing.
LoginFairness ==
  /\ WF_loginVars(Server)
  /\ WF_loginVars(Continues)
LoginSpec == LoginInit /\ [][LoginNext]_loginVars /\ LoginFairness

----------------------------------------------------------------------------
\* "Ensure listener teardown on all exit paths": a login that has returned leaves no listener
\* and no armed timer, whichever of callback, deadline and close came first.
NoListenerLeft == login.pc = "done" => listener \in {"none", "closed"} /\ timer # "armed"

\* New credentials are saved only after the control plane has accepted them.
SavedVerified == config = "new" => login.verified

\* Waiting for the browser ends, whatever requests reach the listener: with the token or, at
\* the deadline, with the prompt.
WaitEnds == (login.pc = "waiting") ~> (login.pc # "waiting")

\* A login leaves no listener open and saves only a token that was verified, whichever of
\* callback, deadline and interrupt comes first.
LoginSound == LoginTypeOK /\ NoListenerLeft /\ SavedVerified
=============================================================================
