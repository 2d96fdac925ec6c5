----------------------------- MODULE Connection -----------------------------
(***************************************************************************)
(* core/worker.js: one worker process, its WhatsApp socket and its stored  *)
(* credentials.  start() builds a socket; connection.update reports that   *)
(* it opened or closed; core/disconnectReasons.js decides what a close     *)
(* means; lifecycle.selectAuth and auth.clear own the credentials.         *)
(*                                                                         *)
(* The socket library and the server are external: the socket closes once, *)
(* with a code of the server's choice.  logout() acts on the socket of its *)
(* call: an open one is unlinked at the server and closed with code 401.   *)
(***************************************************************************)
EXTENDS Integers

CONSTANTS
  Codes,         \* status codes a close can carry; 0 stands for none
  Setups,        \* kinds of deployment, of {"files", "servers"}
  MaxReconnect   \* MAX_RECONNECT_ATTEMPTS

ASSUME ConnectionAssumption ==
  /\ Codes \subseteq Nat
  /\ Setups \subseteq {"files", "servers"}
  /\ MaxReconnect \in Nat \ {0}

VARIABLES
  setup,         \* the store and the credentials are in files (SQLITE, MULTIFILE),
                 \* which answer in place, or at servers, which take time and fail
  phase,         \* where the chain of start() and its socket is
  verdict,       \* the action of the close that is being handled
  attempts,      \* reconnectAttempts of the current start()
  draining,      \* progress of the 'shutdown' handler
  health,        \* connectionState: what /api/health reports
  announcing,    \* an open handler waits for recordTimeline
  creds,         \* "stored" or "none": the auth backend
  session,       \* the server's side: "linked" or "none"
  endedBy        \* history: who ended the last session

connVars == <<setup, phase, verdict, attempts, draining, health, announcing, creds, session, endedBy>>

Actions == {"reconnect", "re-pair", "stop"}
Phases == {"down", "starting", "connecting", "open", "closing", "waiting",
           "exiting", "stopped", "idle"}

ConnTypeOK ==
  /\ setup \in Setups
  /\ phase \in Phases
  /\ verdict \in Actions
  /\ attempts \in 0 .. MaxReconnect
  /\ draining \in {"no", "unlinking", "logout", "ending", "leaving"}
  /\ health \in {"pending", "open", "close"}
  /\ announcing \in {"no", "yes"}
  /\ creds \in {"stored", "none"}
  /\ session \in {"linked", "none"}
  /\ endedBy \in {"nobody", "server", "bot"}

\* A worker starts; the bot was paired, or never was.
ConnInit ==
  /\ setup \in Setups
  /\ phase = "starting" /\ verdict = "reconnect" /\ attempts = 0
  /\ draining = "no" /\ health = "pending" /\ announcing = "no"
  /\ \/ creds = "stored" /\ session = "linked"
     \/ creds = "none" /\ session = "none"
  /\ endedBy = "nobody"

\* Mutant: a locked account is treated like a dead session.
ClassifyLockedAsDead(code) ==
  IF code \in {516, 401, 403, 411} THEN "re-pair"
  ELSE IF code \in {402, 406, 409} THEN "stop" ELSE "reconnect"

\* classifyDisconnect: 515, 405, 440, 500, 501, 503 and every other code,
\* known or not, are transient.
Classify(code) ==
  IF code \in {516, 401, 411} THEN "re-pair"
  ELSE IF code \in {402, 403, 406, 409} THEN "stop" ELSE "reconnect"

\* The codes with which the server says that the session is over.
SessionOver == {401, 411, 516}

-----------------------------------------------------------------------------
(* start() *)

\* A fresh process: nothing is left of the old one but what is stored.
Boot ==
  /\ phase' = "starting" /\ attempts' = 0 /\ draining' = "no"
  /\ health' = "pending" /\ announcing' = "no"
  /\ UNCHANGED <<setup, verdict, creds, session, endedBy>>

\* Mutant: start() returns if a socket was ever made.
MakeFirstSocket ==
  /\ phase = "starting"
  /\ phase' = IF health = "pending" THEN "connecting" ELSE "idle"
  /\ attempts' = 0
  /\ UNCHANGED <<setup, verdict, draining, health, announcing, creds, session, endedBy>>

\* auth, store, commands and version are there: the socket is made, with a
\* connection.update handler whose reconnectAttempts is 0.
MakeSocket ==
  /\ phase = "starting"
  /\ phase' = "connecting"
  /\ attempts' = 0
  /\ UNCHANGED <<setup, verdict, draining, health, announcing, creds, session, endedBy>>

\* start() rejects on a reconnect: unhandledRejection is logged, and nothing
\* will call start() again.  (When the first start() rejects, the process ends.)
StartFails ==
  /\ phase = "starting" /\ setup = "servers" /\ health # "pending"
  /\ phase' = "idle"
  /\ UNCHANGED <<setup, verdict, attempts, draining, health, announcing, creds, session, endedBy>>

\* The user scans the code: creds.update stores the credentials.  The server
\* closes the connection with 515 afterwards.
Pair ==
  /\ phase = "connecting" /\ creds = "none"
  /\ creds' = "stored" /\ session' = "linked" /\ endedBy' = "nobody"
  /\ UNCHANGED <<setup, phase, verdict, attempts, draining, health, announcing>>

-----------------------------------------------------------------------------
(* connection.update *)

\* connection is 'open': 'ready' is sent, and recordTimeline is awaited
\* before connectionState.set.  (Bound: one such handler waits at a time.)
Opens ==
  /\ phase = "connecting" /\ creds = "stored" /\ session = "linked"
  /\ announcing = "no"
  /\ phase' = "open"
  /\ attempts' = 0
  /\ IF setup = "servers" THEN announcing' = "yes" /\ UNCHANGED health
                          ELSE health' = "open" /\ UNCHANGED announcing
  /\ UNCHANGED <<setup, verdict, draining, creds, session, endedBy>>

\* The open handler goes on after its await.
Announce ==
  /\ announcing = "yes"
  /\ announcing' = "no"
  /\ health' = "open"
  /\ UNCHANGED <<setup, phase, verdict, attempts, draining, creds, session, endedBy>>

\* Mutant: the state is not set on a close.
ClosedSilently(code) ==
  /\ phase' = "closing"
  /\ verdict' = Classify(code)
  /\ UNCHANGED health

\* connection is 'close': the state is set, the code classified, and the
\* handler awaits recordTimeline.
ClosedWith(code) ==
  /\ phase' = "closing"
  /\ health' = "close"
  /\ verdict' = Classify(code)

\* The server or the network closes the socket.
Closes ==
  /\ phase \in {"connecting", "open"}
  /\ \E code \in Codes :
       /\ ClosedWith(code)
       /\ session' = IF code \in SessionOver THEN "none" ELSE session
       /\ endedBy' = IF code \in SessionOver /\ session = "linked" THEN "server" ELSE endedBy
  /\ UNCHANGED <<setup, attempts, draining, announcing, creds>>

\* action 'stop': the worker stays resident and never reconnects.
Stop ==
  /\ phase = "closing" /\ verdict = "stop"
  /\ phase' = "stopped"
  /\ health' = "close"
  /\ UNCHANGED <<setup, verdict, attempts, draining, announcing, creds, session, endedBy>>

\* action 're-pair': clear() is awaited; a failure is logged.
Clear ==
  /\ phase = "closing" /\ verdict = "re-pair"
  /\ phase' = "exiting"
  /\ creds' \in {creds, "none"}
  /\ UNCHANGED <<setup, verdict, attempts, draining, health, announcing, session, endedBy>>

\* Mutant: the branch for 'stop' lacks its return.
ReconnectAnyway ==
  /\ phase \in {"closing", "stopped"} /\ verdict # "re-pair"
  /\ attempts' = attempts + 1
  /\ phase' = IF attempts < MaxReconnect THEN "waiting" ELSE "exiting"
  /\ UNCHANGED <<setup, verdict, draining, health, announcing, creds, session, endedBy>>

\* action 'reconnect': the timer is armed, or too many attempts end the
\* process.  The count belongs to one start().
Reconnect ==
  /\ phase = "closing" /\ verdict = "reconnect"
  /\ IF attempts < MaxReconnect
       THEN attempts' = attempts + 1 /\ phase' = "waiting"
       ELSE phase' = "exiting" /\ UNCHANGED attempts
  /\ UNCHANGED <<setup, verdict, draining, health, announcing, creds, session, endedBy>>

\* The timer calls start(), which returns at once while shutting down.
Retry ==
  /\ phase = "waiting"
  /\ phase' = IF draining = "no" THEN "starting" ELSE "idle"
  /\ UNCHANGED <<setup, verdict, attempts, draining, health, announcing, creds, session, endedBy>>

-----------------------------------------------------------------------------
(* The 'shutdown' message *)

\* sock?.logout?.() is called on the socket of this moment.  One that was never
\* paired closes with 401; an open one is asked to unlink the device; without a
\* socket, or with one that has closed or not opened yet, nothing comes of it.
HearShutdown ==
  /\ draining' = IF phase = "open" THEN "unlinking" ELSE "logout"
  /\ IF phase = "connecting" /\ creds = "none"
       THEN ClosedWith(401)
       ELSE UNCHANGED <<phase, health, verdict>>
  /\ UNCHANGED <<setup, attempts, announcing, creds, session, endedBy>>

Unlinked ==
  /\ session' = "none"
  /\ endedBy' = IF session = "linked" THEN "bot" ELSE endedBy

\* The promise of logout() settles.  The device is unlinked and the socket closes
\* with 401; of a socket that closed meanwhile, the request may have gone through.
Logout ==
  /\ draining \in {"unlinking", "logout"}
  /\ draining' = "ending"
  /\ \/ draining = "unlinking" /\ phase = "open" /\ ClosedWith(401) /\ Unlinked
     \/ draining = "unlinking" /\ phase # "open" /\ Unlinked /\ UNCHANGED <<phase, health, verdict>>
     \/ /\ draining = "logout" \/ phase # "open"
        /\ UNCHANGED <<phase, health, verdict, session, endedBy>>
  /\ UNCHANGED <<setup, attempts, announcing, creds>>

\* sock.end(), store.close(), auth.close(); the exit timer is armed.
EndSocket ==
  /\ draining = "ending"
  /\ draining' = "leaving"
  /\ IF phase \in {"open", "connecting"}
       THEN ClosedWith(0)
       ELSE UNCHANGED <<phase, health, verdict>>
  /\ UNCHANGED <<setup, attempts, announcing, creds, session, endedBy>>

\* The process ends by one of its exit timers.
Leaves == draining = "leaving" \/ phase = "exiting"

\* The process has ended.
Gone ==
  /\ phase' = "down" /\ attempts' = 0 /\ draining' = "no"
  /\ health' = "pending" /\ announcing' = "no"
  /\ UNCHANGED <<setup, verdict, creds, session, endedBy>>

=============================================================================
