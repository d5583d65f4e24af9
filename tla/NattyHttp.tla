----------------------------- MODULE NattyHttp -----------------------------
(***************************************************************************)
(* The HTTP client of NattyHttp.c, which looks a list of access points up,  *)
(* and the platform's sockets.  A socket belongs to the client from         *)
(* soc_create to soc_close, also when socketid has moved on.                *)
(***************************************************************************)
EXTENDS Integers

CONSTANTS
  Sockets,  \* the handles soc_create may return
  None      \* no request: an empty buffer, nothing asked

ASSUME HttpAssumption == Sockets \subseteq Nat /\ None \notin Sockets

VARIABLES
  account,   \* ntyGetAccountId(pNetwork) # 0
  socketid,
  addr,      \* the host's address is known: ntyHostNameHaveParsed
  dns,       \* a name query is under way and its callback set
  buffer,    \* the request it holds, None once a response was read into it
  socket,    \* the platform's sockets
  lastAsked  \* the request that was sent last, whole or in part

httpVars == <<account, socketid, addr, dns, buffer, socket, lastAsked>>

\* connecting: soc_connect has answered SOC_WOULDBLOCK; hopeless: to no address.
SocketStates == {"free", "open", "connecting", "hopeless", "connected"}

Free == [state |-> "free", asked |-> None]

State(s) == socket[s].state

HttpInit ==
  /\ account = FALSE /\ socketid = -1 /\ addr = FALSE /\ dns = FALSE /\ buffer = None
  /\ socket = [s \in Sockets |-> Free] /\ lastAsked = None

\* The states soc_connect may leave a socket in.
Connected(state, known) ==
  CASE state \in {"free", "connecting", "connected"} -> {state}
    [] state \in {"open", "hopeless"} /\ known -> {"open", "connecting", "connected"}
    [] state \in {"open", "hopeless"} /\ ~known -> {"open", "hopeless"}

Connect(s, known) ==
  IF s \in Sockets
  THEN \E state \in Connected(State(s), known) : socket' = [socket EXCEPT ![s].state = state]
  ELSE UNCHANGED socket

\* ntyGetHostByName: the platform may refuse, answer at once (into nowhere) or
\* later.
ntyGetHostByName == dns' \in {dns, TRUE}

\* ntyConnectServer for a request that was encoded into the buffer.  The handle
\* there was before is overwritten, not closed.
ntyConnectServer(request) ==
  /\ buffer' = request
  /\ UNCHANGED <<account, addr, lastAsked>>
  /\ \/ /\ ~account
        /\ UNCHANGED <<dns, socketid, socket>>
     \/ /\ account
        /\ IF addr THEN UNCHANGED dns ELSE ntyGetHostByName
        /\ \/ \E s \in Sockets, state \in Connected("open", addr) :
                /\ State(s) = "free"
                /\ socketid' = s
                /\ socket' = [socket EXCEPT ![s] = [state |-> state, asked |-> None]]
           \/ socketid' = -1 /\ UNCHANGED socket

ntyGetHostByNameIndCallback ==
  /\ dns /\ dns' = FALSE
  /\ \/ addr' = TRUE /\ Connect(socketid, TRUE)
     \/ UNCHANGED <<addr, socket>>
  /\ UNCHANGED <<account, socketid, buffer, lastAsked>>

\* ntyHttpRequest and ntyHttpSend: soc_send takes the buffer, or only a part of
\* it or nothing, on a socket that is connected and refuses it on any other; the
\* result is looked at by nobody and the rest is never sent, so that a request
\* sent in part has no answer.
ntyHttpRequest(s, state) ==
  IF state = "connected"
  THEN /\ \E sent \in {buffer, None} :
            socket' = [socket EXCEPT ![s] = [state |-> state, asked |-> sent]]
       /\ lastAsked' = buffer
  ELSE /\ socket' = [socket EXCEPT ![s].state = state]
       /\ UNCHANGED lastAsked

\* ntyHttpRecv clears the buffer, then reads the answer to what the socket asked,
\* or nothing of use.
ntyHttpRecv(s, whole) ==
  /\ buffer' = None
  /\ whole => socket[s].asked # None
  /\ socket' = IF whole THEN [socket EXCEPT ![s].asked = None] ELSE socket

\* ntyHttpClose; a name query's answer has no handler any more.
ntyHttpClose(s) ==
  /\ socket' = [socket EXCEPT ![s] = Free]
  /\ dns' = FALSE

\* Mistake: every notification is HTTP's.
BugRouted(s) == s \in Sockets

\* ntyUdpCallback hands a notification to HTTP when it is for its socket.
Routed(s) == s \in Sockets /\ s = socketid

\* SOC_CONNECT, whatever its result: an attempt that failed leaves the socket as
\* it was created.
NotifyConnect ==
  \E s \in Sockets :
    /\ Routed(s)
    /\ \/ State(s) = "connecting" /\ ntyHttpRequest(s, "connected")
       \/ State(s) \in {"connecting", "hopeless"} /\ ntyHttpRequest(s, "open")
    /\ UNCHANGED <<account, socketid, addr, dns, buffer>>

\* SOC_CLOSE, from the server or for a failed connection; socketid is kept.
NotifyClose ==
  \E s \in Sockets :
    /\ Routed(s)
    /\ State(s) # "free"
    /\ ntyHttpClose(s)
    /\ UNCHANGED <<account, socketid, addr, buffer, lastAsked>>

\* ntyUdpCreate has found a data account.
AccountKnown ==
  /\ ~account /\ account' = TRUE
  /\ UNCHANGED <<socketid, addr, dns, buffer, socket, lastAsked>>
=============================================================================
