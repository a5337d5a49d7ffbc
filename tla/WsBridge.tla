------------------------------- MODULE WsBridge -------------------------------
(***************************************************************************)
(* One websocket bridge of the relay (relay/index.js, wsBridge), from the  *)
(* moment the client's upgrade is accepted.  The first message of the      *)
(* client starts the setup: a ticket is minted through an exit of its own, *)
(* and a connection to the upstream is opened through the same exit.  If   *)
(* the connection fails before its upgrade, the setup starts over with     *)
(* another exit.  Messages that come meanwhile are queued; later ones go   *)
(* straight through, with the ticket written into them.  Either side's     *)
(* end, a failed setup or its timer shuts the bridge down.                 *)
(*                                                                         *)
(* Every callback runs to its end before the next one, so each is one      *)
(* action.  Destroying a socket is not the same event as its close         *)
(* callback: a socket that broke stays destroyed for a while before the    *)
(* bridge hears of it.  A round is one try of the setup; it stands for     *)
(* the exit, the ticket and the connection of that try.                    *)
(***************************************************************************)
EXTENDS Naturals, Sequences

CONSTANTS
    SetupMax,       \* BRIDGE_SETUP_MAX: tries of the setup
    MaxAttempts,    \* mint.maxAttempts, capped: shots at a ticket per try
    Verifies,       \* the values mint.verifyState may have
    Plain,          \* messages that are no response.create or .append
    MaxMessages,    \* bound: messages of the client
    MaxOutputs      \* bound: messages of the upstream

ASSUME BridgeAssumption ==
    /\ SetupMax \in Nat \ {0} /\ MaxAttempts \in Nat \ {0}
    /\ Verifies \subseteq BOOLEAN
    /\ MaxMessages \in Nat /\ MaxOutputs \in Nat
    /\ Plain \subseteq 1 .. MaxMessages

VARIABLES
    verify,     \* cfg.mint.verifyState
    socket,     \* the client's socket: open, or destroyed
    closed,     \* shutdown has run
    received,   \* messages read from the client, which numbers them
    queue,      \* clientQueue
    tries,      \* setupTries; 0 before startSetup
    mint,       \* where bridgeMintTicket is, and its shots in this round
    token,      \* the round that minted the ticket in use, 0: none
    request,    \* the upstream request of each round, then its connection
    up,         \* the round whose connection is in use, 0: none
    arrived,    \* what was written to the upstream
    outputs,    \* messages read from the upstream, which numbers them
    shown,      \* the ones written to the client
    farewell,   \* what shutdown wrote to the client
    fired       \* mint attempts of this bridge

vars == <<verify, socket, closed, received, queue, tries, mint, token, request,
          up, arrived, outputs, shown, farewell, fired>>
(* What shutdown changes, and what setting up does. *)
endVars == <<closed, socket, request, farewell>>
setupVars == <<tries, mint, fired>>

Rounds == 1 .. SetupMax
Started == tries > 0
UpReady == up # 0
ProducedOutput == outputs > 0
NotMinting == [at |-> "idle", shots |-> 0]

(* A message as the upstream gets it: the ticket is written into those     *)
(* that start or go on with a response, others pass as they are.           *)
Frame(m, t) == [msg |-> m, ticket |-> IF m \in Plain THEN 0 ELSE t]
Frames(q, t) == [i \in 1 .. Len(q) |-> Frame(q[i], t)]

Init ==
    /\ verify \in Verifies
    /\ socket = "open" /\ closed = FALSE
    /\ received = 0 /\ queue = <<>>
    /\ tries = 0 /\ mint = NotMinting /\ token = 0 /\ fired = 0
    /\ request = [r \in Rounds |-> "none"] /\ up = 0
    /\ arrived = <<>> /\ outputs = 0 /\ shown = <<>> /\ farewell = "none"

------------------------------------------------------------------------------
(* Shutdown and setup, as the callbacks below call them. *)

(* The requests are as in req, the bridge goes on. *)
Carry(req) == request' = req /\ UNCHANGED <<closed, socket, farewell>>

LastWord ==
    IF socket = "destroyed" THEN "none"
    ELSE IF ProducedOutput THEN "close" ELSE "diagnosis"

Shutdown(req) ==
    IF closed THEN Carry(req)
    ELSE /\ closed' = TRUE
         /\ socket' = "destroyed"
         /\ farewell' = LastWord
         /\ request' = [r \in Rounds |-> IF r = up THEN "closed" ELSE req[r]]

(* Mutant: the tries are counted but never held against their limit.       *)
MutTrySetupUnbounded(req) ==
    /\ tries' = tries + 1
    /\ Carry(req)
    /\ mint' = [at |-> "attempt", shots |-> 1] /\ fired' = fired + 1
TrySetup(req) ==
    /\ tries' = tries + 1
    /\ IF tries' > SetupMax
       THEN Shutdown(req) /\ UNCHANGED <<mint, fired>>
       ELSE /\ Carry(req)
            /\ mint' = [at |-> "attempt", shots |-> 1] /\ fired' = fired + 1

------------------------------------------------------------------------------
(* The client. *)

(* sendUpstream writes nothing to a connection that is destroyed. *)
Written(m) == IF request[up] = "open" THEN Append(arrived, Frame(m, token)) ELSE arrived

(* Mutant: a message that comes during the setup is sent, not queued.      *)
MutClientMessageOnlyFirstQueued ==
    /\ socket = "open" /\ received < MaxMessages
    /\ received' = received + 1
    /\ IF Started
       THEN /\ arrived' = IF UpReady THEN Written(received') ELSE arrived
            /\ UNCHANGED <<queue, setupVars>> /\ Carry(request)
       ELSE queue' = Append(queue, received') /\ TrySetup(request) /\ UNCHANGED arrived
    /\ UNCHANGED <<verify, token, up, outputs, shown>>
ClientMessage ==
    /\ socket = "open" /\ received < MaxMessages
    /\ received' = received + 1
    /\ \/ ~Started /\ queue' = Append(queue, received') /\ TrySetup(request) /\ UNCHANGED arrived
       \/ /\ Started /\ UpReady
          /\ arrived' = Written(received')
          /\ UNCHANGED <<queue, setupVars>> /\ Carry(request)
       \/ /\ Started /\ ~UpReady
          /\ queue' = Append(queue, received')
          /\ UNCHANGED <<arrived, setupVars>> /\ Carry(request)
    /\ UNCHANGED <<verify, token, up, outputs, shown>>

(* A close frame, or bytes that are no frame of a client. *)
ClientStops ==
    /\ socket = "open"
    /\ Shutdown(request)
    /\ UNCHANGED <<verify, received, queue, setupVars, token, up, arrived, outputs, shown>>

(* The socket fails and is destroyed ... *)
ClientBreaks ==
    /\ socket = "open"
    /\ socket' = "destroyed"
    /\ UNCHANGED <<verify, closed, received, queue, setupVars, token, request, up,
                   arrived, outputs, shown, farewell>>

(* ... and its close event comes later. *)
ClientClosed ==
    /\ socket = "destroyed" /\ ~closed
    /\ Shutdown(request)
    /\ UNCHANGED <<verify, received, queue, setupVars, token, up, arrived, outputs, shown>>

------------------------------------------------------------------------------
(* The setup: bridgeMintTicket, and what trySetup does with its outcome. *)

(* Mutant: the timer is cleared as soon as a ticket is there.              *)
MutTimerWhileMinting ==
    /\ ~closed /\ ~UpReady /\ mint.at # "idle"
    /\ Shutdown(request)
    /\ UNCHANGED <<verify, received, queue, setupVars, token, up, arrived, outputs, shown>>
SetupTimeout ==
    /\ ~closed /\ ~UpReady
    /\ Shutdown(request)
    /\ UNCHANGED <<verify, received, queue, setupVars, token, up, arrived, outputs, shown>>

(* Mutant: the loop does not look whether the client is still there.       *)
MutMintAgainForNobody ==
    \/ /\ mint.shots < MaxAttempts
       /\ mint' = [at |-> "attempt", shots |-> mint.shots + 1] /\ fired' = fired + 1
       /\ Carry(request)
    \/ /\ mint.shots = MaxAttempts
       /\ mint' = NotMinting /\ UNCHANGED fired
       /\ Shutdown(request)
(* Mutant: one shot too many per round.                                    *)
MutMintAgainOnceMore ==
    \/ /\ mint.shots <= MaxAttempts /\ ~closed
       /\ mint' = [at |-> "attempt", shots |-> mint.shots + 1] /\ fired' = fired + 1
       /\ Carry(request)
    \/ /\ mint.shots > MaxAttempts \/ closed
       /\ mint' = NotMinting /\ UNCHANGED fired
       /\ Shutdown(request)
(* A shot was no good: the next one through another exit, if the client is *)
(* still there and one is left; without a ticket the bridge ends.          *)
MintAgain ==
    \/ /\ mint.shots < MaxAttempts /\ ~closed
       /\ mint' = [at |-> "attempt", shots |-> mint.shots + 1] /\ fired' = fired + 1
       /\ Carry(request)
    \/ /\ mint.shots = MaxAttempts \/ closed
       /\ mint' = NotMinting /\ UNCHANGED fired
       /\ Shutdown(request)

(* Mutant: the first ticket is kept for the connections of later rounds.   *)
MutMintedKeepsFirst ==
    /\ mint' = NotMinting /\ UNCHANGED fired
    /\ token' = IF closed \/ token # 0 THEN token ELSE tries
    /\ Carry(IF closed THEN request ELSE [request EXCEPT ![tries] = "pending"])
(* A ticket: connectUpstream through its exit, unless the client is gone.  *)
Minted ==
    /\ mint' = NotMinting /\ UNCHANGED fired
    /\ token' = IF closed THEN token ELSE tries
    /\ Carry(IF closed THEN request ELSE [request EXCEPT ![tries] = "pending"])

(* An attempt ends: with a ticket and its pair, or with neither (refused,  *)
(* incomplete, timed out, thrown).                                         *)
AttemptEnds ==
    /\ mint.at = "attempt"
    /\ \/ MintAgain /\ UNCHANGED token
       \/ ~verify /\ Minted
       \/ verify /\ mint' = [mint EXCEPT !.at = "verify"] /\ UNCHANGED <<fired, token>> /\ Carry(request)
    /\ UNCHANGED <<verify, received, queue, tries, up, arrived, outputs, shown>>

(* The state echo ends: full strength, not, or by an exception, which      *)
(* bridgeMintTicket does not catch here and trySetup does.                 *)
VerifyEnds ==
    /\ mint.at = "verify"
    /\ \/ MintAgain /\ UNCHANGED token
       \/ Minted
       \/ mint' = NotMinting /\ UNCHANGED <<fired, token>> /\ Shutdown(request)
    /\ UNCHANGED <<verify, received, queue, tries, up, arrived, outputs, shown>>

------------------------------------------------------------------------------
(* The upstream. *)

Settle(r, outcome) ==
    LET req == [request EXCEPT ![r] = outcome]
    IN  IF closed THEN Carry(req) /\ UNCHANGED setupVars ELSE TrySetup(req)

(* The request of round r ends before its upgrade: by an error, or by an   *)
(* answer that is none.                                                    *)
RequestFails(r) ==
    /\ request[r] = "pending"
    /\ \E outcome \in {"failed", "rejected"} : Settle(r, outcome)
    /\ UNCHANGED <<verify, received, queue, token, up, arrived, outputs, shown>>

(* Mutant: every error of a request starts another setup.                  *)
MutLateErrorRetries(r) ==
    /\ request[r] = "rejected"
    /\ Settle(r, "failed")
    /\ UNCHANGED <<verify, received, queue, token, up, arrived, outputs, shown>>
(* The body of a rejection is left unread; its connection may fail later,  *)
(* which is settled already.                                               *)
LateError(r) ==
    /\ request[r] = "rejected"
    /\ Carry([request EXCEPT ![r] = "failed"])
    /\ UNCHANGED <<verify, received, queue, setupVars, token, up, arrived, outputs, shown>>

(* Mutant: an upgrade is used, whether the bridge is closed or not.        *)
MutUpgradeForNobody(r) ==
    /\ request[r] = "pending"
    /\ Carry([request EXCEPT ![r] = "open"])
    /\ up' = r /\ queue' = <<>>
    /\ arrived' = IF closed THEN arrived ELSE Frames(queue, token)
    /\ UNCHANGED <<verify, received, setupVars, token, outputs, shown>>
(* The upgrade: what was queued goes first.  Too late, the connection is   *)
(* destroyed.                                                              *)
Upgrade(r) ==
    /\ request[r] = "pending"
    /\ \/ closed /\ Carry([request EXCEPT ![r] = "closed"]) /\ UNCHANGED <<up, queue, arrived>>
       \/ /\ ~closed
          /\ Carry([request EXCEPT ![r] = "open"])
          /\ up' = r /\ queue' = <<>> /\ arrived' = arrived \o Frames(queue, token)
    /\ UNCHANGED <<verify, received, setupVars, token, outputs, shown>>

UpstreamMessage ==
    /\ UpReady /\ request[up] = "open" /\ outputs < MaxOutputs
    /\ outputs' = outputs + 1
    /\ shown' = IF ~closed /\ socket = "open" THEN Append(shown, outputs') ELSE shown
    /\ UNCHANGED <<verify, endVars, received, queue, setupVars, token, up, arrived>>

(* A close frame, or bytes that are no frame of a server. *)
UpstreamStops ==
    /\ UpReady /\ request[up] = "open"
    /\ Shutdown(request)
    /\ UNCHANGED <<verify, received, queue, setupVars, token, up, arrived, outputs, shown>>

(* The connection fails or ends and is destroyed ... *)
UpstreamBreaks ==
    /\ UpReady /\ request[up] = "open"
    /\ Carry([request EXCEPT ![up] = "broken"])
    /\ UNCHANGED <<verify, received, queue, setupVars, token, up, arrived, outputs, shown>>

(* ... and its error or close event comes later. *)
UpstreamClosed ==
    /\ UpReady /\ request[up] = "broken"
    /\ Shutdown(request)
    /\ UNCHANGED <<verify, received, queue, setupVars, token, up, arrived, outputs, shown>>

------------------------------------------------------------------------------
Next ==
    \/ ClientMessage \/ ClientStops \/ ClientBreaks \/ ClientClosed
    \/ SetupTimeout \/ AttemptEnds \/ VerifyEnds
    \/ \E r \in Rounds : RequestFails(r) \/ LateError(r) \/ Upgrade(r)
    \/ UpstreamMessage \/ UpstreamStops \/ UpstreamBreaks \/ UpstreamClosed

(* The setup timer fires, attempts and echoes have timers of their own,    *)
(* and a destroyed socket emits its close event.  Nothing is assumed of    *)
(* the peers: a request may stay unanswered.                               *)
Fairness ==
    /\ WF_vars(SetupTimeout) /\ WF_vars(AttemptEnds) /\ WF_vars(VerifyEnds)
    /\ WF_vars(ClientClosed) /\ WF_vars(UpstreamClosed)

Spec == Init /\ [][Next]_vars
FairSpec == Spec /\ Fairness

------------------------------------------------------------------------------
(* Properties. *)

(* Every variable keeps its type. *)
FrameType == [msg : 1 .. MaxMessages, ticket : 0 .. SetupMax]
TypeOK ==
    /\ verify \in Verifies /\ closed \in BOOLEAN
    /\ socket \in {"open", "destroyed"} /\ farewell \in {"none", "close", "diagnosis"}
    /\ received \in 0 .. MaxMessages /\ outputs \in 0 .. MaxOutputs
    /\ queue \in Seq(1 .. MaxMessages) /\ shown \in Seq(1 .. MaxOutputs)
    /\ arrived \in Seq(FrameType)
    /\ tries \in 0 .. (SetupMax + 1) /\ token \in 0 .. SetupMax /\ up \in 0 .. SetupMax
    /\ mint \in [at : {"idle", "attempt", "verify"}, shots : 0 .. MaxAttempts]
    /\ request \in [Rounds -> {"none", "pending", "failed", "rejected", "open", "broken", "closed"}]
    /\ fired \in Nat

(* One setup at a time, whatever order errors, answers and upgrades come   *)
(* in: a bridge never mints while a request of its own may still be        *)
(* upgraded, never has two such requests, and mints nothing more once it   *)
(* has used a connection.                                                  *)
Underway == {r \in Rounds : request[r] \in {"pending", "open", "broken"}}
OneSetup ==
    /\ \A r, s \in Underway : r = s
    /\ mint.at # "idle" => Underway = {} /\ ~UpReady

(* "The ticket and the door have to be of the same try": every message     *)
(* that reaches the upstream carries the ticket minted through the exit    *)
(* that its connection goes through.                                       *)
TicketMatchesDoor ==
    \A i \in 1 .. Len(arrived) :
        arrived[i].ticket = IF arrived[i].msg \in Plain THEN 0 ELSE up

(* The cost of one bridge: at most three rounds of so many attempts each   *)
(* (index.js 2248 counts on it).                                           *)
AttemptsBounded == fired <= SetupMax * MaxAttempts

(* No connection to the upstream is left open behind a closed bridge, not  *)
(* even one whose upgrade comes after the close.                           *)
NothingLeaks == closed => \A r \in Rounds : request[r] # "open"

(* Once the client is gone no attempt is fired for it any more ("the guest *)
(* has left, why go on cooking").                                          *)
NoShotForNobody == [][closed => fired' = fired]_vars

(* The bridge keeps what MessagePipe promises, over all its rounds: the    *)
(* messages arrive in order and whole, and it ends once.                   *)
Pipe == INSTANCE MessagePipe WITH
    sent <- received, over <- closed,
    arrived <- [i \in 1 .. Len(arrived) |-> arrived[i].msg]
KeepsPipe == Pipe!Safe

(* Every message of the client arrives or the bridge ends: the setup timer *)
(* covers a mint and a request that never end.                             *)
MessagesServed == Pipe!Served
===============================================================================
