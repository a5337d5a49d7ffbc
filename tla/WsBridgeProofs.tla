---------------------------- MODULE WsBridgeProofs ----------------------------
(***************************************************************************)
(* What WsBridge keeps to for every value of its constants.  IInv says     *)
(* which round the request, the connection and the ticket belong to, and   *)
(* where each message of the client is at any time.                        *)
(***************************************************************************)
EXTENDS WsBridge, SequenceTheorems, TLAPS

USE BridgeAssumption

UpTo(n) == [i \in 1 .. n |-> i]

\* Requests, connection and mint belong to the current round, and only one of them is there.
Live(r) == request[r] \in {"pending", "open", "broken"}
DoorInv ==
    /\ \A r \in Rounds : Live(r) => r = tries /\ r = token
    /\ \A r \in Rounds : request[r] = "pending" => up = 0
    /\ \A r \in Rounds : request[r] \in {"open", "broken"} => up = r /\ ~closed
    /\ \A r \in Rounds : r > tries => request[r] = "none"
    /\ up # 0 => up = token
    /\ up <= tries
    /\ mint.at # "idle" => /\ tries \in Rounds /\ mint.shots >= 1
                           /\ up = 0 /\ request[tries] = "none"

\* Before the upgrade everything is queued, after it everything was written, while the connection is open.
OrderInv ==
    /\ tries = 0 => received = 0
    /\ up = 0 => arrived = << >> /\ queue = UpTo(received)
    /\ up # 0 => queue = << >>
    /\ Len(arrived) <= received
    /\ up # 0 /\ request[up] = "open" => Len(arrived) = received
    /\ \A i \in 1 .. Len(arrived) : arrived[i] = Frame(i, up)
    /\ closed => socket = "destroyed"
    /\ socket = "open" => Len(shown) = outputs

IInv == TypeOK /\ DoorInv /\ OrderInv

-----------------------------------------------------------------------------
(* Types. *)

RequestStates == {"none", "pending", "failed", "rejected", "open", "broken", "closed"}
EndTypes ==
    /\ closed \in BOOLEAN /\ socket \in {"open", "destroyed"}
    /\ farewell \in {"none", "close", "diagnosis"} /\ request \in [Rounds -> RequestStates]
SetupTypes ==
    /\ tries \in 0 .. (SetupMax + 1) /\ fired \in Nat
    /\ mint \in [at : {"idle", "attempt", "verify"}, shots : 0 .. MaxAttempts]
RestTypes ==
    /\ verify \in Verifies /\ received \in 0 .. MaxMessages /\ outputs \in 0 .. MaxOutputs
    /\ queue \in Seq(1 .. MaxMessages) /\ shown \in Seq(1 .. MaxOutputs)
    /\ arrived \in Seq(FrameType) /\ token \in 0 .. SetupMax /\ up \in 0 .. SetupMax

LEMMA TypeParts == TypeOK <=> EndTypes /\ SetupTypes /\ RestTypes
  BY DEF TypeOK, EndTypes, SetupTypes, RestTypes, RequestStates

LEMMA TypePartsNext == TypeOK' <=> EndTypes' /\ SetupTypes' /\ RestTypes'
  BY DEF TypeOK, EndTypes, SetupTypes, RestTypes, RequestStates

LEMMA CarryTypes ==
  ASSUME EndTypes, NEW req \in [Rounds -> RequestStates], Carry(req)
  PROVE  EndTypes'
  BY DEF EndTypes, Carry

LEMMA ShutdownTypes ==
  ASSUME EndTypes, NEW req \in [Rounds -> RequestStates], Shutdown(req)
  PROVE  EndTypes'
  <1>1. CASE closed
    BY <1>1, CarryTypes DEF Shutdown
  <1>2. CASE ~closed
    <2>1. request' \in [Rounds -> RequestStates]
      BY <1>2 DEF Shutdown, RequestStates
    <2>2. QED
      BY <1>2, <2>1 DEF Shutdown, EndTypes, LastWord
  <1>3. QED
    BY <1>1, <1>2

LEMMA TrySetupTypes ==
  ASSUME EndTypes, SetupTypes, NEW req \in [Rounds -> RequestStates], tries <= SetupMax, TrySetup(req)
  PROVE  EndTypes' /\ SetupTypes'
  <1>1. CASE tries + 1 > SetupMax
    <2>1. EndTypes'
      BY <1>1, ShutdownTypes DEF TrySetup
    <2>2. QED
      BY <1>1, <2>1 DEF TrySetup, SetupTypes
  <1>2. CASE ~(tries + 1 > SetupMax)
    <2>1. EndTypes'
      BY <1>2, CarryTypes DEF TrySetup
    <2>2. mint' \in [at : {"idle", "attempt", "verify"}, shots : 0 .. MaxAttempts]
      BY <1>2 DEF TrySetup
    <2>3. QED
      BY <1>2, <2>1, <2>2 DEF TrySetup, SetupTypes
  <1>3. QED
    BY <1>1, <1>2

\* The conjuncts of a frame and of a queue of frames.
LEMMA FrameTyped ==
  ASSUME NEW m \in 1 .. MaxMessages, NEW t \in 0 .. SetupMax
  PROVE  Frame(m, t) \in FrameType
  BY DEF Frame, FrameType

LEMMA FramesTyped ==
  ASSUME NEW q \in Seq(1 .. MaxMessages), NEW t \in 0 .. SetupMax
  PROVE  /\ Frames(q, t) \in Seq(FrameType) /\ Len(Frames(q, t)) = Len(q)
         /\ \A i \in 1 .. Len(q) : Frames(q, t)[i] = Frame(q[i], t)
  <1>1. \A i \in 1 .. Len(q) : Frame(q[i], t) \in FrameType
    BY FrameTyped, ElementOfSeq
  <1>2. QED
    BY <1>1 DEF Frames

-----------------------------------------------------------------------------
LEMMA StepTypes ==
  ASSUME IInv, Next
  PROVE  TypeOK'
  <1> USE IInv DEF IInv
  <1> EndTypes /\ SetupTypes /\ RestTypes /\ request \in [Rounds -> RequestStates]
    BY TypeParts DEF EndTypes
  <1>1. CASE ClientMessage
    <2>1. received' \in 1 .. MaxMessages /\ Append(queue, received') \in Seq(1 .. MaxMessages)
      BY <1>1 DEF ClientMessage, RestTypes
    <2>2. CASE ~Started /\ TrySetup(request) /\ queue' = Append(queue, received') /\ UNCHANGED arrived
      <3>1. EndTypes' /\ SetupTypes'
        BY <2>2, TrySetupTypes DEF Started, SetupTypes
      <3>2. RestTypes'
        BY <1>1, <2>1, <2>2 DEF ClientMessage, RestTypes
      <3>3. QED
        BY <3>1, <3>2, TypePartsNext
    <2>3. CASE arrived' = Written(received') /\ UNCHANGED <<queue, setupVars>> /\ Carry(request)
      <3>1. EndTypes' /\ SetupTypes'
        BY <2>3, CarryTypes DEF setupVars, SetupTypes
      <3>2. arrived' \in Seq(FrameType)
        BY <2>1, <2>3, FrameTyped DEF Written, RestTypes
      <3>3. RestTypes'
        BY <1>1, <2>1, <2>3, <3>2 DEF ClientMessage, RestTypes
      <3>4. QED
        BY <3>1, <3>3, TypePartsNext
    <2>4. CASE queue' = Append(queue, received') /\ UNCHANGED <<arrived, setupVars>> /\ Carry(request)
      <3>1. EndTypes' /\ SetupTypes'
        BY <2>4, CarryTypes DEF setupVars, SetupTypes
      <3>2. RestTypes'
        BY <1>1, <2>1, <2>4 DEF ClientMessage, RestTypes
      <3>3. QED
        BY <3>1, <3>2, TypePartsNext
    <2>5. QED
      BY <1>1, <2>2, <2>3, <2>4 DEF ClientMessage
  <1>2. CASE ClientStops \/ ClientClosed \/ SetupTimeout \/ UpstreamStops \/ UpstreamClosed
    <2>1. /\ Shutdown(request)
          /\ UNCHANGED <<verify, received, queue, tries, mint, fired, token, up, arrived, outputs, shown>>
      BY <1>2 DEF ClientStops, ClientClosed, SetupTimeout, UpstreamStops, UpstreamClosed, setupVars
    <2>2. EndTypes'
      BY <2>1, ShutdownTypes
    <2>3. QED
      BY <2>1, <2>2, TypePartsNext DEF SetupTypes, RestTypes
  <1>3. CASE ClientBreaks
    BY <1>3, TypePartsNext DEF ClientBreaks, EndTypes, SetupTypes, RestTypes, setupVars
  <1>4. CASE AttemptEnds \/ VerifyEnds
    <2>1. UNCHANGED <<verify, received, queue, tries, up, arrived, outputs, shown>>
      BY <1>4 DEF AttemptEnds, VerifyEnds
    <2>2. tries \in Rounds /\ mint.shots \in 1 .. MaxAttempts
      BY <1>4 DEF AttemptEnds, VerifyEnds, DoorInv, SetupTypes
    <2>3. CASE MintAgain /\ UNCHANGED token
      <3>1. EndTypes'
        BY <2>3, CarryTypes, ShutdownTypes DEF MintAgain
      <3>2. mint' \in [at : {"idle", "attempt", "verify"}, shots : 0 .. MaxAttempts] /\ fired' \in Nat
        BY <2>2, <2>3 DEF MintAgain, NotMinting, SetupTypes
      <3>3. QED
        BY <2>1, <2>3, <3>1, <3>2, TypePartsNext DEF SetupTypes, RestTypes
    <2>4. CASE Minted
      <3>1. [request EXCEPT ![tries] = "pending"] \in [Rounds -> RequestStates]
        BY DEF RequestStates
      <3>2. EndTypes'
        BY <2>4, <3>1, CarryTypes DEF Minted
      <3>3. token' \in 0 .. SetupMax /\ SetupTypes'
        BY <2>1, <2>2, <2>4 DEF Minted, NotMinting, SetupTypes, RestTypes, Rounds
      <3>4. QED
        BY <2>1, <3>2, <3>3, TypePartsNext DEF RestTypes
    <2>5. CASE mint' = [mint EXCEPT !.at = "verify"] /\ UNCHANGED <<fired, token>> /\ Carry(request)
      <3>1. EndTypes'
        BY <2>5, CarryTypes
      <3>2. SetupTypes'
        BY <2>1, <2>5 DEF SetupTypes
      <3>3. QED
        BY <2>1, <2>5, <3>1, <3>2, TypePartsNext DEF RestTypes
    <2>6. CASE mint' = NotMinting /\ UNCHANGED <<fired, token>> /\ Shutdown(request)
      <3>1. EndTypes'
        BY <2>6, ShutdownTypes
      <3>2. SetupTypes'
        BY <2>1, <2>6 DEF SetupTypes, NotMinting
      <3>3. QED
        BY <2>1, <2>6, <3>1, <3>2, TypePartsNext DEF RestTypes
    <2>7. QED
      BY <1>4, <2>3, <2>4, <2>5, <2>6 DEF AttemptEnds, VerifyEnds
  <1>5. ASSUME NEW r \in Rounds, RequestFails(r) PROVE TypeOK'
    <2>1. PICK outcome \in {"failed", "rejected"} : Settle(r, outcome)
      BY <1>5 DEF RequestFails
    <2>2. [request EXCEPT ![r] = outcome] \in [Rounds -> RequestStates]
      BY DEF RequestStates
    <2>3. tries <= SetupMax
      BY <1>5 DEF RequestFails, DoorInv, Live, Rounds, SetupTypes
    <2>4. EndTypes' /\ SetupTypes'
      <3>1. CASE closed
        BY <2>1, <2>2, <3>1, CarryTypes DEF Settle, setupVars, SetupTypes
      <3>2. CASE ~closed
        BY <2>1, <2>2, <2>3, <3>2, TrySetupTypes DEF Settle
      <3>3. QED
        BY <3>1, <3>2
    <2>5. QED
      BY <1>5, <2>4, TypePartsNext DEF RequestFails, RestTypes
  <1>6. ASSUME NEW r \in Rounds, LateError(r) PROVE TypeOK'
    <2>1. [request EXCEPT ![r] = "failed"] \in [Rounds -> RequestStates]
      BY DEF RequestStates
    <2>2. EndTypes'
      BY <1>6, <2>1, CarryTypes DEF LateError
    <2>3. QED
      BY <1>6, <2>2, TypePartsNext DEF LateError, setupVars, SetupTypes, RestTypes
  <1>7. ASSUME NEW r \in Rounds, Upgrade(r) PROVE TypeOK'
    <2>1. \A state \in RequestStates : [request EXCEPT ![r] = state] \in [Rounds -> RequestStates]
      OBVIOUS
    <2>2. EndTypes'
      BY <1>7, <2>1, CarryTypes DEF Upgrade, RequestStates
    <2>3. arrived \o Frames(queue, token) \in Seq(FrameType)
      BY FramesTyped, ConcatProperties DEF RestTypes
    <2>4. << >> \in Seq(1 .. MaxMessages)
      OBVIOUS
    <2>5. /\ queue' \in Seq(1 .. MaxMessages) /\ arrived' \in Seq(FrameType) /\ up' \in 0 .. SetupMax
          /\ UNCHANGED <<verify, received, token, outputs, shown>>
      <3>1. CASE closed /\ UNCHANGED <<up, queue, arrived>>
        BY <1>7, <3>1 DEF Upgrade, RestTypes
      <3>2. CASE up' = r /\ queue' = << >> /\ arrived' = arrived \o Frames(queue, token)
        BY <1>7, <2>3, <2>4, <3>2 DEF Upgrade, RestTypes, Rounds
      <3>3. QED
        BY <1>7, <3>1, <3>2 DEF Upgrade
    <2>6. RestTypes'
      BY <2>5 DEF RestTypes
    <2>7. QED
      BY <1>7, <2>2, <2>6, TypePartsNext DEF Upgrade, setupVars, SetupTypes
  <1>8. CASE UpstreamMessage
    <2>1. outputs' \in 1 .. MaxOutputs
      BY <1>8 DEF UpstreamMessage, RestTypes
    <2>2. shown' \in Seq(1 .. MaxOutputs)
      <3>1. Append(shown, outputs') \in Seq(1 .. MaxOutputs)
        BY <2>1 DEF RestTypes
      <3>2. QED
        BY <1>8, <3>1 DEF UpstreamMessage, RestTypes
    <2>3. RestTypes'
      BY <1>8, <2>1, <2>2 DEF UpstreamMessage, RestTypes
    <2>4. QED
      BY <1>8, <2>3, TypePartsNext DEF UpstreamMessage, endVars, setupVars, EndTypes, SetupTypes
  <1>9. CASE UpstreamBreaks
    <2>1. [request EXCEPT ![up] = "broken"] \in [Rounds -> RequestStates]
      BY DEF RequestStates
    <2>2. EndTypes'
      BY <1>9, <2>1, CarryTypes DEF UpstreamBreaks
    <2>3. QED
      BY <1>9, <2>2, TypePartsNext DEF UpstreamBreaks, setupVars, SetupTypes, RestTypes
  <1>10. QED
    BY <1>1, <1>2, <1>3, <1>4, <1>5, <1>6, <1>7, <1>8, <1>9 DEF Next

-----------------------------------------------------------------------------
(* Rounds. *)

\* What DoorInv says, of requests as they will be.
Free(req) ==
    /\ \A r \in Rounds : req[r] \notin {"pending", "open", "broken"}
    /\ \A r \in Rounds : r > tries => req[r] = "none"

LEMMA ShutdownDoor ==
  ASSUME TypeOK, DoorInv, Shutdown(request), UNCHANGED <<tries, token, up>>, mint' \in {mint, NotMinting}
  PROVE  DoorInv'
  <1>1. CASE closed
    BY <1>1 DEF TypeOK, DoorInv, Live, Shutdown, Carry, NotMinting
  <1>2. CASE ~closed
    <2>1. request' = [r \in Rounds |-> IF r = up THEN "closed" ELSE request[r]] /\ closed'
      BY <1>2 DEF Shutdown
    <2>2. \A r \in Rounds : request'[r] = request[r] \/ (r = up /\ request'[r] = "closed")
      BY <2>1
    <2>3. \A r \in Rounds : request'[r] \notin {"open", "broken"}
      BY <2>1 DEF DoorInv
    <2>4. \A r \in Rounds : r > tries => request'[r] = "none"
      BY <2>2 DEF DoorInv, TypeOK, Rounds
    <2>5. mint'.at # "idle" => tries \in Rounds /\ mint'.shots >= 1 /\ up = 0 /\ request'[tries] = "none"
      BY <2>2 DEF DoorInv, TypeOK, Rounds, NotMinting
    <2>6. QED
      BY <2>2, <2>3, <2>4, <2>5 DEF DoorInv, Live
  <1>3. QED
    BY <1>1, <1>2

LEMMA TrySetupDoor ==
  ASSUME TypeOK, DoorInv, NEW req \in [Rounds -> RequestStates], Free(req), up = 0, tries <= SetupMax,
         TrySetup(req), UNCHANGED <<token, up>>, mint.at = "idle"
  PROVE  DoorInv'
  <1>1. request' = req
    BY DEF TrySetup, Shutdown, Carry, Rounds, TypeOK
  <1>2. tries' = tries + 1 /\ tries \in Nat
    BY DEF TrySetup, TypeOK
  <1>3. \A r \in Rounds : r > tries' => request'[r] = "none"
    BY <1>1, <1>2 DEF Free, Rounds
  <1>4. mint'.at # "idle" => tries' \in Rounds /\ mint'.shots >= 1 /\ request'[tries'] = "none"
    <2>1. CASE tries + 1 > SetupMax
      BY <1>2, <2>1 DEF TrySetup
    <2>2. CASE ~(tries + 1 > SetupMax)
      BY <1>1, <1>2, <2>2 DEF TrySetup, Free, Rounds
    <2>3. QED
      BY <2>1, <2>2
  <1>5. QED
    BY <1>1, <1>2, <1>3, <1>4 DEF DoorInv, Live, Free

LEMMA StepDoor ==
  ASSUME IInv, Next
  PROVE  DoorInv'
  <1> USE IInv DEF IInv
  <1>0. request \in [Rounds -> RequestStates]
    BY TypeParts DEF EndTypes
  <1>1. CASE ClientMessage
    <2>1. CASE ~Started /\ TrySetup(request)
      <3>1. up = 0 /\ tries = 0 /\ mint.at = "idle"
        BY <2>1 DEF Started, DoorInv, TypeOK, Rounds
      <3>2. Free(request)
        BY <3>1 DEF Free, DoorInv, Rounds
      <3>3. QED
        BY <1>0, <1>1, <2>1, <3>1, <3>2, TrySetupDoor DEF ClientMessage
    <2>2. CASE UNCHANGED setupVars /\ Carry(request)
      BY <1>1, <2>2 DEF ClientMessage, setupVars, Carry, DoorInv, Live
    <2>3. QED
      BY <1>1, <2>1, <2>2 DEF ClientMessage
  <1>2. CASE ClientStops \/ ClientClosed \/ SetupTimeout \/ UpstreamStops \/ UpstreamClosed
    <2>1. Shutdown(request) /\ UNCHANGED <<tries, mint, token, up>>
      BY <1>2 DEF ClientStops, ClientClosed, SetupTimeout, UpstreamStops, UpstreamClosed, setupVars
    <2>2. QED
      BY <2>1, ShutdownDoor
  <1>3. CASE ClientBreaks \/ UpstreamMessage
    BY <1>3 DEF ClientBreaks, UpstreamMessage, endVars, setupVars, DoorInv, Live
  <1>4. CASE AttemptEnds \/ VerifyEnds
    <2>1. UNCHANGED <<tries, up>>
      BY <1>4 DEF AttemptEnds, VerifyEnds
    <2>2. mint.at # "idle" /\ mint.shots \in Nat
      BY <1>4 DEF AttemptEnds, VerifyEnds, TypeOK
    <2>3. CASE UNCHANGED token /\ Shutdown(request) /\ mint' = NotMinting
      BY <2>1, <2>3, ShutdownDoor
    <2>4. CASE Carry(request) /\ UNCHANGED token /\ mint'.shots >= 1
      BY <2>1, <2>2, <2>4 DEF Carry, DoorInv, Live
    <2>5. CASE Minted
      <3>1. mint'.at = "idle"
        BY <2>5 DEF Minted, NotMinting
      <3>2. CASE closed
        BY <2>1, <2>5, <3>1, <3>2 DEF Minted, Carry, DoorInv, Live
      <3>3. CASE ~closed
        <4>1. request' = [request EXCEPT ![tries] = "pending"] /\ token' = tries
          BY <2>5, <3>3 DEF Minted, Carry
        <4>2. \A r \in Rounds : request'[r] = IF r = tries THEN "pending" ELSE request[r]
          BY <1>0, <4>1
        <4>3. \A r \in Rounds \ {tries} : request'[r] \notin {"pending", "open", "broken"}
          BY <2>2, <4>2 DEF DoorInv, Live
        <4>4. \A r \in Rounds : r > tries => request'[r] = "none"
          BY <4>2 DEF DoorInv, Rounds, TypeOK
        <4>5. QED
          BY <2>1, <2>2, <3>1, <4>1, <4>2, <4>3, <4>4 DEF DoorInv, Live
      <3>4. QED
        BY <3>2, <3>3
    <2>6. MintAgain => (Carry(request) /\ mint'.shots >= 1) \/ (Shutdown(request) /\ mint' = NotMinting)
      BY <2>2 DEF MintAgain
    <2>7. mint' = [mint EXCEPT !.at = "verify"] => mint'.shots >= 1
      BY <2>2 DEF DoorInv, TypeOK
    <2>8. QED
      BY <1>4, <2>3, <2>4, <2>5, <2>6, <2>7 DEF AttemptEnds, VerifyEnds
  <1>5. ASSUME NEW r \in Rounds, RequestFails(r) PROVE DoorInv'
    <2>1. PICK outcome \in {"failed", "rejected"} : Settle(r, outcome)
      BY <1>5 DEF RequestFails
    <2>2. r = tries /\ up = 0 /\ mint.at = "idle" /\ UNCHANGED <<token, up>>
      BY <1>5 DEF RequestFails, DoorInv, Live
    <2>3. PICK req \in [Rounds -> RequestStates] : req = [request EXCEPT ![r] = outcome]
      BY <1>0 DEF RequestStates
    <2>4. Free(req)
      <3>1. \A s \in Rounds : req[s] = IF s = r THEN outcome ELSE request[s]
        BY <1>0, <2>3
      <3>2. \A s \in Rounds : req[s] \notin {"pending", "open", "broken"}
        BY <2>2, <3>1 DEF DoorInv, Live
      <3>3. \A s \in Rounds : s > tries => req[s] = "none"
        BY <2>2, <3>1 DEF DoorInv, Rounds
      <3>4. QED
        BY <3>2, <3>3 DEF Free
    <2>5. CASE closed
      <3>1. request' = req /\ UNCHANGED <<closed, tries, mint>>
        BY <2>1, <2>3, <2>5 DEF Settle, Carry, setupVars
      <3>2. QED
        BY <2>2, <2>4, <3>1 DEF Free, DoorInv, Live
    <2>6. CASE ~closed
      <3>1. TrySetup(req)
        BY <2>1, <2>3, <2>6 DEF Settle
      <3>2. QED
        BY <2>2, <2>4, <3>1, TrySetupDoor DEF Rounds, TypeOK
    <2>7. QED
      BY <2>5, <2>6
  <1>6. ASSUME NEW r \in Rounds, LateError(r) PROVE DoorInv'
    <2>1. \A s \in Rounds : request'[s] = IF s = r THEN "failed" ELSE request[s]
      BY <1>0, <1>6 DEF LateError, Carry
    <2>2. UNCHANGED <<closed, tries, mint, token, up>> /\ request[r] = "rejected"
      BY <1>6 DEF LateError, Carry, setupVars
    <2>3. QED
      BY <2>1, <2>2 DEF DoorInv, Live
  <1>7. ASSUME NEW r \in Rounds, Upgrade(r) PROVE DoorInv'
    <2>1. r = tries /\ r = token /\ up = 0 /\ mint.at = "idle" /\ request[r] = "pending"
      BY <1>7 DEF Upgrade, DoorInv, Live
    <2>2. UNCHANGED <<closed, tries, mint, token>>
      BY <1>7 DEF Upgrade, Carry, setupVars
    <2>3. CASE closed
      <3>1. \A s \in Rounds : request'[s] = IF s = r THEN "closed" ELSE request[s]
        BY <1>0, <1>7, <2>3 DEF Upgrade, Carry
      <3>2. up' = up
        BY <1>7, <2>3 DEF Upgrade
      <3>3. QED
        BY <2>1, <2>2, <3>1, <3>2 DEF DoorInv, Live
    <2>4. CASE ~closed
      <3>1. \A s \in Rounds : request'[s] = IF s = r THEN "open" ELSE request[s]
        BY <1>0, <1>7, <2>4 DEF Upgrade, Carry
      <3>2. up' = r
        BY <1>7, <2>4 DEF Upgrade
      <3>3. \A s \in Rounds \ {r} : request'[s] \notin {"pending", "open", "broken"}
        BY <2>1, <3>1 DEF DoorInv, Live
      <3>4. \A s \in Rounds : s > tries => request'[s] = "none"
        BY <2>1, <3>1 DEF DoorInv, Rounds
      <3>5. up' <= tries' /\ tries \in Nat
        <4>1. tries \in Nat /\ tries' = tries
          BY <2>2 DEF TypeOK
        <4>2. up' = tries'
          BY <2>1, <3>2, <4>1
        <4>3. QED
          BY <4>1, <4>2
      <3>6. QED
        BY <2>1, <2>2, <2>4, <3>1, <3>2, <3>3, <3>4, <3>5 DEF DoorInv, Live
    <2>5. QED
      BY <2>3, <2>4
  <1>8. CASE UpstreamBreaks
    <2>1. \A s \in Rounds : request'[s] = IF s = up THEN "broken" ELSE request[s]
      BY <1>0, <1>8 DEF UpstreamBreaks, Carry
    <2>2. UNCHANGED <<closed, tries, mint, token, up>> /\ up \in Rounds /\ request[up] = "open"
      BY <1>8 DEF UpstreamBreaks, Carry, setupVars, UpReady, TypeOK, Rounds
    <2>3. QED
      BY <2>1, <2>2 DEF DoorInv, Live
  <1>9. QED
    BY <1>1, <1>2, <1>3, <1>4, <1>5, <1>6, <1>7, <1>8 DEF Next

-----------------------------------------------------------------------------
(* Messages. *)

\* A step that reads and writes no message of the client opens nothing.
OpensNothing ==
    /\ UNCHANGED <<received, queue, up, arrived, outputs, shown>>
    /\ tries' = 0 => tries = 0
    /\ closed' => socket' = "destroyed"
    /\ socket' = "open" => socket = "open"
    /\ up # 0 /\ request'[up] = "open" => request[up] = "open"

LEMMA QuietOrder ==
  ASSUME OrderInv, OpensNothing
  PROVE  OrderInv'
  BY DEF OrderInv, OpensNothing

LEMMA ShutdownOpens ==
  ASSUME TypeOK, OrderInv, NEW req \in [Rounds -> RequestStates], Shutdown(req)
  PROVE  /\ closed' => socket' = "destroyed"
         /\ socket' = "open" => socket = "open"
         /\ up # 0 /\ request'[up] = "open" => req[up] = "open"
  <1>1. CASE closed
    BY <1>1 DEF Shutdown, Carry, OrderInv
  <1>2. CASE ~closed
    BY <1>2 DEF Shutdown, TypeOK, Rounds
  <1>3. QED
    BY <1>1, <1>2

LEMMA CarryOpens ==
  ASSUME OrderInv, NEW req, Carry(req)
  PROVE  /\ closed' => socket' = "destroyed"
         /\ socket' = "open" => socket = "open"
         /\ request' = req
  BY DEF Carry, OrderInv

LEMMA TrySetupOpens ==
  ASSUME TypeOK, OrderInv, NEW req \in [Rounds -> RequestStates], TrySetup(req)
  PROVE  /\ tries' # 0
         /\ closed' => socket' = "destroyed"
         /\ socket' = "open" => socket = "open"
         /\ up # 0 /\ request'[up] = "open" => req[up] = "open"
  <1>1. tries' = tries + 1 /\ (Shutdown(req) \/ Carry(req))
    BY DEF TrySetup
  <1>2. QED
    BY <1>1, ShutdownOpens, CarryOpens DEF TypeOK

LEMMA StepOrder ==
  ASSUME IInv, Next
  PROVE  OrderInv'
  <1> USE IInv DEF IInv
  <1>0. request \in [Rounds -> RequestStates] /\ received \in Nat /\ tries \in Nat /\ up \in Nat
    BY TypeParts DEF EndTypes, TypeOK
  <1>1. CASE ClientMessage
    <2>1. /\ received' = received + 1 /\ received' \in 1 .. MaxMessages /\ socket = "open" /\ ~closed
          /\ UNCHANGED <<token, up, outputs, shown>>
      BY <1>1 DEF ClientMessage, TypeOK, OrderInv
    <2>2. up = 0 => Append(queue, received') = UpTo(received')
      <3>1. SUFFICES ASSUME up = 0 PROVE Append(UpTo(received), received + 1) = UpTo(received + 1)
        BY <2>1 DEF OrderInv
      <3>2. UpTo(received) \in Seq(Nat) /\ UpTo(received + 1) \in Seq(Nat)
        BY <1>0 DEF UpTo
      <3>3. Len(UpTo(received)) = received /\ Len(UpTo(received + 1)) = received + 1
        BY <1>0 DEF UpTo
      <3>4. \A i \in 1 .. received + 1 : Append(UpTo(received), received + 1)[i] = UpTo(received + 1)[i]
        BY <1>0, <3>2, <3>3 DEF UpTo
      <3>5. Append(UpTo(received), received + 1) \in Seq(Nat)
            /\ Len(Append(UpTo(received), received + 1)) = received + 1
        BY <1>0, <3>2, <3>3
      <3>6. QED
        BY <3>2, <3>3, <3>4, <3>5, SeqEqual
    <2>3. CASE ~UpReady /\ queue' = Append(queue, received') /\ UNCHANGED arrived /\ (TrySetup(request) \/ (Started /\ Carry(request) /\ UNCHANGED setupVars))
      <3>1. up = 0 /\ arrived = << >> /\ queue' = UpTo(received')
        BY <2>2, <2>3 DEF UpReady, OrderInv
      <3>2. tries' # 0 /\ (closed' => socket' = "destroyed") /\ (socket' = "open" => socket = "open")
        BY <1>0, <2>3, TrySetupOpens, CarryOpens DEF Started, setupVars
      <3>3. QED
        BY <2>1, <2>3, <3>1, <3>2 DEF OrderInv
    <2>4. CASE Started /\ UpReady /\ arrived' = Written(received') /\ UNCHANGED queue /\ UNCHANGED setupVars /\ Carry(request)
      <3>1. up # 0 /\ up = token /\ tries' # 0 /\ UNCHANGED <<closed, socket, request>>
        BY <1>0, <2>4 DEF UpReady, Started, setupVars, Carry, DoorInv
      <3>2. CASE request[up] = "open"
        <4>1. arrived' = Append(arrived, Frame(received', up)) /\ Len(arrived) = received
          BY <2>4, <3>1, <3>2 DEF Written, OrderInv
        <4>2. arrived \in Seq(FrameType)
          BY DEF TypeOK
        <4>3. Len(arrived') = received' /\ \A i \in 1 .. Len(arrived') : arrived'[i] = Frame(i, up)
          BY <1>0, <2>1, <4>1, <4>2 DEF OrderInv
        <4>4. QED
          BY <1>0, <2>1, <2>4, <3>1, <4>3 DEF OrderInv
      <3>3. CASE request[up] # "open"
        <4>1. arrived' = arrived /\ Len(arrived) \in Nat
          BY <2>4, <3>3 DEF Written, TypeOK
        <4>2. QED
          BY <1>0, <2>1, <2>4, <3>1, <3>3, <4>1 DEF OrderInv
      <3>4. QED
        BY <3>2, <3>3
    <2>5. ~Started => ~UpReady
      BY <1>0 DEF Started, UpReady, DoorInv
    <2>6. QED
      BY <1>1, <2>3, <2>4, <2>5 DEF ClientMessage
  <1>2. CASE ClientStops \/ ClientClosed \/ SetupTimeout \/ UpstreamStops \/ UpstreamClosed
    <2>1. Shutdown(request) /\ UNCHANGED <<received, queue, tries, up, arrived, outputs, shown>>
      BY <1>2 DEF ClientStops, ClientClosed, SetupTimeout, UpstreamStops, UpstreamClosed, setupVars
    <2>2. QED
      BY <1>0, <2>1, ShutdownOpens, QuietOrder DEF OpensNothing
  <1>3. CASE ClientBreaks
    BY <1>3, QuietOrder DEF ClientBreaks, setupVars, OpensNothing
  <1>4. CASE AttemptEnds \/ VerifyEnds
    <2>1. UNCHANGED <<received, queue, tries, up, arrived, outputs, shown>> /\ up = 0
      BY <1>4 DEF AttemptEnds, VerifyEnds, DoorInv
    <2>2. Shutdown(request) \/ \E req : Carry(req)
      BY <1>4 DEF AttemptEnds, VerifyEnds, MintAgain, Minted
    <2>3. QED
      BY <1>0, <2>1, <2>2, ShutdownOpens, CarryOpens, QuietOrder DEF OpensNothing
  <1>5. ASSUME NEW r \in Rounds, RequestFails(r) PROVE OrderInv'
    <2>1. PICK outcome \in {"failed", "rejected"} : Settle(r, outcome)
      BY <1>5 DEF RequestFails
    <2>2. UNCHANGED <<received, queue, up, arrived, outputs, shown>> /\ up = 0
      BY <1>5 DEF RequestFails, DoorInv
    <2>3. PICK req \in [Rounds -> RequestStates] : req = [request EXCEPT ![r] = outcome]
      BY <1>0 DEF RequestStates
    <2>4. (Carry(req) /\ UNCHANGED tries) \/ TrySetup(req)
      BY <2>1, <2>3 DEF Settle, setupVars
    <2>5. QED
      BY <2>2, <2>4, TrySetupOpens, CarryOpens, QuietOrder DEF OpensNothing
  <1>6. ASSUME NEW r \in Rounds, LateError(r) PROVE OrderInv'
    <2>1. Carry([request EXCEPT ![r] = "failed"])
          /\ UNCHANGED <<received, queue, tries, up, arrived, outputs, shown>>
      BY <1>6 DEF LateError, setupVars
    <2>2. up # 0 /\ request'[up] = "open" => request[up] = "open"
      BY <1>0, <2>1 DEF Carry, Rounds, TypeOK
    <2>3. QED
      BY <2>1, <2>2, CarryOpens, QuietOrder DEF OpensNothing
  <1>7. ASSUME NEW r \in Rounds, Upgrade(r) PROVE OrderInv'
    <2>1. r = token /\ up = 0 /\ arrived = << >> /\ queue = UpTo(received)
      BY <1>7 DEF Upgrade, DoorInv, OrderInv, Live
    <2>2. UNCHANGED <<received, tries, token, outputs, shown, closed, socket>>
      BY <1>7 DEF Upgrade, Carry, setupVars
    <2>3. CASE UNCHANGED <<up, queue, arrived>>
      BY <2>1, <2>2, <2>3, QuietOrder DEF OpensNothing, OrderInv
    <2>4. CASE up' = r /\ queue' = << >> /\ arrived' = arrived \o Frames(queue, token)
      <3>1. queue \in Seq(1 .. MaxMessages) /\ token \in 0 .. SetupMax
        BY DEF TypeOK
      <3>2. arrived' = Frames(queue, token)
        BY <2>1, <2>4, <3>1, FramesTyped, ConcatEmptySeq
      <3>3. Len(queue) = received /\ \A i \in 1 .. received : queue[i] = i
        BY <1>0, <2>1 DEF UpTo
      <3>4. Len(arrived') = received /\ \A i \in 1 .. received : arrived'[i] = Frame(i, r)
        BY <2>1, <3>1, <3>2, <3>3, FramesTyped
      <3>5. QED
        BY <1>0, <2>2, <2>4, <3>4 DEF OrderInv, Rounds
    <2>5. QED
      BY <1>7, <2>3, <2>4 DEF Upgrade
  <1>8. CASE UpstreamMessage
    <2>1. UNCHANGED <<closed, socket, request, received, queue, tries, up, arrived>>
      BY <1>8 DEF UpstreamMessage, endVars, setupVars
    <2>2. socket = "open" => Len(shown') = outputs'
      <3>1. shown \in Seq(1 .. MaxOutputs) /\ outputs' = outputs + 1
        BY <1>8 DEF UpstreamMessage, TypeOK
      <3>2. socket = "open" => shown' = Append(shown, outputs')
        BY <1>8 DEF UpstreamMessage, OrderInv
      <3>3. QED
        BY <3>1, <3>2 DEF OrderInv
    <2>3. QED
      BY <2>1, <2>2 DEF OrderInv
  <1>9. CASE UpstreamBreaks
    <2>1. Carry([request EXCEPT ![up] = "broken"])
          /\ UNCHANGED <<received, queue, tries, up, arrived, outputs, shown>>
      BY <1>9 DEF UpstreamBreaks, setupVars
    <2>2. up # 0 /\ request'[up] = "open" => request[up] = "open"
      BY <1>9 DEF UpstreamBreaks
    <2>3. QED
      BY <2>1, <2>2, CarryOpens, QuietOrder DEF OpensNothing
  <1>10. QED
    BY <1>1, <1>2, <1>3, <1>4, <1>5, <1>6, <1>7, <1>8, <1>9 DEF Next

-----------------------------------------------------------------------------
(* The invariant and what follows from it. *)

LEMMA InitInv == Init => IInv
  <1> SUFFICES ASSUME Init PROVE IInv
    OBVIOUS
  <1>1. TypeOK
    <2>1. request \in [Rounds -> RequestStates]
      BY DEF Init, RequestStates
    <2>2. queue \in Seq(1 .. MaxMessages) /\ shown \in Seq(1 .. MaxOutputs) /\ arrived \in Seq(FrameType)
      BY EmptySeq DEF Init
    <2>3. mint \in [at : {"idle", "attempt", "verify"}, shots : 0 .. MaxAttempts]
      BY DEF Init, NotMinting
    <2>4. verify \in Verifies /\ closed \in BOOLEAN /\ socket = "open" /\ farewell = "none"
      BY DEF Init
    <2>5. received = 0 /\ outputs = 0 /\ fired = 0 /\ tries = 0 /\ token = 0 /\ up = 0
      BY DEF Init
    <2>6. /\ received \in 0 .. MaxMessages /\ outputs \in 0 .. MaxOutputs /\ fired \in Nat
          /\ tries \in 0 .. (SetupMax + 1) /\ token \in 0 .. SetupMax /\ up \in 0 .. SetupMax
      BY <2>5
    <2>7. QED
      BY <2>1, <2>2, <2>3, <2>4, <2>6 DEF TypeOK, RequestStates
  <1>2. DoorInv
    BY DEF Init, NotMinting, DoorInv, Live, Rounds
  <1>3. OrderInv
    BY DEF Init, OrderInv, UpTo
  <1>4. QED
    BY <1>1, <1>2, <1>3 DEF IInv

LEMMA StepInv == IInv /\ [Next]_vars => IInv'
  <1>1. CASE Next
    BY <1>1, StepTypes, StepDoor, StepOrder DEF IInv
  <1>2. CASE UNCHANGED vars
    BY <1>2 DEF vars, IInv, TypeOK, DoorInv, OrderInv, Live
  <1>3. QED
    BY <1>1, <1>2

LEMMA InvHolds == Spec => []IInv
  BY InitInv, StepInv, PTL DEF Spec

(* Every variable keeps its type: no callback of wsBridge, in no order,    *)
(* leaves a state outside of it.                                           *)
THEOREM TypeCorrect == Spec => []TypeOK
  BY InvHolds, PTL DEF IInv

(* There is one setup at a time: the settled flag and the closed flag keep *)
(* a second mint or request of the same bridge from starting.              *)
THEOREM SetupIsOne == Spec => []OneSetup
  <1>1. IInv => OneSetup
    BY DEF IInv, DoorInv, OneSetup, Underway, Live, UpReady
  <1>2. QED
    BY <1>1, InvHolds, PTL

(* What reaches the upstream carries the ticket of the try that opened the *)
(* connection, after any number of tries.                                  *)
THEOREM TicketAndDoor == Spec => []TicketMatchesDoor
  <1>1. IInv => TicketMatchesDoor
    <2> SUFFICES ASSUME IInv, NEW i \in 1 .. Len(arrived)
                 PROVE  arrived[i].ticket = IF arrived[i].msg \in Plain THEN 0 ELSE up
      BY DEF TicketMatchesDoor
    <2>1. arrived[i] = Frame(i, up)
      BY DEF IInv, OrderInv
    <2>2. Frame(i, up).msg = i /\ Frame(i, up).ticket = IF i \in Plain THEN 0 ELSE up
      BY DEF Frame
    <2>3. QED
      BY <2>1, <2>2
  <1>2. QED
    BY <1>1, InvHolds, PTL

(* A closed bridge has no open connection, and a late upgrade gives it     *)
(* none.                                                                   *)
THEOREM NothingIsLeft == Spec => []NothingLeaks
  <1>1. IInv => NothingLeaks
    BY DEF IInv, DoorInv, NothingLeaks
  <1>2. QED
    BY <1>1, InvHolds, PTL

(* Nothing is minted for a client that is gone.                            *)
THEOREM NobodyIsServed == Spec => NoShotForNobody
  <1>1. IInv /\ [Next]_vars => [closed => fired' = fired]_vars
    <2> SUFFICES ASSUME IInv, Next, closed PROVE fired' = fired
      BY DEF vars
    <2>1. socket # "open"
      BY DEF IInv, OrderInv
    <2>2. CASE AttemptEnds \/ VerifyEnds
      BY <2>2 DEF AttemptEnds, VerifyEnds, MintAgain, Minted
    <2>3. ASSUME NEW r \in Rounds, RequestFails(r) PROVE fired' = fired
      BY <2>3 DEF RequestFails, Settle, setupVars
    <2>4. ASSUME NEW r \in Rounds, LateError(r) \/ Upgrade(r) PROVE fired' = fired
      BY <2>4 DEF LateError, Upgrade, setupVars
    <2>5. CASE ClientMessage \/ ClientStops \/ ClientBreaks \/ ClientClosed \/ SetupTimeout
      BY <2>1, <2>5 DEF ClientMessage, ClientStops, ClientBreaks, ClientClosed, SetupTimeout
    <2>6. CASE UpstreamMessage \/ UpstreamStops \/ UpstreamBreaks \/ UpstreamClosed
      BY <2>6 DEF UpstreamMessage, UpstreamStops, UpstreamBreaks, UpstreamClosed, setupVars
    <2>7. QED
      BY <2>2, <2>3, <2>4, <2>5, <2>6 DEF Next
  <1>2. QED
    BY <1>1, InvHolds, PTL DEF Spec, NoShotForNobody

-----------------------------------------------------------------------------
(* The cost. *)

LEMMA Times ==
  ASSUME NEW a \in Nat, NEW b \in Nat, a <= b
  PROVE  /\ a * MaxAttempts \in Nat
         /\ a * MaxAttempts <= b * MaxAttempts
         /\ (a + 1) * MaxAttempts = a * MaxAttempts + MaxAttempts
  OBVIOUS

\* The rounds before this one have spent their shots at most, this one its own.
CostInv ==
    /\ mint.at # "idle" => fired <= (tries - 1) * MaxAttempts + mint.shots
    /\ mint.at = "idle" /\ tries <= SetupMax => fired <= tries * MaxAttempts
    /\ tries > SetupMax => mint.at = "idle" /\ fired <= SetupMax * MaxAttempts

LEMMA StepCost == IInv /\ CostInv /\ [Next]_vars => CostInv'
  <1> SUFFICES ASSUME IInv, CostInv, [Next]_vars PROVE CostInv'
    OBVIOUS
  <1>0. /\ tries \in Nat /\ tries <= SetupMax + 1 /\ fired \in Nat /\ mint.shots \in 0 .. MaxAttempts
        /\ mint.at # "idle" => tries \in 1 .. SetupMax
    BY DEF IInv, TypeOK, DoorInv, Rounds
  <1>1. CASE UNCHANGED <<tries, mint, fired>>
    BY <1>1 DEF CostInv
  <1>2. ASSUME NEW req, TrySetup(req), mint.at = "idle", tries <= SetupMax PROVE CostInv'
    <2>1. tries' = tries + 1 /\ fired <= tries * MaxAttempts
      BY <1>2 DEF TrySetup, CostInv
    <2>2. CASE tries + 1 > SetupMax
      <3>1. tries = SetupMax /\ UNCHANGED <<mint, fired>>
        BY <1>0, <1>2, <2>1, <2>2 DEF TrySetup
      <3>2. QED
        BY <1>2, <2>1, <3>1 DEF CostInv
    <2>3. CASE ~(tries + 1 > SetupMax)
      <3>1. mint' = [at |-> "attempt", shots |-> 1] /\ fired' = fired + 1
        BY <1>2, <2>1, <2>3 DEF TrySetup
      <3>2. mint'.at = "attempt" /\ mint'.shots = 1 /\ tries' - 1 = tries
        BY <1>0, <2>1, <3>1
      <3>3. fired' <= tries * MaxAttempts + 1
        BY <1>0, <2>1, <3>1, Times
      <3>4. QED
        BY <1>0, <2>1, <2>3, <3>2, <3>3 DEF CostInv
    <2>4. QED
      BY <2>2, <2>3
  <1>3. CASE AttemptEnds \/ VerifyEnds
    <2>1. tries \in 1 .. SetupMax /\ fired <= (tries - 1) * MaxAttempts + mint.shots /\ UNCHANGED tries
      BY <1>0, <1>3 DEF AttemptEnds, VerifyEnds, CostInv
    <2>2. (tries - 1) * MaxAttempts \in Nat /\ tries * MaxAttempts = (tries - 1) * MaxAttempts + MaxAttempts
      <3>1. tries - 1 \in Nat /\ (tries - 1) + 1 = tries
        BY <2>1
      <3>2. QED
        BY <3>1, Times
    <2>3. CASE mint' = NotMinting /\ UNCHANGED fired
      BY <1>0, <2>1, <2>2, <2>3 DEF CostInv, NotMinting
    <2>4. CASE mint' = [at |-> "attempt", shots |-> mint.shots + 1] /\ fired' = fired + 1
      <3>1. mint'.shots = mint.shots + 1 /\ mint'.at = "attempt"
        BY <2>4
      <3>2. QED
        BY <1>0, <2>1, <2>2, <2>4, <3>1 DEF CostInv
    <2>5. CASE mint' = [mint EXCEPT !.at = "verify"] /\ UNCHANGED fired
      <3>1. mint'.shots = mint.shots /\ mint'.at = "verify"
        BY <2>5 DEF IInv, TypeOK
      <3>2. QED
        BY <1>0, <2>1, <2>2, <2>5, <3>1 DEF CostInv
    <2>6. QED
      BY <1>3, <2>3, <2>4, <2>5 DEF AttemptEnds, VerifyEnds, MintAgain, Minted
  <1>4. CASE ClientMessage
    <2>1. CASE ~Started /\ TrySetup(request)
      <3>1. tries = 0 /\ mint.at = "idle"
        BY <1>0, <2>1 DEF Started
      <3>2. QED
        BY <1>2, <2>1, <3>1
    <2>2. QED
      BY <1>1, <1>4, <2>1 DEF ClientMessage, setupVars
  <1>5. ASSUME NEW r \in Rounds, RequestFails(r) PROVE CostInv'
    <2>1. r = tries /\ mint.at = "idle"
      BY <1>5 DEF RequestFails, IInv, DoorInv, Live
    <2>2. PICK outcome : Settle(r, outcome)
      BY <1>5 DEF RequestFails
    <2>3. (\E req : TrySetup(req)) \/ UNCHANGED <<tries, mint, fired>>
      BY <2>2 DEF Settle, setupVars
    <2>4. QED
      BY <1>1, <1>2, <2>1, <2>3 DEF Rounds
  <1>6. ASSUME NEW r \in Rounds, LateError(r) \/ Upgrade(r) PROVE CostInv'
    BY <1>1, <1>6 DEF LateError, Upgrade, setupVars
  <1>7. CASE ClientStops \/ ClientBreaks \/ ClientClosed \/ SetupTimeout
    BY <1>1, <1>7 DEF ClientStops, ClientBreaks, ClientClosed, SetupTimeout, setupVars
  <1>8. CASE UpstreamMessage \/ UpstreamStops \/ UpstreamBreaks \/ UpstreamClosed
    BY <1>1, <1>8 DEF UpstreamMessage, UpstreamStops, UpstreamBreaks, UpstreamClosed, setupVars
  <1>9. QED
    BY <1>1, <1>3, <1>4, <1>5, <1>6, <1>7, <1>8 DEF Next, vars

(* A bridge costs at most SetupMax rounds of MaxAttempts attempts each,    *)
(* however errors, answers and the loop of bridgeMintTicket interleave.    *)
THEOREM CostIsBounded == Spec => []AttemptsBounded
  <1>1. Init => CostInv
    BY DEF Init, NotMinting, CostInv
  <1>2. IInv /\ CostInv => AttemptsBounded
    <2> SUFFICES ASSUME IInv, CostInv PROVE fired <= SetupMax * MaxAttempts
      BY DEF AttemptsBounded
    <2>1. /\ tries \in Nat /\ tries <= SetupMax + 1 /\ fired \in Nat /\ mint.shots \in 0 .. MaxAttempts
          /\ mint.at # "idle" => tries \in 1 .. SetupMax
      BY DEF IInv, TypeOK, DoorInv, Rounds
    <2>2. CASE tries > SetupMax
      BY <2>2 DEF CostInv
    <2>3. CASE mint.at # "idle"
      <3>1. tries - 1 \in Nat /\ (tries - 1) + 1 = tries /\ tries <= SetupMax
        BY <2>1, <2>3
      <3>2. /\ (tries - 1) * MaxAttempts \in Nat
            /\ tries * MaxAttempts = (tries - 1) * MaxAttempts + MaxAttempts
            /\ tries * MaxAttempts <= SetupMax * MaxAttempts
            /\ tries * MaxAttempts \in Nat /\ SetupMax * MaxAttempts \in Nat
        BY <2>1, <3>1, Times
      <3>3. fired <= (tries - 1) * MaxAttempts + mint.shots
        BY <2>3 DEF CostInv
      <3>4. QED
        BY <2>1, <3>2, <3>3
    <2>4. CASE mint.at = "idle" /\ tries <= SetupMax
      <3>1. fired <= tries * MaxAttempts
        BY <2>4 DEF CostInv
      <3>2. tries * MaxAttempts <= SetupMax * MaxAttempts /\ tries * MaxAttempts \in Nat /\ SetupMax * MaxAttempts \in Nat
        BY <2>1, <2>4, Times
      <3>3. QED
        BY <2>1, <3>1, <3>2
    <2>5. QED
      BY <2>1, <2>2, <2>3, <2>4
  <1>3. QED
    BY <1>1, <1>2, StepCost, InvHolds, PTL DEF Spec

-----------------------------------------------------------------------------
(* The pipe. *)

LEMMA FrameNumber ==
  ASSUME NEW m, NEW t
  PROVE  Frame(m, t).msg = m
  BY DEF Frame

\* What the far end has got, by number.
Arrived == [i \in 1 .. Len(arrived) |-> arrived[i].msg]

LEMMA ArrivedInOrder ==
  ASSUME IInv
  PROVE  Arrived = UpTo(Len(arrived)) /\ Len(arrived) \in Nat /\ Len(Arrived) = Len(arrived)
  <1>1. Len(arrived) \in Nat
    BY DEF IInv, TypeOK
  <1>2. \A i \in 1 .. Len(arrived) : arrived[i].msg = i
    BY FrameNumber DEF IInv, OrderInv
  <1>3. QED
    BY <1>1, <1>2 DEF Arrived, UpTo

\* The steps that move a message of the client, the upstream's, or the end.
LEMMA PipeForward ==
  ASSUME IInv, IInv', received' \in {received, received + 1}, ~closed, UNCHANGED <<shown, closed, farewell>>,
         Len(arrived) <= Len(arrived')
  PROVE  Pipe!Forward
  <1>1. Arrived' = UpTo(Len(arrived')) /\ Len(arrived') \in Nat
    <2>1. Len(arrived') \in Nat
      BY DEF IInv, TypeOK
    <2>2. \A i \in 1 .. Len(arrived') : arrived'[i] = Frame(i, up')
      BY DEF IInv, OrderInv
    <2>3. \A i \in 1 .. Len(arrived') : arrived'[i].msg = i
      BY <2>2, FrameNumber
    <2>4. QED
      BY <2>1, <2>3 DEF Arrived, UpTo
  <1>2. Len(Arrived) = Len(arrived) /\ Len(arrived) \in Nat
    BY ArrivedInOrder
  <1>3. Len(arrived') <= received' /\ received' \in Nat
    BY DEF IInv, OrderInv, TypeOK
  <1>4. \E n \in Len(Arrived) .. received' : Arrived' = UpTo(n)
    BY <1>1, <1>2, <1>3
  <1>5. QED
    BY <1>4 DEF Pipe!Forward, Pipe!UpTo, UpTo, Arrived

LEMMA PipeEnd ==
  ASSUME IInv, NEW req, Shutdown(req), ~closed, UNCHANGED <<received, arrived, shown>>
  PROVE  Pipe!End
  <1>1. closed' = TRUE /\ farewell' = LastWord
    BY DEF Shutdown
  <1>2. LastWord \in {"none", "close", "diagnosis"} /\ (LastWord = "diagnosis" => shown = << >>)
    <2>1. LastWord = "diagnosis" => socket = "open" /\ outputs = 0
      BY DEF LastWord, ProducedOutput, IInv, TypeOK
    <2>2. socket = "open" /\ outputs = 0 => shown = << >>
      BY EmptySeq DEF IInv, OrderInv, TypeOK
    <2>3. QED
      BY <2>1, <2>2 DEF LastWord
  <1>3. QED
    BY <1>1, <1>2 DEF Pipe!End, Arrived

LEMMA PipeStays ==
  ASSUME UNCHANGED <<received, arrived, shown, closed, farewell>>
  PROVE  UNCHANGED Pipe!vars
  BY DEF Pipe!vars

LEMMA PipeShutdown ==
  ASSUME IInv, NEW req, Shutdown(req) \/ Carry(req), UNCHANGED <<received, arrived, shown>>
  PROVE  [Pipe!Next]_(Pipe!vars)
  <1>1. CASE Carry(req)
    BY <1>1, PipeStays DEF Carry
  <1>2. CASE Shutdown(req) /\ closed
    BY <1>2, PipeStays DEF Carry, Shutdown
  <1>3. CASE Shutdown(req) /\ ~closed
    BY <1>3, PipeEnd DEF Pipe!Next
  <1>4. QED
    BY <1>1, <1>2, <1>3

(* Over all its tries and whatever fails, the bridge is a pipe: it hands   *)
(* on the client's messages in order and whole, gives the upstream's back  *)
(* in order, and ends once, with a diagnosis only if it gave nothing back. *)
THEOREM ImplementsPipe == Spec => KeepsPipe
  <1>1. Init => Pipe!Init
    BY DEF Init, Pipe!Init
  <1>2. ASSUME IInv, IInv', [Next]_vars PROVE [Pipe!Next]_(Pipe!vars)
    <2>1. CASE UNCHANGED vars
      BY <2>1, PipeStays DEF vars
    <2>2. CASE ClientMessage
      <3>1. /\ socket = "open" /\ received' = received + 1 /\ UNCHANGED shown
            /\ arrived' = arrived \/ (UpReady /\ arrived' = Written(received'))
        BY <2>2 DEF ClientMessage
      <3>2. ~closed
        BY <1>2, <3>1 DEF IInv, OrderInv
      <3>3. UNCHANGED <<closed, farewell>>
        <4>1. CASE ~Started /\ TrySetup(request)
          <5>1. tries = 0 /\ 1 \in Rounds
            BY <1>2, <4>1 DEF IInv, TypeOK, Started, Rounds
          <5>2. QED
            BY <4>1, <5>1 DEF TrySetup, Carry, Rounds
        <4>2. QED
          BY <2>2, <4>1 DEF ClientMessage, Carry
      <3>4. Len(arrived) <= Len(arrived')
        <4>1. arrived \in Seq(FrameType)
          BY <1>2 DEF IInv, TypeOK
        <4>2. QED
          BY <3>1, <4>1 DEF Written
      <3>5. QED
        BY <1>2, <3>1, <3>2, <3>3, <3>4, PipeForward DEF Pipe!Next
    <2>3. CASE ClientStops \/ ClientClosed \/ SetupTimeout \/ UpstreamStops \/ UpstreamBreaks \/ UpstreamClosed
      <3>1. \E req : (Shutdown(req) \/ Carry(req)) /\ UNCHANGED <<received, arrived, shown>>
        BY <2>3 DEF ClientStops, ClientClosed, SetupTimeout, UpstreamStops, UpstreamBreaks, UpstreamClosed
      <3>2. QED
        BY <1>2, <3>1, PipeShutdown
    <2>4. CASE ClientBreaks
      BY <2>4, PipeStays DEF ClientBreaks
    <2>5. CASE AttemptEnds \/ VerifyEnds
      <3>1. \E req : (Shutdown(req) \/ Carry(req)) /\ UNCHANGED <<received, arrived, shown>>
        BY <2>5 DEF AttemptEnds, VerifyEnds, MintAgain, Minted
      <3>2. QED
        BY <1>2, <3>1, PipeShutdown
    <2>6. ASSUME NEW r \in Rounds, RequestFails(r) \/ LateError(r) PROVE [Pipe!Next]_(Pipe!vars)
      <3>1. \E req : (Shutdown(req) \/ Carry(req)) /\ UNCHANGED <<received, arrived, shown>>
        BY <2>6 DEF RequestFails, LateError, Settle, TrySetup
      <3>2. QED
        BY <1>2, <3>1, PipeShutdown
    <2>7. ASSUME NEW r \in Rounds, Upgrade(r) PROVE [Pipe!Next]_(Pipe!vars)
      <3>1. UNCHANGED <<received, shown, closed, farewell>>
        BY <2>7 DEF Upgrade, Carry
      <3>2. CASE closed
        BY <2>7, <3>1, <3>2, PipeStays DEF Upgrade
      <3>3. CASE ~closed
        <4>1. arrived = << >> /\ Len(arrived') \in Nat
          BY <1>2, <2>7 DEF Upgrade, IInv, DoorInv, OrderInv, TypeOK
        <4>2. Len(arrived) <= Len(arrived')
          BY <4>1
        <4>3. QED
          BY <1>2, <3>1, <3>3, <4>2, PipeForward DEF Pipe!Next
      <3>4. QED
        BY <3>2, <3>3
    <2>8. CASE UpstreamMessage
      <3>1. ~closed /\ UNCHANGED <<received, arrived, closed, farewell>>
        BY <1>2, <2>8 DEF UpstreamMessage, endVars, UpReady, IInv, DoorInv, TypeOK, Rounds
      <3>2. CASE socket = "open"
        <4>1. shown' = Append(shown, Len(shown) + 1)
          BY <1>2, <2>8, <3>1, <3>2 DEF UpstreamMessage, IInv, OrderInv
        <4>2. QED
          BY <3>1, <4>1 DEF Pipe!Next, Pipe!Show
      <3>3. CASE socket # "open"
        BY <2>8, <3>1, <3>3, PipeStays DEF UpstreamMessage
      <3>4. QED
        BY <3>2, <3>3
    <2>9. QED
      BY <1>2, <2>1, <2>2, <2>3, <2>4, <2>5, <2>6, <2>7, <2>8 DEF Next
  <1>3. QED
    BY <1>1, <1>2, InvHolds, PTL DEF Spec, KeepsPipe, Pipe!Safe
===============================================================================
